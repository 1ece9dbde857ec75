---------------------------- MODULE RegistryProofs -----------------------------
(***************************************************************************)
(* Proofs about Registry for every set of providers and callers and any    *)
(* pool, grace and intervals: no burst is piled onto a drained pool, a     *)
(* source is polled by one fetch at a time, Run never oversleeps, and no   *)
(* answer lands after a later source's.                                    *)
(*                                                                         *)
(* The first rests on a balance.  In every set of seconds no report has    *)
(* accounted for, the ledger holds a token for each claim under way, but   *)
(* for the strays (Covered).  What the last report showed plus the claims   *)
(* under way is at most the pool, the tokens and the strays (Backed), and   *)
(* so is what a fetch under way has seen, with the tokens its report will   *)
(* keep (Seen).  Each claim whose ledger is gone has its own stray (Owed).  *)
(***************************************************************************)
EXTENDS Registry, TLAPS, FiniteSetTheorems

Source == [gen : 0..MaxGen, interval : {Default} \cup Intervals, nextDue : Nat,
           inFlight : BOOLEAN]

Entry == [known : BOOLEAN, from : 0..MaxGen, warm : 0..MaxWarm, cleared : Time,
          held : [Time -> 0..MaxWarm]]

FetchRec == [p : Providers, gen : 1..MaxGen, at : {"new", "out", "read", "done"},
             started : Time, saw : 0..MaxWarm]

ClaimRec == [at : {"idle", "loaded", "claiming"}, p : Providers, sec : Time, orphan : BOOLEAN]

-----------------------------------------------------------------------------
(* Sources and their fetches.                                              *)

\* Generations only grow, and an entry's report is not newer than its source.
Generations ==
    /\ \A p \in Providers :
          /\ sources[p].gen <= lastGen /\ entries[p].from <= lastGen
          /\ Registered(p) => entries[p].known /\ entries[p].from <= sources[p].gen
    /\ \A f \in fetches : f.gen <= lastGen

\* A source has one fetch for each time its slot is taken.
Fetching ==
    /\ \A f, g \in fetches : f.p = g.p /\ f.gen = g.gen => f = g
    /\ \A p \in Providers :
          sources[p].inFlight <=> Registered(p) /\ \E f \in fetches : f.p = p /\ Current(f)

-----------------------------------------------------------------------------
(* The balance of claims, tokens and pools.                                *)

ClaimsIn(p, W)  == {c \in Claiming(p) : caller[c].sec \in W}
TokensIn(h, W)  == {x \in Tokens(h) : x[1] \in W}
Landing(p)      == {c \in Claiming(p) : InTime(c)}

\* The seconds no report of p has accounted for, from k on.
Kept(p, k) == {t \in Time : t >= entries[p].cleared /\ t >= k}

Finite == \A p \in Providers : IsFiniteSet(Claiming(p))

\* Reports account for seconds whose claims can no longer land.
Past ==
    /\ \A p \in Providers : entries[p].cleared = 0 \/ entries[p].cleared + Grace <= clock
    /\ \A f \in fetches : f.started <= clock

\* What a provider has, and the reservations its ledger has lost.
Spare(p) == pool[p] + strays[p]

Covered ==
    \A p \in Providers : \A W \in SUBSET Kept(p, 0) :
        Cardinality(ClaimsIn(p, W))
            <= Cardinality(TokensIn(entries[p].held, W)) + strays[p]

Backed ==
    \A p \in Providers :
        entries[p].warm + Cardinality(ClaimsIn(p, Kept(p, 0)))
            <= Spare(p) + Cardinality(TokensIn(entries[p].held, Kept(p, 0)))

Seen ==
    \A f \in fetches : f.at = "read" /\ Current(f) =>
        f.saw + Cardinality(ClaimsIn(f.p, Kept(f.p, f.started - Grace)))
            <= Spare(f.p) + Cardinality(TokensIn(entries[f.p].held,
                                                 Kept(f.p, f.started - Grace)))

Owed == \A p \in Providers : Cardinality(Orphans(p)) <= strays[p]

IInv == /\ TypeOK /\ Generations /\ Fetching /\ NeverOversleeps
        /\ Finite /\ Past /\ Covered /\ Backed /\ Seen /\ Owed /\ NoOverplacement
-----------------------------------------------------------------------------
(* Types and bounds.                                                       *)

LEMMA MinOfTwo ==
    ASSUME NEW i \in Int, NEW j \in Int
    PROVE  Min({i, j}) = IF i <= j THEN i ELSE j
<1>1. \E x \in {i, j} : \A y \in {i, j} : x <= y
  <2>1. CASE i <= j BY <2>1
  <2>2. CASE j <= i BY <2>2
  <2> QED BY <2>1, <2>2
<1>2. Min({i, j}) \in {i, j} /\ \A y \in {i, j} : Min({i, j}) <= y
  BY <1>1, Zenon DEF Min
<1> QED BY <1>2

LEMMA MaxOfTwo ==
    ASSUME NEW i \in Int, NEW j \in Int
    PROVE  Max({i, j}) = IF i <= j THEN j ELSE i
<1>1. \E x \in {i, j} : \A y \in {i, j} : x >= y
  <2>1. CASE i <= j BY <2>1
  <2>2. CASE j <= i BY <2>2
  <2> QED BY <2>1, <2>2
<1>2. Max({i, j}) \in {i, j} /\ \A y \in {i, j} : Max({i, j}) >= y
  BY <1>1, Zenon DEF Max
<1> QED BY <1>2

\* Every set of numbers has a least.
LEMMA MinOfNat ==
    ASSUME NEW S \in SUBSET Nat, S # {}
    PROVE  Min(S) \in S /\ \A x \in S : Min(S) <= x
<1>1. PICK m \in S : \A k \in S : <<k, m>> \notin OpToRel(<, Nat)
  BY WFMin, NatLessThanWellFounded, Zenon
<1>2. m \in Nat /\ \A k \in S : ~(k < m)
  BY <1>1, Zenon DEF OpToRel
<1>3. \A k \in S : m <= k
  BY <1>2
<1> QED BY <1>1, <1>3, Zenon DEF Min

LEMMA Constants ==
    /\ MaxTime \in Nat /\ MaxGen \in Nat /\ Grace \in Nat /\ MaxWarm \in Nat
    /\ MaxStrays \in Nat
    /\ Default \in Nat \ {0} /\ MaxWait \in Nat /\ Intervals \subseteq Nat \ {0}
    /\ 0 \in Time /\ Time \subseteq Nat /\ Providers # {}
  BY RegistryAssumption DEF Time

\* TypeOK in parts that a step treats alike.
LEMMA Types ==
    TypeOK <=> /\ clock \in Time /\ sources \in [Providers -> Source]
               /\ lastGen \in 0..MaxGen /\ wake \in BOOLEAN /\ timerAt \in Nat
               /\ entries \in [Providers -> Entry] /\ fetches \subseteq FetchRec
               /\ caller \in [Callers -> ClaimRec] /\ pool \in [Providers -> 0..MaxWarm]
               /\ strays \in [Providers -> 0..MaxStrays]
  BY DEF TypeOK, Source, Entry, FetchRec, ClaimRec

LEMMA NoTypes == NoSource \in Source /\ NoEntry \in Entry /\ NoClaim \in ClaimRec
<1>1. (CHOOSE p \in Providers : TRUE) \in Providers
  BY Constants
<1> QED BY <1>1, Constants DEF NoSource, NoEntry, NoClaim, Source, Entry, ClaimRec

-----------------------------------------------------------------------------
(* Tokens.                                                                 *)

LEMMA TokensFinite ==
    ASSUME NEW h, NEW W
    PROVE  /\ IsFiniteSet(Tokens(h)) /\ Cardinality(Tokens(h)) \in Nat
           /\ IsFiniteSet(TokensIn(h, W)) /\ Cardinality(TokensIn(h, W)) \in Nat
           /\ Cardinality(TokensIn(h, W)) <= Cardinality(Tokens(h))
<1>1. IsFiniteSet(Time) /\ IsFiniteSet(1..MaxWarm)
  BY Constants, FS_Interval DEF Time
<1>2. IsFiniteSet(Time \X (1..MaxWarm))
  BY <1>1, FS_Product
<1>3. IsFiniteSet(Tokens(h))
  BY <1>2, FS_Subset DEF Tokens
<1>4. TokensIn(h, W) \in SUBSET Tokens(h)
  BY DEF TokensIn
<1> QED BY <1>3, <1>4, FS_Subset, FS_CardinalityType

\* A second's count is no more than the whole.
LEMMA CountBound ==
    ASSUME NEW h \in [Time -> 0..MaxWarm], NEW t \in Time
    PROVE  h[t] <= Cardinality(Tokens(h))
<1> DEFINE T == {t} \X (1..h[t])
<1>1. h[t] \in 0..MaxWarm /\ h[t] \in Nat
  BY Constants
<1>2. IsFiniteSet(1..h[t]) /\ Cardinality(1..h[t]) = h[t]
  BY <1>1, FS_Interval
<1>3. IsFiniteSet({t}) /\ Cardinality({t}) = 1
  BY FS_Singleton
<1>4. Cardinality(T) = 1 * h[t]
  BY <1>2, <1>3, FS_Product
<1>5. T \in SUBSET Tokens(h)
  BY <1>1, Constants DEF Tokens
<1> HIDE DEF T
<1>6. Cardinality(T) <= Cardinality(Tokens(h))
  BY <1>5, TokensFinite, FS_Subset
<1> QED BY <1>1, <1>4, <1>6

LEMMA AddToken ==
    ASSUME NEW h \in [Time -> 0..MaxWarm], NEW t \in Time, h[t] < MaxWarm, NEW W
    PROVE  Cardinality(TokensIn([h EXCEPT ![t] = @ + 1], W))
             = IF t \in W THEN Cardinality(TokensIn(h, W)) + 1
               ELSE Cardinality(TokensIn(h, W))
<1> DEFINE n == [h EXCEPT ![t] = @ + 1]
           x == <<t, h[t] + 1>>
<1>1. h[t] \in Nat /\ h[t] + 1 \in 1..MaxWarm
  BY Constants
<1>2. \A s \in Time, i \in 1..MaxWarm : i <= n[s] <=> i <= h[s] \/ (s = t /\ i = h[t] + 1)
  BY <1>1, Constants
<1>3. Tokens(n) = Tokens(h) \cup {x} /\ x \notin Tokens(h)
  BY <1>1, <1>2 DEF Tokens
<1> HIDE DEF n
<1>4. TokensIn(n, W) = IF t \in W THEN TokensIn(h, W) \cup {x} ELSE TokensIn(h, W)
  BY <1>3 DEF TokensIn
<1>5. x \notin TokensIn(h, W)
  BY <1>3 DEF TokensIn
<1>6. Cardinality(TokensIn(n, W)) = IF t \in W THEN Cardinality(TokensIn(h, W)) + 1
                                    ELSE Cardinality(TokensIn(h, W))
  BY <1>4, <1>5, TokensFinite, FS_AddElement
<1> QED BY <1>6 DEF n

LEMMA DropToken ==
    ASSUME NEW h \in [Time -> 0..MaxWarm], NEW t \in Time, h[t] > 0, NEW W
    PROVE  Cardinality(TokensIn([h EXCEPT ![t] = @ - 1], W))
             = IF t \in W THEN Cardinality(TokensIn(h, W)) - 1
               ELSE Cardinality(TokensIn(h, W))
<1> DEFINE n == [h EXCEPT ![t] = @ - 1]
           x == <<t, h[t]>>
<1>1. h[t] \in Nat /\ h[t] \in 1..MaxWarm
  BY Constants
<1>2. \A s \in Time, i \in 1..MaxWarm : i <= n[s] <=> i <= h[s] /\ ~(s = t /\ i = h[t])
  BY <1>1, Constants
<1>3. Tokens(n) = Tokens(h) \ {x} /\ x \in Tokens(h)
  BY <1>1, <1>2 DEF Tokens
<1> HIDE DEF n
<1>4. TokensIn(n, W) = IF t \in W THEN TokensIn(h, W) \ {x} ELSE TokensIn(h, W)
  BY <1>3 DEF TokensIn
<1>5. t \in W => x \in TokensIn(h, W)
  BY <1>3 DEF TokensIn
<1>6. Cardinality(TokensIn(n, W)) = IF t \in W THEN Cardinality(TokensIn(h, W)) - 1
                                    ELSE Cardinality(TokensIn(h, W))
  BY <1>4, <1>5, TokensFinite, FS_RemoveElement
<1> QED BY <1>6 DEF n

\* Seconds from the cutoff on keep their tokens.
LEMMA ClearedTokens ==
    ASSUME NEW h, NEW cutoff \in Int, NEW left \in Cleared(h, cutoff), NEW W,
           \A t \in W : t \in Time /\ t >= cutoff
    PROVE  TokensIn(left, W) = TokensIn(h, W)
<1>1. \A t \in W : left[t] = h[t]
  BY DEF Cleared
<1> QED BY <1>1 DEF TokensIn, Tokens
-----------------------------------------------------------------------------
(* Types of steps.                                                         *)

LEMMA Numbers ==
    ASSUME TypeOK, NEW p \in Providers
    PROVE  /\ clock \in Nat /\ clock \in Time /\ timerAt \in Nat /\ lastGen \in Nat
           /\ sources[p] \in Source /\ sources[p].gen \in Nat /\ sources[p].nextDue \in Nat
           /\ sources[p].interval \in Nat /\ sources[p].inFlight \in BOOLEAN
           /\ sources[p].gen \in 0..MaxGen
           /\ entries[p] \in Entry /\ entries[p].from \in Nat /\ entries[p].warm \in Nat
           /\ entries[p].warm <= MaxWarm /\ entries[p].cleared \in Time
           /\ entries[p].cleared \in Nat
           /\ entries[p].held \in [Time -> 0..MaxWarm] /\ pool[p] \in Nat
           /\ pool[p] \in 0..MaxWarm /\ strays[p] \in Nat /\ strays[p] \in 0..MaxStrays
           /\ Spare(p) \in Nat
<1>1. /\ clock \in Time /\ timerAt \in Nat /\ lastGen \in 0..MaxGen
      /\ sources[p] \in Source /\ entries[p] \in Entry /\ pool[p] \in 0..MaxWarm
      /\ strays[p] \in 0..MaxStrays
  BY Types
<1>2. /\ \A t \in Time : t \in Nat
      /\ MaxGen \in Nat /\ MaxWarm \in Nat /\ MaxStrays \in Nat /\ \A d \in {Default} \cup Intervals : d \in Nat
  BY Constants
<1>3. clock \in Nat /\ lastGen \in Nat /\ pool[p] \in Nat /\ strays[p] \in Nat
  BY <1>1, <1>2
<1>7. Spare(p) \in Nat
  BY <1>3 DEF Spare
<1>4. /\ sources[p].gen \in 0..MaxGen /\ sources[p].nextDue \in Nat
      /\ sources[p].interval \in {Default} \cup Intervals
      /\ sources[p].inFlight \in BOOLEAN
  BY <1>1 DEF Source
<1>5. /\ entries[p].from \in 0..MaxGen /\ entries[p].warm \in 0..MaxWarm
      /\ entries[p].cleared \in Time /\ entries[p].held \in [Time -> 0..MaxWarm]
  BY <1>1 DEF Entry
<1>6. /\ sources[p].gen \in Nat /\ sources[p].interval \in Nat
      /\ entries[p].from \in Nat /\ entries[p].warm \in Nat /\ entries[p].warm <= MaxWarm
      /\ entries[p].cleared \in Nat
  BY <1>2, <1>4, <1>5
<1> QED BY <1>1, <1>3, <1>4, <1>5, <1>6, <1>7

LEMMA FetchNumbers ==
    ASSUME TypeOK, NEW f \in fetches
    PROVE  /\ f \in FetchRec /\ f.p \in Providers /\ f.gen \in Nat /\ f.gen \in 1..MaxGen
           /\ f.gen >= 1
           /\ f.started \in Time /\ f.started \in Nat /\ f.saw \in 0..MaxWarm /\ f.saw \in Nat
<1>1. f \in FetchRec
  BY Types
<1>2. /\ f.p \in Providers /\ f.gen \in 1..MaxGen /\ f.started \in Time
      /\ f.saw \in 0..MaxWarm
  BY <1>1 DEF FetchRec
<1>3. (\A t \in Time : t \in Nat) /\ MaxGen \in Nat /\ MaxWarm \in Nat
  BY Constants
<1> QED BY <1>1, <1>2, <1>3

LEMMA CallerNumbers ==
    ASSUME TypeOK, NEW c \in Callers
    PROVE  /\ caller[c] \in ClaimRec /\ caller[c].p \in Providers
           /\ caller[c].sec \in Time /\ caller[c].sec \in Nat
  BY Types, Constants DEF ClaimRec

\* What a report leaves of an entry.
LEMMA ReportedIs ==
    ASSUME TypeOK, NEW p \in Providers, NEW warm \in 0..MaxWarm, NEW cutoff \in Int,
           cutoff <= clock, NEW left \in Cleared(entries[p].held, cutoff),
           NEW from \in 0..MaxGen
    PROVE  LET e == Reported(entries[p], left, warm, cutoff, from)
           IN  /\ e \in Entry /\ e.known /\ e.from = from /\ e.warm = warm
               /\ e.cleared = (IF entries[p].cleared <= cutoff THEN cutoff
                               ELSE entries[p].cleared)
               /\ e.held = left
<1> DEFINE m == Max({entries[p].cleared, cutoff})
           e == Reported(entries[p], left, warm, cutoff, from)
<1>1. entries[p] \in Entry /\ entries[p].cleared \in Nat /\ clock \in Time
      /\ entries[p].cleared \in Time
  BY Numbers
<1>2. m = IF entries[p].cleared <= cutoff THEN cutoff ELSE entries[p].cleared
  BY <1>1, MaxOfTwo
<1>3. m \in Time
  BY <1>1, <1>2, Constants DEF Time
<1>4. left \in [Time -> 0..MaxWarm]
  BY DEF Cleared
<1>5. e = [entries[p] EXCEPT !.known = TRUE, !.from = from, !.warm = warm,
                             !.cleared = m, !.held = left]
  BY DEF Reported
<1> HIDE DEF m, e
<1>6. e \in Entry /\ e.known /\ e.from = from /\ e.warm = warm /\ e.cleared = m
      /\ e.held = left
  BY <1>1, <1>3, <1>4, <1>5 DEF Entry
<1> QED BY <1>2, <1>6 DEF e, m

-----------------------------------------------------------------------------
(* Sources, fetches and Run's timer: one lemma for each action.            *)

Poll == TypeOK /\ Generations /\ Fetching /\ NeverOversleeps

\* Steps that touch neither sources, fetches nor Run.
LEMMA PollFrame ==
    ASSUME Poll, UNCHANGED <<schedule, fetches>>, clock' >= clock,
           clock' \in Time, caller' \in [Callers -> ClaimRec],
           pool' \in [Providers -> 0..MaxWarm], strays' \in [Providers -> 0..MaxStrays],
           entries' \in [Providers -> Entry],
           \A p \in Providers :
              /\ entries'[p].from <= lastGen
              /\ Registered(p) => entries'[p].known /\ entries'[p].from <= sources[p].gen
    PROVE  Poll'
<1> USE DEF Poll
<1>1. TypeOK'
  BY Types DEF TypeOK, Source, Entry, FetchRec, ClaimRec, schedule
<1>2. Generations'
  BY DEF Generations, schedule, Registered
<1>3. Fetching'
  BY DEF Fetching, schedule, Registered, Current
<1>4. NeverOversleeps'
  <2> SUFFICES ASSUME NEW p \in Providers, Free(p), ~wake
               PROVE  timerAt <= Max({clock', sources[p].nextDue})
    BY DEF NeverOversleeps, schedule, Free, Registered
  <2>1. timerAt <= Max({clock, sources[p].nextDue})
    BY DEF NeverOversleeps
  <2>2. clock \in Int /\ clock' \in Int /\ sources[p].nextDue \in Int /\ timerAt \in Int
    BY Numbers, Constants
  <2>3. Max({clock, sources[p].nextDue})
          = IF clock <= sources[p].nextDue THEN sources[p].nextDue ELSE clock
    BY <2>2, MaxOfTwo
  <2>4. Max({clock', sources[p].nextDue})
          = IF clock' <= sources[p].nextDue THEN sources[p].nextDue ELSE clock'
    BY <2>2, MaxOfTwo
  <2> QED BY <2>1, <2>2, <2>3, <2>4
<1> QED BY <1>1, <1>2, <1>3, <1>4

LEMMA AddSourcePoll ==
    ASSUME Poll, NEW p \in Providers, AddSource(p)
    PROVE  Poll'
<1> USE DEF Poll
<1> DEFINE x == [sources[p] EXCEPT !.gen = lastGen + 1, !.nextDue = 0, !.inFlight = FALSE]
           e == [entries[p] EXCEPT !.known = TRUE]
<1>1. lastGen + 1 \in 0..MaxGen /\ lastGen \in Nat
  BY Types, Constants DEF AddSource
<1>2. x \in Source /\ x.gen = lastGen + 1 /\ x.inFlight = FALSE
  BY <1>1, Numbers DEF Source
<1>3. e \in Entry /\ e.known /\ e.from = entries[p].from
  BY Numbers DEF Entry
<1>4. sources' = [sources EXCEPT ![p] = x] /\ entries' = [entries EXCEPT ![p] = e]
  <2>1. sources' = [sources EXCEPT ![p].gen = lastGen + 1, ![p].nextDue = 0,
                                   ![p].inFlight = FALSE]
    BY DEF AddSource, Replaced
  <2>2. entries' = [entries EXCEPT ![p].known = TRUE]
    BY DEF AddSource, Known
  <2> QED BY <2>1, <2>2, Types DEF Source, Entry
<1>5. /\ lastGen' = lastGen + 1 /\ wake' = TRUE
      /\ UNCHANGED <<timerAt, fetches, caller, clock, pool, strays>>
  BY DEF AddSource, world
<1> HIDE DEF x, e
<1>6. /\ sources' \in [Providers -> Source] /\ sources'[p] = x
      /\ entries' \in [Providers -> Entry] /\ entries'[p] = e
      /\ \A q \in Providers : q # p => sources'[q] = sources[q] /\ entries'[q] = entries[q]
  BY <1>2, <1>3, <1>4, Types
<1>7. TypeOK'
  BY <1>1, <1>5, <1>6, Types DEF TypeOK, Source, Entry, FetchRec, ClaimRec
<1>8. Generations'
  <2>1. \A q \in Providers : entries[q].from \in Nat /\ sources[q].gen \in Nat
    BY Numbers
  <2>2. \A f \in fetches : f.gen \in Nat
    BY FetchNumbers
  <2> QED BY <2>1, <2>2, <1>1, <1>2, <1>3, <1>5, <1>6 DEF Generations, Registered
<1>9. Fetching'
  <2>1. \A f \in fetches : f.gen # lastGen + 1
    BY <1>1, FetchNumbers DEF Generations
  <2> QED BY <2>1, <1>2, <1>5, <1>6 DEF Fetching, Registered, Current
<1>10. NeverOversleeps'
  BY <1>5 DEF NeverOversleeps
<1> QED BY <1>7, <1>8, <1>9, <1>10

\* The reservations a removal loses.
LEMMA RemovalCounts ==
    ASSUME TypeOK, Finite, NEW p \in Providers, RemoveSource(p)
    PROVE  /\ strays' \in [Providers -> 0..MaxStrays]
           /\ Cardinality(Claiming(p)) <= Cardinality(Orphans(p)) + strays'[p] - strays[p]
           /\ strays'[p] >= strays[p]
           /\ \A q \in Providers : q # p => strays'[q] = strays[q]
<1> DEFINE N == Cardinality(Claiming(p) \ Orphans(p))
<1>1. strays' = [strays EXCEPT ![p] = strays[p] + N] /\ strays[p] + N <= MaxStrays
  BY DEF RemoveSource
<1>2. IsFiniteSet(Claiming(p)) /\ Orphans(p) \in SUBSET Claiming(p)
  BY DEF Finite, Orphans
<1>3. IsFiniteSet(Orphans(p)) /\ IsFiniteSet(Claiming(p) \ Orphans(p))
  BY <1>2, FS_Subset
<1>4. /\ N \in Nat /\ Cardinality(Orphans(p)) \in Nat
      /\ Cardinality(Claiming(p)) = Cardinality(Orphans(p)) + N
  <2>1. Claiming(p) = Orphans(p) \cup (Claiming(p) \ Orphans(p))
        /\ Orphans(p) \cap (Claiming(p) \ Orphans(p)) = {}
    BY <1>2
  <2>2. Cardinality(Orphans(p) \cup (Claiming(p) \ Orphans(p)))
          = Cardinality(Orphans(p)) + N - Cardinality(Orphans(p) \cap (Claiming(p) \ Orphans(p)))
    BY <1>3, FS_Union
  <2>3. Cardinality({}) = 0
    BY FS_EmptySet
  <2>4. N \in Nat /\ Cardinality(Orphans(p)) \in Nat
    BY <1>3, FS_CardinalityType
  <2> HIDE DEF N
  <2>5. Cardinality(Claiming(p)) = Cardinality(Orphans(p) \cup (Claiming(p) \ Orphans(p)))
        /\ Cardinality(Orphans(p) \cap (Claiming(p) \ Orphans(p))) = 0
    BY <2>1, <2>3
  <2> QED BY <2>2, <2>4, <2>5
<1> HIDE DEF N
<1>5. strays[p] \in Nat /\ strays[p] + N \in 0..MaxStrays
  BY <1>1, <1>4, Numbers, Constants
<1>6. strays'[p] = strays[p] + N /\ \A q \in Providers : q # p => strays'[q] = strays[q]
  BY <1>1, Types
<1> QED BY <1>1, <1>4, <1>5, <1>6, Types

LEMMA RemoveSourcePoll ==
    ASSUME Poll, Finite, NEW p \in Providers, RemoveSource(p)
    PROVE  Poll'
<1> USE DEF Poll
<1>1. /\ sources' = [sources EXCEPT ![p] = NoSource]
      /\ entries' = [entries EXCEPT ![p] = NoEntry]
      /\ UNCHANGED <<lastGen, wake, timerAt, fetches, clock, pool>>
  BY DEF RemoveSource, world
<1>2. NoSource.gen = 0 /\ NoSource.inFlight = FALSE /\ NoEntry.from = 0
  BY DEF NoSource, NoEntry
<1>3. /\ sources' \in [Providers -> Source] /\ sources'[p] = NoSource
      /\ entries' \in [Providers -> Entry] /\ entries'[p] = NoEntry
      /\ \A q \in Providers : q # p => sources'[q] = sources[q] /\ entries'[q] = entries[q]
  BY <1>1, NoTypes, Types
<1>4. caller' \in [Callers -> ClaimRec]
  <2>1. caller' = [c \in Callers |-> [caller[c] EXCEPT
                     !.orphan = @ \/ c \in Claiming(p) \cup Loaded(p)]]
    BY DEF RemoveSource
  <2>2. \A c \in Callers :
          [caller[c] EXCEPT !.orphan = @ \/ c \in Claiming(p) \cup Loaded(p)]
             \in ClaimRec
    BY CallerNumbers DEF ClaimRec
  <2> QED BY <2>1, <2>2
<1>5. strays' \in [Providers -> 0..MaxStrays]
  BY RemovalCounts
<1>6. TypeOK'
  BY <1>1, <1>3, <1>4, <1>5, Types DEF TypeOK, Source, Entry, FetchRec, ClaimRec
<1>7. Generations'
  BY <1>1, <1>2, <1>3, Numbers DEF Generations, Registered
<1>8. Fetching'
  BY <1>1, <1>2, <1>3 DEF Fetching, Registered, Current
<1>9. NeverOversleeps'
  BY <1>1, <1>2, <1>3 DEF NeverOversleeps, Free, Registered
<1> QED BY <1>6, <1>7, <1>8, <1>9

LEMMA SetRefreshIntervalPoll ==
    ASSUME Poll, NEW p \in Providers, NEW d \in Intervals, SetRefreshInterval(p, d)
    PROVE  Poll'
<1> USE DEF Poll
<1> DEFINE m == Min({sources[p].nextDue, clock + d})
           x == [sources[p] EXCEPT !.interval = d, !.nextDue = m]
<1>1. d \in Nat /\ clock + d \in Nat /\ sources[p].nextDue \in Nat
  <2>1. d \in Nat
    BY Constants
  <2>2. clock \in Nat /\ sources[p].nextDue \in Nat
    BY Numbers
  <2> QED BY <2>1, <2>2
<1>2. m \in Nat
  BY <1>1, MinOfTwo
<1> HIDE DEF m
<1>3. x \in Source /\ x.gen = sources[p].gen /\ x.inFlight = sources[p].inFlight
  BY <1>2, Numbers DEF Source
<1>4. /\ sources' = [sources EXCEPT ![p] = x] /\ wake' = TRUE
      /\ UNCHANGED <<lastGen, timerAt, entries, fetches, caller, clock, pool, strays>>
  <2>1. sources' = [sources EXCEPT ![p].interval = d, ![p].nextDue = m]
    BY DEF SetRefreshInterval, m
  <2> QED BY <2>1, Types DEF Source, SetRefreshInterval, world
<1> HIDE DEF x
<1>5. /\ sources' \in [Providers -> Source] /\ sources'[p] = x
      /\ \A q \in Providers : q # p => sources'[q] = sources[q]
  BY <1>3, <1>4, Types
<1>6. TypeOK'
  BY <1>4, <1>5, Types DEF TypeOK, Source, Entry, FetchRec, ClaimRec
<1>7. Generations'
  BY <1>3, <1>4, <1>5 DEF Generations, Registered
<1>8. Fetching'
  BY <1>3, <1>4, <1>5 DEF Fetching, Registered, Current
<1>9. NeverOversleeps'
  BY <1>4 DEF NeverOversleeps
<1> QED BY <1>6, <1>7, <1>8, <1>9
\* Run's timer is set by the earliest source that is free.
LEMMA PollDuePoll ==
    ASSUME Poll, PollDue
    PROVE  Poll'
<1> USE DEF Poll
<1> DEFINE next(p) == IF p \in Due THEN clock + sources[p].interval
                                   ELSE sources[p].nextDue
           new(p)  == [p |-> p, gen |-> sources[p].gen, at |-> "new", started |-> 0,
                       saw |-> 0]
           N == {clock + MaxWait} \cup {next(p) : p \in {q \in Providers : Free(q)}}
<1>1. /\ sources' = [p \in Providers |->
             IF p \in Due THEN [sources[p] EXCEPT !.inFlight = TRUE, !.nextDue = next(p)]
                          ELSE sources[p]]
      /\ fetches' = fetches \cup {new(p) : p \in Due}
      /\ timerAt' = Min(N) /\ wake' \in BOOLEAN
      /\ UNCHANGED <<lastGen, entries, caller, clock, pool, strays>>
  BY Types DEF PollDue, world
<1>2. \A p \in Providers : next(p) \in Nat
  BY Numbers
<1>3. \A p \in Due : p \in Providers /\ Registered(p) /\ ~sources[p].inFlight
  BY DEF Due, Free
<1>4. \A p \in Providers :
        /\ sources'[p] \in Source /\ sources'[p].gen = sources[p].gen
        /\ sources'[p].inFlight = (p \in Due \/ sources[p].inFlight)
        /\ p \notin Due => sources'[p] = sources[p]
  <2> TAKE p \in Providers
  <2>1. sources[p] \in Source /\ next(p) \in Nat
    BY <1>2, Numbers
  <2> HIDE DEF next
  <2>2. CASE p \in Due
    BY <1>1, <2>1, <2>2 DEF Source
  <2>3. CASE p \notin Due
    BY <1>1, <2>1, <2>3 DEF Source
  <2> QED BY <2>2, <2>3
<1>5. \A p \in Due :
        /\ new(p) \in FetchRec /\ new(p).p = p /\ new(p).gen = sources[p].gen
        /\ new(p).started = 0 /\ new(p).at = "new"
  <2> TAKE p \in Due
  <2>1. sources[p].gen \in 0..MaxGen /\ sources[p].gen # 0
    BY <1>3, Numbers DEF Registered
  <2>2. sources[p].gen \in 1..MaxGen /\ 0 \in Time /\ 0 \in 0..MaxWarm
    BY <2>1, Constants
  <2> QED BY <2>2, <1>3 DEF FetchRec
<1>12. /\ fetches \subseteq fetches' /\ \A p \in Due : new(p) \in fetches'
       /\ \A f \in fetches' : f \in fetches \/ \E p \in Due : f = new(p)
  BY <1>1
<1>6. N \in SUBSET Nat /\ N # {}
  BY <1>2, Numbers, Constants
<1>7. timerAt' \in Nat /\ \A p \in Providers : Free(p) => timerAt' <= next(p)
  <2>1. timerAt' \in N /\ \A x \in N : timerAt' <= x
    BY <1>1, <1>6, MinOfNat
  <2>2. \A p \in Providers : Free(p) => next(p) \in N
    OBVIOUS
  <2> HIDE DEF next, N
  <2> QED BY <2>1, <2>2, <1>6
<1>8. TypeOK'
  <2>1. sources' \in [Providers -> Source]
    BY <1>1, <1>4
  <2>2. fetches' \subseteq FetchRec
    BY <1>1, <1>5, Types
  <2> HIDE DEF next, new, N
  <2> QED BY <2>1, <2>2, <1>1, <1>7, Types DEF TypeOK, Source, Entry, FetchRec, ClaimRec
<1>9. Generations'
  <2> HIDE DEF new, N, next
  <2>1. \A p \in Providers : sources'[p].gen = sources[p].gen
    BY <1>4
  <2>2. \A f \in fetches' : f.gen <= lastGen
    BY <1>3, <1>5, <1>12 DEF Generations
  <2> QED BY <2>1, <2>2, <1>1 DEF Generations, Registered
<1>10. Fetching'
  <2> HIDE DEF new, N, next
  <2>1. ASSUME NEW f \in fetches', NEW g \in fetches', f.p = g.p, f.gen = g.gen
        PROVE  f = g
    <3>1. \A p \in Due, h \in fetches : ~(h.p = p /\ h.gen = sources[p].gen)
      BY <1>3 DEF Fetching, Current
    <3>2. CASE f \in fetches /\ g \in fetches
      BY <3>2, <2>1 DEF Fetching
    <3>3. CASE f \in fetches /\ g \notin fetches
      BY <3>3, <2>1, <1>5, <1>12, <3>1
    <3>4. CASE f \notin fetches /\ g \in fetches
      BY <3>4, <2>1, <1>5, <1>12, <3>1
    <3>5. CASE f \notin fetches /\ g \notin fetches
      BY <3>5, <2>1, <1>5, <1>12
    <3> QED BY <3>2, <3>3, <3>4, <3>5
  <2>2. ASSUME NEW p \in Providers
        PROVE  sources'[p].inFlight <=>
                 sources'[p].gen # 0 /\ \E f \in fetches' : f.p = p /\ sources'[f.p].gen = f.gen
    <3>1. CASE p \in Due
      <4>1. sources'[p].inFlight /\ sources'[p].gen # 0
        BY <3>1, <1>3, <1>4 DEF Registered
      <4>2. new(p) \in fetches' /\ new(p).p = p /\ sources'[new(p).p].gen = new(p).gen
        BY <3>1, <1>3, <1>4, <1>5, <1>12
      <4> QED BY <4>1, <4>2
    <3>2. CASE p \notin Due
      <4>1. (\E f \in fetches' : f.p = p /\ sources'[f.p].gen = f.gen)
              <=> (\E f \in fetches : f.p = p /\ sources[f.p].gen = f.gen)
        <5>1. \A f \in fetches' : f.p = p => f \in fetches
          BY <3>2, <1>5, <1>12
        <5> QED BY <5>1, <1>4, <1>12
      <4> QED BY <3>2, <4>1, <1>4 DEF Fetching, Registered, Current
    <3> QED BY <3>1, <3>2
  <2> QED BY <2>1, <2>2 DEF Fetching, Registered, Current
<1>11. NeverOversleeps'
  <2> SUFFICES ASSUME NEW p \in Providers, sources'[p].gen # 0, ~sources'[p].inFlight
               PROVE  timerAt' <= Max({clock, sources'[p].nextDue})
    BY <1>1 DEF NeverOversleeps, Free, Registered
  <2>1. p \notin Due /\ Free(p) /\ sources'[p] = sources[p]
    BY <1>4 DEF Free, Registered
  <2>2. timerAt' <= sources[p].nextDue /\ timerAt' \in Nat
    BY <1>7, <2>1
  <2>3. clock \in Int /\ sources[p].nextDue \in Int
    BY Numbers
  <2>4. Max({clock, sources[p].nextDue})
          = IF clock <= sources[p].nextDue THEN sources[p].nextDue ELSE clock
    BY <2>3, MaxOfTwo
  <2> QED BY <2>1, <2>2, <2>3, <2>4
<1> QED BY <1>8, <1>9, <1>10, <1>11

\* A fetch goes on: it stays the one of its source.
LEMMA MovedPoll ==
    ASSUME Poll, NEW f \in fetches, NEW g \in FetchRec, Moved(f, g),
           g.p = f.p, g.gen = f.gen, UNCHANGED <<schedule, clock, caller, pool, strays>>,
           entries' \in [Providers -> Entry],
           \A p \in Providers :
              /\ entries'[p].from <= lastGen
              /\ Registered(p) => entries'[p].known /\ entries'[p].from <= sources[p].gen
    PROVE  Poll'
<1> USE DEF Poll
<1>1. fetches' = (fetches \ {f}) \cup {g} /\ UNCHANGED <<sources, lastGen, wake, timerAt>>
  BY DEF Moved, schedule
<1>2. TypeOK'
  BY <1>1, Types DEF TypeOK, Source, Entry, FetchRec, ClaimRec
<1>3. Generations'
  BY <1>1 DEF Generations, Registered
<1>4. Fetching'
  <2>1. \A x, y \in fetches' : x.p = y.p /\ x.gen = y.gen => x = y
    BY <1>1 DEF Fetching
  <2>2. \A p \in Providers : (\E x \in fetches' : x.p = p /\ sources[x.p].gen = x.gen)
                              <=> (\E x \in fetches : x.p = p /\ sources[x.p].gen = x.gen)
    BY <1>1
  <2> QED BY <2>1, <2>2, <1>1 DEF Fetching, Registered, Current
<1>5. NeverOversleeps'
  BY <1>1 DEF NeverOversleeps, Free, Registered
<1> QED BY <1>2, <1>3, <1>4, <1>5

LEMMA FinishPoll ==
    ASSUME Poll, NEW f \in fetches, Finish(f)
    PROVE  Poll'
<1> USE DEF Poll
<1>1. /\ fetches' = fetches \ {f} /\ wake' = TRUE
      /\ UNCHANGED <<lastGen, timerAt, entries, caller, clock, pool, strays>>
  BY DEF Finish, world
<1>2. \A p \in Providers :
        /\ sources'[p] \in Source /\ sources'[p].gen = sources[p].gen
        /\ sources'[p].inFlight = (sources[p].inFlight /\ ~(Current(f) /\ p = f.p))
  <2> TAKE p \in Providers
  <2>1. sources[p] \in Source /\ sources[f.p] \in Source
    BY Numbers, FetchNumbers
  <2>2. CASE Current(f)
    BY <2>1, <2>2, Types DEF Finish, Source
  <2>3. CASE ~Current(f)
    BY <2>1, <2>3 DEF Finish, Source
  <2> QED BY <2>2, <2>3
<1>3. sources' \in [Providers -> Source]
  <2>1. sources' = [p \in Providers |-> sources'[p]]
    BY Types DEF Finish
  <2> QED BY <2>1, <1>2
<1>4. TypeOK'
  BY <1>1, <1>3, Types DEF TypeOK, Source, Entry, FetchRec, ClaimRec
<1>5. Generations'
  BY <1>1, <1>2 DEF Generations, Registered
<1>6. Fetching'
  <2>1. ASSUME NEW p \in Providers
        PROVE  sources'[p].inFlight <=>
                 sources'[p].gen # 0 /\ \E x \in fetches' : x.p = p /\ sources'[x.p].gen = x.gen
    <3>1. \A x \in fetches : x.p \in Providers
      BY FetchNumbers
    <3>2. CASE Current(f) /\ p = f.p
      <4>1. \A x \in fetches : x.p = p /\ sources[x.p].gen = x.gen => x = f
        <5>1. f.p = p /\ f.gen = sources[p].gen
          BY <3>2 DEF Current
        <5>2. \A x, y \in fetches : x.p = y.p /\ x.gen = y.gen => x = y
          BY DEF Fetching
        <5> QED BY <5>1, <5>2
      <4>2. ~sources'[p].inFlight
        BY <3>2, <1>2
      <4>3. \A x \in fetches' : x \in fetches /\ x # f
        BY <1>1
      <4>4. sources'[p].gen = sources[p].gen
        BY <1>2
      <4> QED BY <4>1, <4>2, <4>3, <4>4
    <3>3. CASE ~(Current(f) /\ p = f.p)
      <4>1. (\E x \in fetches' : x.p = p /\ sources'[x.p].gen = x.gen)
              <=> (\E x \in fetches : x.p = p /\ sources[x.p].gen = x.gen)
        BY <3>1, <3>3, <1>1, <1>2 DEF Current
      <4>2. sources'[p].inFlight = sources[p].inFlight /\ sources'[p].gen = sources[p].gen
        <5>1. sources[p].inFlight \in BOOLEAN
          BY Numbers
        <5> QED BY <5>1, <3>3, <1>2
      <4> QED BY <4>1, <4>2 DEF Fetching, Registered, Current
    <3> QED BY <3>2, <3>3
  <2> QED BY <2>1, <1>1 DEF Fetching, Registered, Current
<1>7. NeverOversleeps'
  BY <1>1 DEF NeverOversleeps
<1> QED BY <1>4, <1>5, <1>6, <1>7
-----------------------------------------------------------------------------
(* The balance.                                                            *)

Balance == Finite /\ Past /\ Covered /\ Backed /\ Seen /\ Owed /\ NoOverplacement

LEMMA ClaimsFinite ==
    ASSUME Finite, NEW p \in Providers, NEW W
    PROVE  /\ IsFiniteSet(ClaimsIn(p, W)) /\ Cardinality(ClaimsIn(p, W)) \in Nat
           /\ IsFiniteSet(Landing(p)) /\ Cardinality(Landing(p)) \in Nat
           /\ IsFiniteSet(Orphans(p)) /\ Cardinality(Orphans(p)) \in Nat
<1>1. /\ ClaimsIn(p, W) \in SUBSET Claiming(p) /\ Landing(p) \in SUBSET Claiming(p)
      /\ Orphans(p) \in SUBSET Claiming(p)
  BY DEF ClaimsIn, Landing, Orphans
<1> QED BY <1>1, FS_Subset, FS_CardinalityType DEF Finite

LEMMA LandingIs == NoOverplacement <=> \A p \in Providers :
                                          Cardinality(Landing(p)) <= Spare(p)
  BY DEF NoOverplacement, Landing, Spare

\* Every second no report has accounted for.
LEMMA KeptIs ==
    ASSUME NEW p \in Providers, NEW k
    PROVE  Kept(p, k) \in SUBSET Time /\ Kept(p, k) = {t \in Kept(p, 0) : t >= k}
<1>1. \A t \in Time : t \in Nat
  BY Constants
<1>2. \A t \in Nat : t >= 0
  OBVIOUS
<1> QED BY <1>1, <1>2, Zenon DEF Kept

\* Claims, tokens and strays may change places, as long as no set of seconds that no
\* report has accounted for loses more tokens than claims, but for new strays.
LEMMA Exchange ==
    ASSUME TypeOK, TypeOK', Balance, Finite',
           UNCHANGED <<sources, fetches, clock, pool>>,
           \A q \in Providers : /\ entries'[q].warm = entries[q].warm
                                /\ entries'[q].cleared = entries[q].cleared,
           \A q \in Providers : \A K \in SUBSET Kept(q, 0) :
              Cardinality(ClaimsIn(q, K)') + Cardinality(TokensIn(entries[q].held, K))
                  + strays[q]
                <= Cardinality(ClaimsIn(q, K)) + Cardinality(TokensIn(entries'[q].held, K))
                  + strays'[q]
    PROVE  Past' /\ Covered' /\ Backed' /\ Seen'
<1> USE DEF Balance
<1>1. \A q \in Providers : \A k : Kept(q, k)' = Kept(q, k)
  BY DEF Kept
<1>2. Past'
  BY DEF Past
<1>3. ASSUME NEW q \in Providers, NEW K
      PROVE  /\ Cardinality(ClaimsIn(q, K)) \in Nat /\ Cardinality(ClaimsIn(q, K)') \in Nat
             /\ Cardinality(TokensIn(entries[q].held, K)) \in Nat
             /\ Cardinality(TokensIn(entries'[q].held, K)) \in Nat
             /\ strays[q] \in Nat /\ strays'[q] \in Nat /\ pool[q] \in Nat
             /\ Spare(q) = pool[q] + strays[q] /\ Spare(q)' = pool[q] + strays'[q]
  <2>1. Cardinality(ClaimsIn(q, K)) \in Nat
    BY ClaimsFinite
  <2>2. Cardinality(ClaimsIn(q, K)') \in Nat
    <3>1. ClaimsIn(q, K)' \in SUBSET Claiming(q)' /\ IsFiniteSet(Claiming(q)')
      BY DEF ClaimsIn, Finite
    <3> QED BY <3>1, FS_Subset, FS_CardinalityType
  <2>3. strays[q] \in 0..MaxStrays /\ strays'[q] \in 0..MaxStrays /\ pool[q] \in Nat
    BY Numbers, Types DEF TypeOK
  <2>4. strays[q] \in Nat /\ strays'[q] \in Nat
    BY <2>3, Constants
  <2> QED BY <2>1, <2>2, <2>3, <2>4, TokensFinite DEF Spare
<1>4. ASSUME NEW q \in Providers, NEW K \in SUBSET Kept(q, 0), NEW a \in Nat,
             a + Cardinality(ClaimsIn(q, K))
               <= Spare(q) + Cardinality(TokensIn(entries[q].held, K))
      PROVE  a + Cardinality(ClaimsIn(q, K)')
               <= Spare(q)' + Cardinality(TokensIn(entries'[q].held, K))
  <2>1. Cardinality(ClaimsIn(q, K)') + Cardinality(TokensIn(entries[q].held, K)) + strays[q]
          <= Cardinality(ClaimsIn(q, K)) + Cardinality(TokensIn(entries'[q].held, K))
             + strays'[q]
    OBVIOUS
  <2> QED BY <2>1, <1>3, <1>4
<1>5. Covered'
  <2> SUFFICES ASSUME NEW q \in Providers, NEW K \in SUBSET Kept(q, 0)
               PROVE  Cardinality(ClaimsIn(q, K)')
                        <= Cardinality(TokensIn(entries'[q].held, K)) + strays'[q]
    BY <1>1 DEF Covered
  <2>1. Cardinality(ClaimsIn(q, K))
          <= Cardinality(TokensIn(entries[q].held, K)) + strays[q]
    BY DEF Covered
  <2>2. Cardinality(ClaimsIn(q, K)') + Cardinality(TokensIn(entries[q].held, K)) + strays[q]
          <= Cardinality(ClaimsIn(q, K)) + Cardinality(TokensIn(entries'[q].held, K))
             + strays'[q]
    OBVIOUS
  <2> QED BY <2>1, <2>2, <1>3
<1>6. Backed'
  <2> SUFFICES ASSUME NEW q \in Providers
               PROVE  entries[q].warm + Cardinality(ClaimsIn(q, Kept(q, 0))')
                        <= Spare(q)' + Cardinality(TokensIn(entries'[q].held, Kept(q, 0)))
    BY <1>1 DEF Backed
  <2>1. PICK K : K = Kept(q, 0) /\ K = Kept(q, 0)'
    BY <1>1
  <2>2. entries[q].warm \in Nat
    BY Numbers
  <2>3. entries[q].warm + Cardinality(ClaimsIn(q, K))
          <= Spare(q) + Cardinality(TokensIn(entries[q].held, K))
    BY <2>1 DEF Backed
  <2>4. K \in SUBSET Kept(q, 0)
    BY <2>1
  <2>5. entries[q].warm + Cardinality(ClaimsIn(q, K)')
          <= Spare(q)' + Cardinality(TokensIn(entries'[q].held, K))
    BY <2>2, <2>3, <2>4, <1>4
  <2> QED BY <2>1, <2>5
<1>7. Seen'
  <2>1. ASSUME NEW f \in fetches, f.at = "read", Current(f)
        PROVE  f.saw + Cardinality(ClaimsIn(f.p, Kept(f.p, f.started - Grace))')
                 <= Spare(f.p)' + Cardinality(TokensIn(entries'[f.p].held,
                                                       Kept(f.p, f.started - Grace)))
    <3>1. f.p \in Providers /\ f.saw \in Nat
      BY FetchNumbers
    <3>2. PICK K : K = Kept(f.p, f.started - Grace) /\ K = Kept(f.p, f.started - Grace)'
      BY <3>1, <1>1
    <3>3. K \in SUBSET Kept(f.p, 0)
      BY <3>1, <3>2, KeptIs
    <3>4. f.saw + Cardinality(ClaimsIn(f.p, K))
            <= Spare(f.p) + Cardinality(TokensIn(entries[f.p].held, K))
      BY <3>2, <2>1 DEF Seen
    <3>5. f.saw + Cardinality(ClaimsIn(f.p, K)')
            <= Spare(f.p)' + Cardinality(TokensIn(entries'[f.p].held, K))
      BY <3>1, <3>3, <3>4, <1>4
    <3> QED BY <3>2, <3>5
  <2> QED BY <2>1, <1>1, FetchNumbers DEF Seen, Current
<1> QED BY <1>2, <1>5, <1>6, <1>7

\* Steps that change no claim, no count and no pool, and bring no answer.
LEMMA BalanceFrame ==
    ASSUME TypeOK, Balance, UNCHANGED <<clock, caller, pool, strays>>,
           \A p \in Providers : /\ entries'[p].held = entries[p].held
                                /\ entries'[p].cleared = entries[p].cleared
                                /\ entries'[p].warm = entries[p].warm,
           \A f \in fetches' : /\ f.p \in Providers /\ f.started <= clock
                               /\ f.at = "read" /\ Current(f)' => f \in fetches /\ Current(f)
    PROVE  Balance'
<1> USE DEF Balance
<1>1. \A p \in Providers : /\ Claiming(p)' = Claiming(p) /\ Landing(p)' = Landing(p)
                           /\ Orphans(p)' = Orphans(p) /\ Spare(p)' = Spare(p)
  BY DEF Claiming, Landing, InTime, Orphans, Spare
<1>2. \A p \in Providers, k \in Int : Kept(p, k)' = Kept(p, k)
  BY DEF Kept
<1>3. \A p \in Providers : \A W : ClaimsIn(p, W)' = ClaimsIn(p, W)
  BY DEF Claiming, ClaimsIn
<1>4. Finite' /\ NoOverplacement' /\ Owed'
  BY <1>1, LandingIs DEF Finite, NoOverplacement, Landing, Owed
<1>5. Past'
  BY DEF Past
<1>6. Covered'
  BY <1>2, <1>3 DEF Covered
<1>7. Backed'
  BY <1>1, <1>2, <1>3 DEF Backed
<1>8. Seen'
  BY <1>1, <1>2, <1>3, FetchNumbers, Constants DEF Seen
<1> QED BY <1>4, <1>5, <1>6, <1>7, <1>8

\* A report of what a poll saw, when that balances with the tokens it keeps.
LEMMA ReportBalance ==
    ASSUME TypeOK, Balance, NEW p \in Providers, NEW warm \in 0..MaxWarm,
           NEW cutoff \in Int, cutoff + Grace <= clock, NEW from \in 0..MaxGen,
           NEW left \in Cleared(entries[p].held, cutoff),
           entries' = [entries EXCEPT ![p] = Reported(entries[p], left, warm, cutoff, from)],
           UNCHANGED <<clock, caller, pool, strays>>,
           warm + Cardinality(ClaimsIn(p, Kept(p, cutoff)))
             <= Spare(p) + Cardinality(TokensIn(entries[p].held, Kept(p, cutoff))),
           \A f \in fetches' : /\ f.p \in Providers /\ f.started <= clock
                               /\ f.at = "read" /\ Current(f)' =>
                                     f \in fetches /\ Current(f) /\ f.p # p
    PROVE  Balance'
<1> USE DEF Balance
<1> DEFINE e == Reported(entries[p], left, warm, cutoff, from)
<1>1. clock \in Nat /\ Grace \in Nat /\ cutoff <= clock
  BY Numbers, Constants
<1>2. /\ e.warm = warm /\ e.held = left
      /\ e.cleared = IF entries[p].cleared <= cutoff THEN cutoff ELSE entries[p].cleared
  BY <1>1, ReportedIs
<1> HIDE DEF e
<1>3. entries'[p] = e /\ \A q \in Providers : q # p => entries'[q] = entries[q]
  BY Types DEF e
<1>4. \A q \in Providers : /\ Claiming(q)' = Claiming(q) /\ Landing(q)' = Landing(q)
                           /\ Orphans(q)' = Orphans(q) /\ Spare(q)' = Spare(q)
  BY DEF Claiming, Landing, InTime, Orphans, Spare
<1>5. \A q \in Providers : \A W : ClaimsIn(q, W)' = ClaimsIn(q, W)
  BY DEF Claiming, ClaimsIn
<1>6. \A q \in Providers : \A k : q # p => Kept(q, k)' = Kept(q, k)
  BY <1>3 DEF Kept
<1>7. Kept(p, 0)' = Kept(p, cutoff)
  <2>1. \A t \in Time : t >= e.cleared /\ t >= 0 <=> t >= entries[p].cleared /\ t >= cutoff
    BY <1>2, Numbers, Constants
  <2> QED BY <2>1, <1>3 DEF Kept
<1>8. \A W \in SUBSET Kept(p, cutoff) :
        TokensIn(e.held, W) = TokensIn(entries[p].held, W)
  <2> TAKE W \in SUBSET Kept(p, cutoff)
  <2>1. \A t \in W : t \in Time /\ t >= cutoff
    BY DEF Kept
  <2> QED BY <2>1, <1>2, ClearedTokens
<1>9. Finite' /\ NoOverplacement' /\ Owed'
  BY <1>4, LandingIs DEF Finite, NoOverplacement, Landing, Owed
<1>10. Past'
  <2>1. e.cleared = 0 \/ e.cleared + Grace <= clock
    BY <1>1, <1>2 DEF Past
  <2> QED BY <2>1, <1>3 DEF Past
<1>11. Covered'
  <2>1. ASSUME NEW W \in SUBSET Kept(p, cutoff)
        PROVE  Cardinality(ClaimsIn(p, W)) <= Cardinality(TokensIn(e.held, W)) + strays[p]
    <3>1. W \in SUBSET Kept(p, 0)
      BY KeptIs, <2>1
    <3>2. Cardinality(ClaimsIn(p, W))
            <= Cardinality(TokensIn(entries[p].held, W)) + strays[p]
      BY <3>1, <2>1 DEF Covered
    <3> QED BY <3>2, <1>8
  <2> QED BY <2>1, <1>3, <1>5, <1>6, <1>7 DEF Covered
<1>12. Backed'
  <2>1. e.warm + Cardinality(ClaimsIn(p, Kept(p, cutoff)))
          <= Spare(p) + Cardinality(TokensIn(e.held, Kept(p, cutoff)))
    BY <1>2, <1>8
  <2> QED BY <2>1, <1>3, <1>4, <1>5, <1>6, <1>7 DEF Backed
<1>13. Seen'
  BY <1>3, <1>4, <1>5, <1>6 DEF Seen
<1> QED BY <1>9, <1>10, <1>11, <1>12, <1>13

\* What the provider has now balances: each claim has its token, or is a stray.
LEMMA PoolBalances ==
    ASSUME TypeOK, Covered, NEW p \in Providers, NEW k, Finite
    PROVE  pool[p] + Cardinality(ClaimsIn(p, Kept(p, k)))
             <= Spare(p) + Cardinality(TokensIn(entries[p].held, Kept(p, k)))
<1>1. Cardinality(ClaimsIn(p, Kept(p, k)))
        <= Cardinality(TokensIn(entries[p].held, Kept(p, k))) + strays[p]
  BY KeptIs DEF Covered
<1>2. /\ Cardinality(ClaimsIn(p, Kept(p, k))) \in Nat
      /\ Cardinality(TokensIn(entries[p].held, Kept(p, k))) \in Nat
      /\ pool[p] \in Nat /\ strays[p] \in Nat
  BY ClaimsFinite, TokensFinite, Numbers
<1> QED BY <1>1, <1>2 DEF Spare

\* A provider goes: the claims on it have lost their tokens, and are its strays.
LEMMA RemoveSourceBalance ==
    ASSUME TypeOK, Balance, NEW p \in Providers, RemoveSource(p)
    PROVE  Balance'
<1> USE DEF Balance
<1>1. /\ entries' = [entries EXCEPT ![p] = NoEntry]
      /\ sources' = [sources EXCEPT ![p] = NoSource]
      /\ caller' = [c \in Callers |-> [caller[c] EXCEPT
                      !.orphan = @ \/ c \in Claiming(p) \cup Loaded(p)]]
      /\ UNCHANGED <<fetches, clock, pool>>
  BY DEF RemoveSource, world
<1>2. \A c \in Callers : /\ caller'[c].at = caller[c].at /\ caller'[c].p = caller[c].p
                         /\ caller'[c].sec = caller[c].sec
                         /\ caller'[c].orphan =
                               (caller[c].orphan \/ c \in Claiming(p) \cup Loaded(p))
  BY <1>1, CallerNumbers DEF ClaimRec
<1>3. /\ entries'[p] = NoEntry /\ sources'[p].gen = 0
      /\ \A q \in Providers : q # p => entries'[q] = entries[q] /\ sources'[q] = sources[q]
  BY <1>1, Types DEF NoSource
<1>4. NoEntry.warm = 0 /\ NoEntry.cleared = 0
  BY DEF NoEntry
<1>5. \A q \in Providers : Claiming(q)' = Claiming(q) /\ Landing(q)' = Landing(q)
  BY <1>1, <1>2 DEF Claiming, Landing, InTime
<1>6. \A q \in Providers : \A W : ClaimsIn(q, W)' = ClaimsIn(q, W)
  BY <1>2, <1>5 DEF Claiming, ClaimsIn
<1>7. \A q \in Providers : \A k : q # p => Kept(q, k)' = Kept(q, k)
  BY <1>3 DEF Kept
<1>8. /\ Cardinality(Claiming(p)) <= Cardinality(Orphans(p)) + strays'[p] - strays[p]
      /\ strays'[p] >= strays[p] /\ strays' \in [Providers -> 0..MaxStrays]
      /\ \A q \in Providers : q # p => strays'[q] = strays[q]
  BY RemovalCounts
<1>9. /\ Cardinality(Orphans(p)) <= strays[p] /\ Cardinality(Orphans(p)) \in Nat
      /\ Cardinality(Claiming(p)) \in Nat /\ strays[p] \in Nat /\ strays'[p] \in Nat
      /\ pool[p] \in Nat
  <2>1. strays'[p] \in 0..MaxStrays /\ MaxStrays \in Nat
    BY <1>8, Constants
  <2>2. strays[p] \in Nat /\ pool[p] \in Nat
    BY Numbers
  <2>3. Cardinality(Claiming(p)) \in Nat /\ Cardinality(Orphans(p)) \in Nat
    BY ClaimsFinite, FS_CardinalityType DEF Finite
  <2>4. Cardinality(Orphans(p)) <= strays[p]
    BY DEF Owed
  <2> QED BY <2>1, <2>2, <2>3, <2>4
<1>10. Cardinality(Claiming(p)) <= strays'[p]
  BY <1>8, <1>9
<1>11. \A W : Cardinality(ClaimsIn(p, W)) <= strays'[p] /\ Cardinality(ClaimsIn(p, W)) \in Nat
  <2> TAKE W
  <2>1. ClaimsIn(p, W) \in SUBSET Claiming(p) /\ IsFiniteSet(Claiming(p))
    BY DEF ClaimsIn, Finite
  <2>2. Cardinality(ClaimsIn(p, W)) <= Cardinality(Claiming(p))
        /\ Cardinality(ClaimsIn(p, W)) \in Nat
    BY <2>1, FS_Subset, ClaimsFinite
  <2> QED BY <2>2, <1>9, <1>10
<1>12. Finite' /\ Past'
  BY <1>1, <1>3, <1>4, <1>5 DEF Finite, Past
<1>13. Owed'
  <2> SUFFICES ASSUME NEW q \in Providers
               PROVE  Cardinality(Orphans(q)') <= strays'[q]
    BY DEF Owed
  <2>1. CASE q = p
    <3>1. Orphans(p)' = Claiming(p)
      BY <1>2, <1>5 DEF Orphans, Claiming
    <3> QED BY <2>1, <3>1, <1>10
  <2>2. CASE q # p
    <3>1. Orphans(q)' = Orphans(q)
      BY <2>2, <1>2, <1>5 DEF Orphans, Claiming, Loaded
    <3> QED BY <2>2, <3>1, <1>8 DEF Owed
  <2> QED BY <2>1, <2>2
<1>14. NoOverplacement'
  <2> SUFFICES ASSUME NEW q \in Providers
               PROVE  Cardinality(Landing(q)) <= pool[q] + strays'[q]
    BY <1>1, <1>5 DEF NoOverplacement, Landing
  <2>1. Cardinality(Landing(q)) <= pool[q] + strays[q]
    BY LandingIs DEF Spare
  <2>2. CASE q = p
    BY <2>1, <2>2, <1>8, <1>9, ClaimsFinite
  <2>3. CASE q # p
    BY <2>1, <2>3, <1>8
  <2> QED BY <2>2, <2>3
<1>15. Covered'
  <2> SUFFICES ASSUME NEW q \in Providers, NEW W \in SUBSET Kept(q, 0)'
               PROVE  Cardinality(ClaimsIn(q, W))
                        <= Cardinality(TokensIn(entries'[q].held, W)) + strays'[q]
    BY <1>6 DEF Covered
  <2>1. CASE q = p
    <3>1. Cardinality(TokensIn(entries'[q].held, W)) \in Nat
      BY TokensFinite
    <3> QED BY <2>1, <3>1, <1>9, <1>11
  <2>2. CASE q # p
    BY <2>2, <1>3, <1>7, <1>8 DEF Covered
  <2> QED BY <2>1, <2>2
<1>16. Backed'
  <2> SUFFICES ASSUME NEW q \in Providers
               PROVE  entries'[q].warm + Cardinality(ClaimsIn(q, Kept(q, 0)'))
                        <= Spare(q)' + Cardinality(TokensIn(entries'[q].held, Kept(q, 0)'))
    BY <1>6 DEF Backed
  <2>1. CASE q = p
    <3>1. Cardinality(TokensIn(entries'[q].held, Kept(q, 0)')) \in Nat
      BY TokensFinite
    <3>2. Spare(q)' = pool[q] + strays'[q] /\ entries'[q].warm = 0
      BY <2>1, <1>1, <1>3, <1>4 DEF Spare
    <3>3. Cardinality(ClaimsIn(q, Kept(q, 0)')) <= strays'[q]
          /\ Cardinality(ClaimsIn(q, Kept(q, 0)')) \in Nat
      BY <2>1, <1>11
    <3> QED BY <2>1, <3>1, <3>2, <3>3, <1>9
  <2>2. CASE q # p
    BY <2>2, <1>1, <1>3, <1>7, <1>8 DEF Backed, Spare
  <2> QED BY <2>1, <2>2
<1>17. Seen'
  <2>1. \A f \in fetches : f.p \in Providers /\ f.gen # 0
    BY FetchNumbers
  <2>2. \A f \in fetches : Current(f)' => f.p # p /\ Current(f)
    BY <2>1, <1>3 DEF Current
  <2> QED BY <2>1, <2>2, <1>1, <1>3, <1>6, <1>7, <1>8 DEF Seen, Spare
<1> QED BY <1>12, <1>13, <1>14, <1>15, <1>16, <1>17

\* A caller loads a ledger, or is refused: no claim is touched.
LEMMA LoadedBalance ==
    ASSUME TypeOK, TypeOK', Balance, NEW c \in Callers,
           NEW x, x.at # "claiming", caller[c].at # "claiming",
           caller' = [caller EXCEPT ![c] = x],
           UNCHANGED <<clock, sources, fetches, entries, pool, strays>>
    PROVE  Balance'
<1> USE DEF Balance
<1>1. caller'[c] = x /\ \A d \in Callers : d # c => caller'[d] = caller[d]
  BY Types
<1>2. \A q \in Providers : Claiming(q)' = Claiming(q) /\ c \notin Claiming(q)
  BY <1>1 DEF Claiming
<1>3. \A q \in Providers : /\ Landing(q)' = Landing(q) /\ Orphans(q)' = Orphans(q)
                           /\ \A W : ClaimsIn(q, W)' = ClaimsIn(q, W)
  BY <1>1, <1>2 DEF Landing, InTime, Orphans, ClaimsIn, Claiming
<1>4. Finite' /\ Owed' /\ NoOverplacement'
  BY <1>2, <1>3, LandingIs DEF Finite, Owed, NoOverplacement, Landing
<1>5. \A q \in Providers : \A K :
         /\ Cardinality(ClaimsIn(q, K)) \in Nat /\ Cardinality(TokensIn(entries[q].held, K)) \in Nat
         /\ strays[q] \in Nat
  BY ClaimsFinite, TokensFinite, Numbers
<1>6. Past' /\ Covered' /\ Backed' /\ Seen'
  <2>1. \A q \in Providers : \A K \in SUBSET Kept(q, 0) :
          Cardinality(ClaimsIn(q, K)') + Cardinality(TokensIn(entries[q].held, K)) + strays[q]
            <= Cardinality(ClaimsIn(q, K)) + Cardinality(TokensIn(entries'[q].held, K))
               + strays'[q]
    BY <1>3, <1>5
  <2> QED BY <2>1, <1>4, Exchange
<1> QED BY <1>4, <1>6

\* A claim that can still land belongs to a second no report has accounted for.
LEMMA LandingKept ==
    ASSUME TypeOK, Past, NEW p \in Providers, NEW c \in Landing(p), NEW k \in Int,
           k + Grace <= clock
    PROVE  caller[c].sec \in Kept(p, k)
<1>1. c \in Callers /\ clock <= caller[c].sec + Grace
  BY DEF Landing, Claiming, InTime
<1>2. caller[c].sec \in Time /\ caller[c].sec \in Nat
  BY <1>1, CallerNumbers
<1>3. entries[p].cleared = 0 \/ entries[p].cleared + Grace <= clock
  BY DEF Past
<1>4. entries[p].cleared \in Nat /\ clock \in Nat /\ Grace \in Nat
  BY Numbers, Constants
<1>5. caller[c].sec >= entries[p].cleared /\ caller[c].sec >= k
  BY <1>1, <1>2, <1>3, <1>4
<1> QED BY <1>2, <1>5 DEF Kept

\* While a ledger has room, one claim more finds a sandbox.
LEMMA RoomForOne ==
    ASSUME TypeOK, Balance, NEW p \in Providers, Room(p)
    PROVE  Cardinality(Landing(p)) + 1 <= Spare(p)
<1> USE DEF Balance
<1> DEFINE K == Kept(p, 0)
<1>1. Landing(p) \in SUBSET ClaimsIn(p, K)
  <2> SUFFICES ASSUME NEW d \in Landing(p) PROVE d \in ClaimsIn(p, K)
    OBVIOUS
  <2>1. clock \in Nat /\ Grace \in Nat
    BY Numbers, Constants
  <2>2. clock - Grace \in Int /\ (clock - Grace) + Grace <= clock
    BY <2>1
  <2>3. caller[d].sec \in Kept(p, clock - Grace)
    BY <2>2, LandingKept
  <2> QED BY <2>3, KeptIs DEF ClaimsIn, Landing
<1>2. Cardinality(Landing(p)) <= Cardinality(ClaimsIn(p, K))
      /\ Cardinality(Landing(p)) \in Nat /\ Cardinality(ClaimsIn(p, K)) \in Nat
  BY <1>1, ClaimsFinite, FS_Subset
<1>3. entries[p].warm + Cardinality(ClaimsIn(p, K))
        <= Spare(p) + Cardinality(TokensIn(entries[p].held, K))
  BY DEF Backed
<1>4. /\ Cardinality(TokensIn(entries[p].held, K)) \in Nat
      /\ Cardinality(Tokens(entries[p].held)) \in Nat
      /\ Cardinality(TokensIn(entries[p].held, K)) <= Cardinality(Tokens(entries[p].held))
      /\ entries[p].warm \in Nat /\ Spare(p) \in Nat
  BY TokensFinite, Numbers
<1>5. Cardinality(Tokens(entries[p].held)) < entries[p].warm
  BY DEF Room, Out
<1> HIDE DEF K
<1> QED BY <1>2, <1>3, <1>4, <1>5

\* What a reservation does to the ledger it was made on.
LEMMA Reserves ==
    ASSUME TypeOK, NEW c \in Callers, TryReserveWarm(c)
    PROVE  LET p == caller[c].p
           IN  \E sec \in Time :
                 /\ caller[c].at = "loaded" /\ p \in Providers
                 /\ caller' = [caller EXCEPT ![c] =
                                 [caller[c] EXCEPT !.at = "claiming", !.sec = sec]]
                 /\ \/ /\ caller[c].orphan /\ UNCHANGED entries
                       /\ strays[p] < MaxStrays
                       /\ strays' = [strays EXCEPT ![p] = @ + 1]
                    \/ /\ ~caller[c].orphan /\ Room(p) /\ UNCHANGED strays
                       /\ \/ sec < entries[p].cleared /\ UNCHANGED entries
                          \/ LET n == [entries[p].held EXCEPT ![sec] = @ + 1]
                             IN  /\ entries[p].held[sec] < MaxWarm
                                 /\ n \in [Time -> 0..MaxWarm]
                                 /\ entries' = [entries EXCEPT ![p].held = n]
                 /\ UNCHANGED <<schedule, fetches, clock, pool>>
<1> DEFINE p == caller[c].p
<1>1. p \in Providers /\ caller[c] \in ClaimRec /\ caller \in [Callers -> ClaimRec]
      /\ caller[c].sec \in Nat /\ clock \in Nat /\ clock \in Time /\ caller[c].orphan \in BOOLEAN
  BY CallerNumbers, Numbers, Types DEF ClaimRec
<1>2. PICK sec \in caller[c].sec..clock :
         /\ caller' = [caller EXCEPT ![c].at = "claiming", ![c].sec = sec]
         /\ \/ ~caller[c].orphan /\ entries' = [entries EXCEPT ![p].held[sec] = @ + 1]
            \/ (caller[c].orphan \/ sec < entries[p].cleared) /\ UNCHANGED entries
  BY DEF TryReserveWarm
<1>3. /\ caller[c].at = "loaded" /\ UNCHANGED <<schedule, fetches, clock, pool>>
      /\ \/ /\ caller[c].orphan /\ strays[p] < MaxStrays
            /\ strays' = [strays EXCEPT ![p] = @ + 1]
         \/ ~caller[c].orphan /\ Room(p) /\ UNCHANGED strays
  BY DEF TryReserveWarm, world
<1>4. sec \in Time
  BY <1>1, <1>2, Constants DEF Time
<1>5. caller' = [caller EXCEPT ![c] = [caller[c] EXCEPT !.at = "claiming", !.sec = sec]]
  BY <1>1, <1>2 DEF ClaimRec
<1> DEFINE h == entries[p].held
           n == [h EXCEPT ![sec] = @ + 1]
<1>6. h \in [Time -> 0..MaxWarm] /\ entries[p].warm \in Nat /\ entries[p].warm <= MaxWarm
      /\ MaxWarm \in Nat /\ h[sec] \in 0..MaxWarm
  BY <1>1, <1>4, Numbers, Constants
<1>7. Room(p) => h[sec] < MaxWarm
  <2>1. h[sec] <= Cardinality(Tokens(h)) /\ Cardinality(Tokens(h)) \in Nat
    BY <1>4, <1>6, CountBound, TokensFinite
  <2>2. Room(p) => Cardinality(Tokens(h)) < entries[p].warm
    BY DEF Room, Out
  <2> QED BY <2>1, <2>2, <1>6
<1>8. Room(p) => n \in [Time -> 0..MaxWarm]
  <2>1. Room(p) => h[sec] + 1 \in 0..MaxWarm
    BY <1>6, <1>7
  <2> QED BY <2>1, <1>6
<1>9. entries' = [entries EXCEPT ![p].held[sec] = @ + 1]
        => entries' = [entries EXCEPT ![p].held = n]
  BY <1>1, Types DEF Entry
<1> QED BY <1>1, <1>2, <1>3, <1>4, <1>5, <1>7, <1>8, <1>9

\* A claim is made: everywhere one claim and one token more, or a stray.
LEMMA ReserveBalance ==
    ASSUME TypeOK, TypeOK', Balance, NEW c \in Callers, TryReserveWarm(c)
    PROVE  Balance'
<1> USE DEF Balance
<1>16. PICK p \in Providers : p = caller[c].p
  BY CallerNumbers
<1> DEFINE h == entries[p].held
<1>1. PICK sec \in Time :
        /\ caller[c].at = "loaded"
        /\ caller' = [caller EXCEPT ![c] =
                        [caller[c] EXCEPT !.at = "claiming", !.sec = sec]]
        /\ \/ /\ caller[c].orphan /\ UNCHANGED entries
              /\ strays[p] < MaxStrays
              /\ strays' = [strays EXCEPT ![p] = @ + 1]
           \/ /\ ~caller[c].orphan /\ Room(p) /\ UNCHANGED strays
              /\ \/ sec < entries[p].cleared /\ UNCHANGED entries
                 \/ LET n == [h EXCEPT ![sec] = @ + 1]
                    IN  /\ h[sec] < MaxWarm
                        /\ n \in [Time -> 0..MaxWarm]
                        /\ entries' = [entries EXCEPT ![p].held = n]
        /\ UNCHANGED <<schedule, fetches, clock, pool>>
  BY <1>16, Reserves
<1>2. UNCHANGED <<sources, fetches, clock, pool>> /\ sec \in Nat /\ p \in Providers
  BY <1>1, Constants DEF schedule
<1>3. h \in [Time -> 0..MaxWarm] /\ entries[p].cleared \in Nat
      /\ strays[p] \in Nat /\ pool[p] \in Nat /\ Spare(p) = pool[p] + strays[p]
  BY <1>2, Numbers DEF Spare
<1>4. /\ caller'[c].at = "claiming" /\ caller'[c].p = p /\ caller'[c].sec = sec
      /\ caller'[c].orphan = caller[c].orphan
      /\ \A d \in Callers : d # c => caller'[d] = caller[d]
  <2>1. caller[c] \in ClaimRec /\ caller \in [Callers -> ClaimRec]
    BY Types
  <2> QED BY <2>1, <1>1, <1>16 DEF ClaimRec
<1>5. /\ \A q \in Providers : /\ entries'[q].warm = entries[q].warm
                              /\ entries'[q].cleared = entries[q].cleared
                              /\ q # p => entries'[q] = entries[q] /\ strays'[q] = strays[q]
      /\ \/ entries' = entries
         \/ entries'[p].held = [h EXCEPT ![sec] = @ + 1] /\ h[sec] < MaxWarm
  <2>1. \A q \in Providers : q # p => strays'[q] = strays[q]
    BY <1>1, Types
  <2>2. CASE UNCHANGED entries
    BY <2>1, <2>2
  <2>3. CASE /\ h[sec] < MaxWarm
             /\ entries' = [entries EXCEPT ![p].held = [h EXCEPT ![sec] = @ + 1]]
    BY <2>1, <2>3, <1>2, Types DEF Entry
  <2> QED BY <1>1, <2>2, <2>3
<1>6. /\ Claiming(p)' = Claiming(p) \cup {c} /\ c \notin Claiming(p)
      /\ \A q \in Providers : q # p => Claiming(q)' = Claiming(q)
  BY <1>1, <1>4 DEF Claiming
<1>7. Finite'
  BY <1>6, FS_AddElement DEF Finite
<1>8. \A q \in Providers : c \notin Claiming(q) /\ Claiming(q) \subseteq Callers
  BY <1>1 DEF Claiming
<1>9. /\ Landing(p)' \in SUBSET (Landing(p) \cup {c})
      /\ \A q \in Providers : q # p => Landing(q)' = Landing(q)
  BY <1>2, <1>4, <1>6, <1>8 DEF Landing, InTime
<1>10. \A W : /\ ClaimsIn(p, W)' = IF sec \in W THEN ClaimsIn(p, W) \cup {c}
                                   ELSE ClaimsIn(p, W)
              /\ c \notin ClaimsIn(p, W)
              /\ \A q \in Providers : q # p => ClaimsIn(q, W)' = ClaimsIn(q, W)
  BY <1>4, <1>6, <1>8 DEF ClaimsIn
<1>11. \A W : Cardinality(ClaimsIn(p, W)') =
                IF sec \in W THEN Cardinality(ClaimsIn(p, W)) + 1
                ELSE Cardinality(ClaimsIn(p, W))
  BY <1>2, <1>10, ClaimsFinite, FS_AddElement
<1>12. Past' /\ Covered' /\ Backed' /\ Seen'
  <2>1. ASSUME NEW q \in Providers, NEW K \in SUBSET Kept(q, 0)
        PROVE  Cardinality(ClaimsIn(q, K)') + Cardinality(TokensIn(entries[q].held, K))
                   + strays[q]
                 <= Cardinality(ClaimsIn(q, K)) + Cardinality(TokensIn(entries'[q].held, K))
                   + strays'[q]
    <3>1. /\ Cardinality(ClaimsIn(q, K)) \in Nat /\ strays[q] \in Nat
          /\ Cardinality(TokensIn(entries[q].held, K)) \in Nat
      BY ClaimsFinite, TokensFinite, Numbers
    <3>2. CASE q # p
      <4>1. ClaimsIn(q, K)' = ClaimsIn(q, K)
        BY <3>2, <1>10
      <4>2. entries'[q] = entries[q] /\ strays'[q] = strays[q]
        BY <3>2, <1>5
      <4> QED BY <3>1, <4>1, <4>2
    <3>3. CASE q = p /\ caller[c].orphan
      <4>1. strays'[q] = strays[q] + 1 /\ entries'[q] = entries[q]
        BY <3>3, <1>1, <1>2, Types
      <4> QED BY <3>1, <3>3, <4>1, <1>11
    <3>4. CASE q = p /\ ~caller[c].orphan /\ sec < entries[p].cleared /\ entries' = entries
      <4>1. sec \notin K
        BY <3>4, <1>2, <1>3 DEF Kept
      <4> QED BY <3>1, <3>4, <4>1, <1>1, <1>11
    <3>5. CASE q = p /\ ~caller[c].orphan /\ h[sec] < MaxWarm
               /\ entries' = [entries EXCEPT ![p].held = [h EXCEPT ![sec] = @ + 1]]
      <4>1. entries'[p].held = [h EXCEPT ![sec] = @ + 1]
        BY <3>5, <1>2, Types DEF Entry
      <4>2. Cardinality(TokensIn(entries'[p].held, K)) =
               IF sec \in K THEN Cardinality(TokensIn(h, K)) + 1
               ELSE Cardinality(TokensIn(h, K))
        BY <3>5, <4>1, <1>1, <1>3, AddToken
      <4> QED BY <3>1, <3>5, <4>2, <1>1, <1>11
    <3> QED BY <3>2, <3>3, <3>4, <3>5, <1>1
  <2> QED BY <2>1, <1>2, <1>5, <1>7, Exchange
<1>13. Cardinality(Landing(p)') <= Cardinality(Landing(p)) + 1
       /\ Cardinality(Landing(p)') \in Nat /\ Cardinality(Landing(p)) \in Nat
  <2>1. IsFiniteSet(Landing(p)) /\ Cardinality(Landing(p)) \in Nat
    BY <1>2, ClaimsFinite
  <2>2. IsFiniteSet(Landing(p) \cup {c})
        /\ Cardinality(Landing(p) \cup {c}) <= Cardinality(Landing(p)) + 1
    <3>1. /\ IsFiniteSet(Landing(p) \cup {c})
          /\ \/ Cardinality(Landing(p) \cup {c}) = Cardinality(Landing(p))
             \/ Cardinality(Landing(p) \cup {c}) = Cardinality(Landing(p)) + 1
      BY <2>1, FS_AddElement
    <3> QED BY <2>1, <3>1
  <2>3. IsFiniteSet(Landing(p)')
        /\ Cardinality(Landing(p)') <= Cardinality(Landing(p) \cup {c})
    BY <2>2, <1>9, FS_Subset
  <2>4. Cardinality(Landing(p)') \in Nat /\ Cardinality(Landing(p) \cup {c}) \in Nat
    BY <2>2, <2>3, FS_CardinalityType
  <2> QED BY <2>1, <2>2, <2>3, <2>4
<1>14. NoOverplacement'
  <2> SUFFICES ASSUME NEW q \in Providers
               PROVE  Cardinality(Landing(q)') <= pool[q] + strays'[q]
    BY <1>2 DEF NoOverplacement, Landing
  <2>1. Cardinality(Landing(q)) <= pool[q] + strays[q]
    BY LandingIs DEF Spare
  <2>2. CASE q # p
    BY <2>1, <2>2, <1>5, <1>9
  <2>3. CASE q = p /\ caller[c].orphan
    <3>1. strays'[p] = strays[p] + 1
      BY <2>3, <1>1, <1>2, Types
    <3> QED BY <2>1, <2>3, <3>1, <1>3, <1>13
  <2>4. CASE q = p /\ Room(p) /\ UNCHANGED strays
    <3>1. Cardinality(Landing(p)) + 1 <= Spare(p)
      BY <2>4, <1>2, RoomForOne
    <3> QED BY <2>4, <3>1, <1>3, <1>13
  <2> QED BY <2>2, <2>3, <2>4, <1>1
<1>15. Owed'
  <2> SUFFICES ASSUME NEW q \in Providers
               PROVE  Cardinality(Orphans(q)') <= strays'[q]
    BY DEF Owed
  <2>1. Cardinality(Orphans(q)) <= strays[q] /\ strays[q] \in Nat
        /\ IsFiniteSet(Orphans(q)) /\ Cardinality(Orphans(q)) \in Nat
    BY ClaimsFinite, Numbers DEF Owed
  <2>2. CASE q # p
    <3>1. Orphans(q)' = Orphans(q)
      BY <2>2, <1>4, <1>6, <1>8 DEF Orphans
    <3> QED BY <2>1, <2>2, <3>1, <1>5
  <2>3. CASE q = p /\ caller[c].orphan
    <3>1. strays'[p] = strays[p] + 1
      BY <2>3, <1>1, <1>2, Types
    <3>2. Orphans(p)' = Orphans(p) \cup {c}
      BY <2>3, <1>4, <1>6, <1>8 DEF Orphans
    <3>3. \/ Cardinality(Orphans(p)') = Cardinality(Orphans(p))
          \/ Cardinality(Orphans(p)') = Cardinality(Orphans(p)) + 1
      BY <2>1, <2>3, <3>2, FS_AddElement
    <3> QED BY <2>1, <2>3, <3>1, <3>3
  <2>4. CASE q = p /\ ~caller[c].orphan
    <3>1. Orphans(p)' = Orphans(p)
      BY <2>4, <1>4, <1>6, <1>8 DEF Orphans
    <3> QED BY <2>1, <2>4, <3>1, <1>1
  <2> QED BY <2>2, <2>3, <2>4
<1> QED BY <1>7, <1>12, <1>14, <1>15

\* A claim ends: one claim less at its provider.
LEMMA ClaimEnds ==
    ASSUME TypeOK, Finite, NEW c \in Callers, caller[c].at = "claiming",
           caller' = [caller EXCEPT ![c] = NoClaim], clock' = clock
    PROVE  /\ \A q \in Providers : /\ Claiming(q)' = Claiming(q) \ {c}
                                   /\ Landing(q)' = Landing(q) \ {c}
                                   /\ Orphans(q)' = Orphans(q) \ {c}
                                   /\ Cardinality(Orphans(q)') <= Cardinality(Orphans(q))
                                   /\ Cardinality(Landing(q)') <= Cardinality(Landing(q))
                                   /\ Cardinality(Orphans(q)') \in Nat
                                   /\ Cardinality(Landing(q)') \in Nat
           /\ \A q \in Providers : \A W :
                Cardinality(ClaimsIn(q, W)') =
                  IF q = caller[c].p /\ caller[c].sec \in W
                  THEN Cardinality(ClaimsIn(q, W)) - 1 ELSE Cardinality(ClaimsIn(q, W))
           /\ Finite'
<1>1. /\ caller'[c].at = "idle" /\ \A d \in Callers : d # c => caller'[d] = caller[d]
  BY Types DEF NoClaim
<1>2. \A q \in Providers : Claiming(q)' = Claiming(q) \ {c} /\ Claiming(q) \subseteq Callers
  BY <1>1 DEF Claiming
<1>3. \A q \in Providers : Landing(q)' = Landing(q) \ {c} /\ Orphans(q)' = Orphans(q) \ {c}
  BY <1>1, <1>2 DEF Landing, InTime, Orphans
<1>4. \A q \in Providers : \A W : ClaimsIn(q, W)' = ClaimsIn(q, W) \ {c}
  BY <1>1, <1>2 DEF ClaimsIn
<1>5. \A q \in Providers : \A W : c \in ClaimsIn(q, W) <=> q = caller[c].p /\ caller[c].sec \in W
  BY DEF ClaimsIn, Claiming
<1>6. \A q \in Providers : \A W :
         Cardinality(ClaimsIn(q, W)') =
           IF c \in ClaimsIn(q, W)
           THEN Cardinality(ClaimsIn(q, W)) - 1 ELSE Cardinality(ClaimsIn(q, W))
  BY <1>4, ClaimsFinite, FS_RemoveElement
<1>7. Finite'
  BY <1>2, FS_RemoveElement DEF Finite
<1>8. \A q \in Providers : /\ Cardinality(Orphans(q)') <= Cardinality(Orphans(q))
                           /\ Cardinality(Landing(q)') <= Cardinality(Landing(q))
                           /\ Cardinality(Orphans(q)') \in Nat
                           /\ Cardinality(Landing(q)') \in Nat
  <2> TAKE q \in Providers
  <2>1. IsFiniteSet(Orphans(q)) /\ IsFiniteSet(Landing(q))
    BY ClaimsFinite
  <2>2. Orphans(q)' \in SUBSET Orphans(q) /\ Landing(q)' \in SUBSET Landing(q)
    BY <1>3
  <2> QED BY <2>1, <2>2, FS_Subset, FS_CardinalityType
<1> QED BY <1>2, <1>3, <1>5, <1>6, <1>7, <1>8

\* A claim lands: one claim and one sandbox less, and its token stays.
LEMMA LandsBalance ==
    ASSUME TypeOK, Balance, NEW c \in Callers, Lands(c)
    PROVE  Balance'
<1> USE DEF Balance
<1> DEFINE p == caller[c].p
<1>1. /\ caller[c].at = "claiming" /\ InTime(c) /\ pool[p] > 0
      /\ pool' = [pool EXCEPT ![p] = @ - 1] /\ caller' = [caller EXCEPT ![c] = NoClaim]
      /\ UNCHANGED <<sources, entries, fetches, clock, strays>>
  BY DEF Lands, schedule
<1>2. p \in Providers
  BY CallerNumbers
<1>3. c \in Landing(p) /\ \A q \in Providers : q # p => c \notin Claiming(q)
  BY <1>1 DEF Landing, Claiming
<1> HIDE DEF p
<1>4. pool'[p] = pool[p] - 1 /\ \A q \in Providers : q # p => pool'[q] = pool[q]
  BY <1>1, <1>2, Types
<1>5. /\ \A q \in Providers : /\ Claiming(q)' = Claiming(q) \ {c}
                              /\ Landing(q)' = Landing(q) \ {c}
                              /\ Cardinality(Orphans(q)') <= Cardinality(Orphans(q))
                              /\ Cardinality(Orphans(q)') \in Nat
      /\ \A q \in Providers : \A W :
           Cardinality(ClaimsIn(q, W)') =
             IF q = p /\ caller[c].sec \in W
             THEN Cardinality(ClaimsIn(q, W)) - 1 ELSE Cardinality(ClaimsIn(q, W))
      /\ Finite'
  BY <1>1, ClaimEnds DEF p
<1>6. Past'
  BY <1>1 DEF Past
<1>7. \A q \in Providers : \A k : Kept(q, k)' = Kept(q, k)
  BY <1>1 DEF Kept
<1>8. \A k \in Int : k + Grace <= clock => caller[c].sec \in Kept(p, k)
  BY <1>2, <1>3, LandingKept
<1>9. Covered'
  <2> SUFFICES ASSUME NEW q \in Providers, NEW W \in SUBSET Kept(q, 0)
               PROVE  Cardinality(ClaimsIn(q, W)')
                        <= Cardinality(TokensIn(entries[q].held, W)) + strays[q]
    BY <1>1, <1>7 DEF Covered
  <2>1. Cardinality(ClaimsIn(q, W))
          <= Cardinality(TokensIn(entries[q].held, W)) + strays[q]
    BY DEF Covered
  <2>2. Cardinality(ClaimsIn(q, W)) \in Nat /\ strays[q] \in Nat
        /\ Cardinality(TokensIn(entries[q].held, W)) \in Nat
    BY ClaimsFinite, TokensFinite, Numbers
  <2>3. Cardinality(ClaimsIn(q, W)') <= Cardinality(ClaimsIn(q, W))
        /\ Cardinality(ClaimsIn(q, W)') \in Int
    BY <2>2, <1>5
  <2> QED BY <2>1, <2>2, <2>3
<1>10. ASSUME NEW q \in Providers, NEW K, q = p => caller[c].sec \in K, NEW a \in Nat,
              a + Cardinality(ClaimsIn(q, K))
                <= Spare(q) + Cardinality(TokensIn(entries[q].held, K))
       PROVE  a + Cardinality(ClaimsIn(q, K)')
                <= Spare(q)' + Cardinality(TokensIn(entries[q].held, K))
  <2>1. /\ pool[q] \in Nat /\ strays[q] \in Nat /\ Cardinality(ClaimsIn(q, K)) \in Nat
        /\ Cardinality(TokensIn(entries[q].held, K)) \in Nat
        /\ Spare(q) = pool[q] + strays[q] /\ Spare(q)' = pool'[q] + strays[q]
    BY <1>1, ClaimsFinite, TokensFinite, Numbers DEF Spare
  <2>2. CASE q = p
    <3>1. Cardinality(ClaimsIn(q, K)') = Cardinality(ClaimsIn(q, K)) - 1
      BY <1>5, <1>10, <2>2
    <3>2. pool'[q] = pool[q] - 1
      BY <1>4, <2>2
    <3> QED BY <2>1, <3>1, <3>2, <1>10
  <2>3. CASE q # p
    <3>1. Cardinality(ClaimsIn(q, K)') = Cardinality(ClaimsIn(q, K))
      BY <1>5, <2>3
    <3>2. pool'[q] = pool[q]
      BY <1>4, <2>3
    <3> QED BY <2>1, <3>1, <3>2, <1>10
  <2> QED BY <2>2, <2>3
<1>11. Backed'
  <2> SUFFICES ASSUME NEW q \in Providers
               PROVE  entries[q].warm + Cardinality(ClaimsIn(q, Kept(q, 0))')
                        <= Spare(q)' + Cardinality(TokensIn(entries[q].held, Kept(q, 0)))
    BY <1>1, <1>7 DEF Backed
  <2>1. PICK K : K = Kept(q, 0) /\ K = Kept(q, 0)'
    BY <1>7
  <2>2. entries[q].warm \in Nat
    BY Numbers
  <2>3. q = p => caller[c].sec \in K
    <3>1. caller[c].sec \in Time /\ entries[p].cleared \in Nat
      BY CallerNumbers, Numbers, <1>2
    <3>2. clock - Grace \in Int /\ (clock - Grace) + Grace <= clock
      BY Numbers, Constants, <1>2
    <3>3. caller[c].sec \in Kept(p, clock - Grace)
      BY <3>2, <1>8
    <3> QED BY <3>3, <2>1, <1>2, KeptIs
  <2>4. entries[q].warm + Cardinality(ClaimsIn(q, K))
          <= Spare(q) + Cardinality(TokensIn(entries[q].held, K))
    BY <2>1 DEF Backed
  <2>5. entries[q].warm + Cardinality(ClaimsIn(q, K)')
          <= Spare(q)' + Cardinality(TokensIn(entries[q].held, K))
    BY <2>2, <2>3, <2>4, <1>10
  <2> QED BY <2>1, <2>5
<1>12. Seen'
  <2>1. ASSUME NEW f \in fetches, f.at = "read", Current(f)
        PROVE  f.saw + Cardinality(ClaimsIn(f.p, Kept(f.p, f.started - Grace))')
                 <= Spare(f.p)' + Cardinality(TokensIn(entries[f.p].held,
                                                      Kept(f.p, f.started - Grace)))
    <3>1. f.p \in Providers /\ f.saw \in Nat /\ f.started \in Nat
      BY FetchNumbers
    <3>2. PICK K : K = Kept(f.p, f.started - Grace) /\ K = Kept(f.p, f.started - Grace)'
      BY <3>1, <1>7
    <3>3. f.p = p => caller[c].sec \in K
      <4>1. f.started <= clock /\ clock \in Nat /\ Grace \in Nat
        BY <3>1, Numbers, Constants DEF Past
      <4>2. f.started - Grace \in Int /\ (f.started - Grace) + Grace <= clock
        BY <4>1, <3>1
      <4> QED BY <4>2, <3>2, <1>8
    <3>4. f.saw + Cardinality(ClaimsIn(f.p, K))
            <= Spare(f.p) + Cardinality(TokensIn(entries[f.p].held, K))
      BY <3>2, <2>1 DEF Seen
    <3>5. f.saw + Cardinality(ClaimsIn(f.p, K)')
            <= Spare(f.p)' + Cardinality(TokensIn(entries[f.p].held, K))
      BY <3>1, <3>3, <3>4, <1>10
    <3> QED BY <3>2, <3>5
  <2> QED BY <2>1, <1>1, <1>7, FetchNumbers DEF Seen, Current
<1>13. NoOverplacement'
  <2> SUFFICES ASSUME NEW q \in Providers
               PROVE  Cardinality(Landing(q)') <= pool'[q] + strays[q]
    BY <1>1 DEF NoOverplacement, Landing
  <2>1. Cardinality(Landing(q)) <= pool[q] + strays[q] /\ pool[q] \in Nat /\ strays[q] \in Nat
    BY LandingIs, Numbers DEF Spare
  <2>2. IsFiniteSet(Landing(q)) /\ Cardinality(Landing(q)) \in Nat
    BY ClaimsFinite
  <2>3. Cardinality(Landing(q)') = IF c \in Landing(q) THEN Cardinality(Landing(q)) - 1
                                   ELSE Cardinality(Landing(q))
    BY <1>5, <2>2, FS_RemoveElement
  <2>4. CASE q = p
    BY <2>1, <2>2, <2>3, <2>4, <1>3, <1>4
  <2>5. CASE q # p
    BY <2>1, <2>2, <2>3, <2>5, <1>4, <1>3 DEF Landing
  <2> QED BY <2>4, <2>5
<1>14. Owed'
  <2> SUFFICES ASSUME NEW q \in Providers PROVE Cardinality(Orphans(q)') <= strays[q]
    BY <1>1 DEF Owed
  <2>1. Cardinality(Orphans(q)) <= strays[q] /\ Cardinality(Orphans(q)) \in Nat
        /\ strays[q] \in Nat
    BY ClaimsFinite, Numbers DEF Owed
  <2> QED BY <2>1, <1>5
<1> QED BY <1>5, <1>6, <1>9, <1>11, <1>12, <1>13, <1>14

\* What a release does to the ledger there is now.
LEMMA Releases ==
    ASSUME TypeOK, NEW c \in Callers, ReleaseReservationTicket(c)
    PROVE  LET p == caller[c].p
               sec == caller[c].sec
           IN  /\ caller[c].at = "claiming" /\ p \in Providers /\ sec \in Time
               /\ caller' = [caller EXCEPT ![c] = NoClaim]
               /\ UNCHANGED <<sources, fetches, clock, pool>>
               /\ \/ UNCHANGED <<entries, strays>>
                  \/ \E t \in Takeable(p, sec) :
                       LET n == [entries[p].held EXCEPT ![t] = @ - 1]
                       IN  /\ t \in Time /\ entries[p].held[t] > 0
                           /\ n \in [Time -> 0..MaxWarm]
                           /\ entries' = [entries EXCEPT ![p].held = n]
                           /\ IF Misses(p, sec, t)
                              THEN /\ strays[p] < MaxStrays
                                   /\ strays' = [strays EXCEPT ![p] = @ + 1]
                              ELSE UNCHANGED strays
<1> DEFINE p   == caller[c].p
           sec == caller[c].sec
           h   == entries[p].held
           n(t) == [h EXCEPT ![t] = @ - 1]
<1>1. /\ caller[c].at = "claiming" /\ caller' = [caller EXCEPT ![c] = NoClaim]
      /\ UNCHANGED <<sources, fetches, clock, pool>>
  BY DEF ReleaseReservationTicket, schedule, world
<1>2. /\ p \in Providers /\ sec \in Time
  BY CallerNumbers
<1>3. h \in [Time -> 0..MaxWarm] /\ entries \in [Providers -> Entry] /\ MaxWarm \in Nat
  BY <1>2, Numbers, Types, Constants
<1>4. ASSUME NEW t \in Takeable(p, sec)
      PROVE  /\ t \in Time /\ h[t] > 0 /\ n(t) \in [Time -> 0..MaxWarm]
             /\ entries' = [entries EXCEPT ![p].held[t] = @ - 1]
                  => entries' = [entries EXCEPT ![p].held = n(t)]
  <2>1. t \in Time /\ h[t] > 0
    BY DEF Takeable
  <2>2. h[t] - 1 \in 0..MaxWarm
    BY <2>1, <1>3
  <2>3. n(t) \in [Time -> 0..MaxWarm]
    BY <2>2, <1>3
  <2> QED BY <2>1, <2>3, <1>2, <1>3 DEF Entry
<1>5. \/ UNCHANGED <<entries, strays>>
      \/ \E t \in Takeable(p, sec) :
            /\ entries' = [entries EXCEPT ![p].held[t] = @ - 1]
            /\ IF Misses(p, sec, t)
               THEN strays[p] < MaxStrays /\ strays' = [strays EXCEPT ![p] = @ + 1]
               ELSE UNCHANGED strays
  BY DEF ReleaseReservationTicket
<1> QED BY <1>1, <1>2, <1>4, <1>5

\* A claim is given up.  It takes a token of its own second along, or none, or one no
\* report will count again; or another claim's, which becomes a stray.
LEMMA ReleaseBalance ==
    ASSUME TypeOK, TypeOK', Balance, NEW c \in Callers, ReleaseReservationTicket(c)
    PROVE  Balance'
<1> USE DEF Balance
<1> DEFINE p   == caller[c].p
           sec == caller[c].sec
           h   == entries[p].held
<1>1. /\ caller[c].at = "claiming" /\ p \in Providers /\ sec \in Time
      /\ caller' = [caller EXCEPT ![c] = NoClaim]
      /\ UNCHANGED <<sources, fetches, clock, pool>>
  BY Releases
<1>2. /\ \A q \in Providers : /\ Landing(q)' = Landing(q) \ {c}
                              /\ Cardinality(Landing(q)') <= Cardinality(Landing(q))
                              /\ Cardinality(Orphans(q)') <= Cardinality(Orphans(q))
                              /\ Cardinality(Landing(q)') \in Nat
                              /\ Cardinality(Orphans(q)') \in Nat
      /\ \A q \in Providers : \A W :
           Cardinality(ClaimsIn(q, W)') =
             IF q = p /\ sec \in W
             THEN Cardinality(ClaimsIn(q, W)) - 1 ELSE Cardinality(ClaimsIn(q, W))
      /\ Finite'
  BY <1>1, ClaimEnds
<1>3. ASSUME NEW q \in Providers
      PROVE  strays[q] \in Nat /\ pool[q] \in Nat
             /\ Cardinality(Landing(q)) \in Nat /\ Cardinality(Orphans(q)) \in Nat
  BY Numbers, ClaimsFinite
<1>4. ASSUME \A q \in Providers : strays'[q] \in Nat /\ strays'[q] >= strays[q]
      PROVE  Owed' /\ NoOverplacement'
  <2>1. \A q \in Providers : Cardinality(Orphans(q)') <= strays'[q]
    BY <1>2, <1>3, <1>4 DEF Owed
  <2>2. \A q \in Providers : Cardinality(Landing(q)) <= pool[q] + strays[q]
    BY LandingIs DEF Spare
  <2>3. \A q \in Providers : Cardinality(Landing(q)') <= pool[q] + strays'[q]
    BY <2>2, <1>2, <1>3, <1>4
  <2> QED BY <2>1, <2>3, <1>1 DEF Owed, NoOverplacement, Landing
<1>5. ASSUME NEW q \in Providers, NEW K
      PROVE  /\ Cardinality(ClaimsIn(q, K)) \in Nat
             /\ Cardinality(TokensIn(entries[q].held, K)) \in Nat
  BY ClaimsFinite, TokensFinite
<1>6. CASE UNCHANGED <<entries, strays>>
  <2>1. \A q \in Providers : \A K \in SUBSET Kept(q, 0) :
          Cardinality(ClaimsIn(q, K)') + Cardinality(TokensIn(entries[q].held, K)) + strays[q]
            <= Cardinality(ClaimsIn(q, K)) + Cardinality(TokensIn(entries'[q].held, K))
               + strays'[q]
    BY <1>2, <1>3, <1>5, <1>6
  <2>2. Past' /\ Covered' /\ Backed' /\ Seen'
    BY <2>1, <1>1, <1>2, <1>6, Exchange
  <2> QED BY <2>2, <1>2, <1>3, <1>4, <1>6
<1>7. ASSUME NEW t \in Takeable(p, sec), t \in Time, h[t] > 0,
             entries' = [entries EXCEPT ![p].held = [h EXCEPT ![t] = @ - 1]],
             IF Misses(p, sec, t)
             THEN strays' = [strays EXCEPT ![p] = @ + 1] ELSE UNCHANGED strays
      PROVE  Balance'
  <2> DEFINE n == [h EXCEPT ![t] = @ - 1]
  <2>1. h \in [Time -> 0..MaxWarm] /\ entries[p].cleared \in Nat
    BY <1>1, Numbers
  <2>2. \A K : Cardinality(TokensIn(n, K)) = IF t \in K THEN Cardinality(TokensIn(h, K)) - 1
                                            ELSE Cardinality(TokensIn(h, K))
    BY <1>7, <2>1, DropToken
  <2> HIDE DEF n
  <2>3. entries'[p].held = n
    BY <1>1, <1>7, Types DEF Entry, n
  <2>4. /\ \A q \in Providers : q # p => strays'[q] = strays[q]
        /\ strays'[p] = IF Misses(p, sec, t) THEN strays[p] + 1 ELSE strays[p]
    BY <1>1, <1>7, Types
  <2>10. \A q \in Providers : q # p => entries'[q] = entries[q] /\ strays'[q] = strays[q]
    BY <1>1, <1>7, Types
  <2>11. \A q \in Providers : /\ entries'[q].warm = entries[q].warm
                              /\ entries'[q].cleared = entries[q].cleared
    BY <1>1, <1>7, Types DEF Entry, n
  <2> HIDE DEF p, sec
  <2>5. \A q \in Providers : strays'[q] \in Nat /\ strays'[q] >= strays[q]
    <3>1. p \in Providers /\ \A q \in Providers : strays[q] \in Nat
      BY <1>1, <1>3
    <3> QED BY <3>1, <2>4
  <2>6. ASSUME NEW q \in Providers, NEW K \in SUBSET Kept(q, 0)
        PROVE  Cardinality(ClaimsIn(q, K)') + Cardinality(TokensIn(entries[q].held, K))
                   + strays[q]
                 <= Cardinality(ClaimsIn(q, K)) + Cardinality(TokensIn(entries'[q].held, K))
                   + strays'[q]
    <3>1. strays[q] \in Nat /\ Cardinality(ClaimsIn(q, K)) \in Nat
          /\ Cardinality(TokensIn(entries[q].held, K)) \in Nat
      BY <1>3, <1>5
    <3>2. CASE q # p
      <4>1. Cardinality(ClaimsIn(q, K)') = Cardinality(ClaimsIn(q, K))
        BY <3>2, <1>2
      <4>2. entries'[q] = entries[q] /\ strays'[q] = strays[q]
        BY <3>2, <2>10
      <4> QED BY <3>1, <4>1, <4>2
    <3>3. CASE q = p /\ Misses(p, sec, t)
      BY <3>1, <3>3, <1>2, <2>2, <2>3, <2>4
    <3>4. CASE q = p /\ ~Misses(p, sec, t)
      <4>1. CASE t = sec
        BY <3>1, <3>4, <4>1, <1>2, <2>2, <2>3, <2>4
      <4>2. CASE ~(t >= entries[p].cleared)
        <5>1. t \notin K
          BY <3>4, <4>2 DEF Kept
        <5> QED BY <3>1, <3>4, <5>1, <1>2, <2>2, <2>3, <2>4
      <4> QED BY <3>4, <4>1, <4>2 DEF Misses
    <3> QED BY <3>2, <3>3, <3>4
  <2>9. Finite'
    BY <1>2
  <2>7. Past' /\ Covered' /\ Backed' /\ Seen'
    BY <2>6, <2>9, <2>11, <1>1, Exchange
  <2>8. Owed' /\ NoOverplacement'
    BY <2>5, <1>4
  <2> QED BY <2>7, <2>8, <2>9
<1> QED BY <1>6, <1>7, Releases

\* Time and a growing pool.
LEMMA WorldBalance ==
    ASSUME TypeOK, Balance, UNCHANGED <<sources, entries, fetches, caller, strays>>,
           clock' \in Nat, clock' >= clock,
           \A p \in Providers : pool'[p] \in Nat /\ pool'[p] >= pool[p]
    PROVE  Balance'
<1> USE DEF Balance
<1>1. \A q \in Providers : \A W : ClaimsIn(q, W)' = ClaimsIn(q, W)
  BY DEF ClaimsIn, Claiming
<1>2. \A q \in Providers : \A k : Kept(q, k)' = Kept(q, k)
  BY DEF Kept
<1>3. clock \in Nat /\ Grace \in Nat
  BY Types, Constants
<1>4. Finite'
  BY DEF Finite, Claiming
<1>5. Past'
  <2>1. \A p \in Providers : entries[p].cleared \in Nat
    BY Numbers
  <2>2. \A f \in fetches : f.started \in Nat
    BY FetchNumbers
  <2> QED BY <2>1, <2>2, <1>3 DEF Past
<1>6. Covered'
  BY <1>1, <1>2 DEF Covered
<1>7. ASSUME NEW q \in Providers, NEW K, NEW a \in Nat,
             a + Cardinality(ClaimsIn(q, K))
               <= Spare(q) + Cardinality(TokensIn(entries[q].held, K))
      PROVE  a + Cardinality(ClaimsIn(q, K)')
               <= Spare(q)' + Cardinality(TokensIn(entries[q].held, K))
  <2>1. /\ pool[q] \in Nat /\ strays[q] \in Nat /\ Cardinality(ClaimsIn(q, K)) \in Nat
        /\ Cardinality(TokensIn(entries[q].held, K)) \in Nat
        /\ Spare(q) = pool[q] + strays[q] /\ Spare(q)' = pool'[q] + strays[q]
        /\ pool'[q] \in Nat /\ pool'[q] >= pool[q]
    BY ClaimsFinite, TokensFinite, Numbers DEF Spare
  <2>2. Cardinality(ClaimsIn(q, K)') = Cardinality(ClaimsIn(q, K))
    BY <1>1
  <2> QED BY <2>1, <2>2, <1>7
<1>8. Backed'
  <2> SUFFICES ASSUME NEW q \in Providers
               PROVE  entries[q].warm + Cardinality(ClaimsIn(q, Kept(q, 0))')
                        <= Spare(q)' + Cardinality(TokensIn(entries[q].held, Kept(q, 0)))
    BY <1>2 DEF Backed
  <2>1. PICK K : K = Kept(q, 0) /\ K = Kept(q, 0)'
    BY <1>2
  <2>2. entries[q].warm \in Nat
    BY Numbers
  <2>3. entries[q].warm + Cardinality(ClaimsIn(q, K))
          <= Spare(q) + Cardinality(TokensIn(entries[q].held, K))
    BY <2>1 DEF Backed
  <2>4. entries[q].warm + Cardinality(ClaimsIn(q, K)')
          <= Spare(q)' + Cardinality(TokensIn(entries[q].held, K))
    BY <2>2, <2>3, <1>7
  <2> QED BY <2>1, <2>4
<1>9. Seen'
  <2>1. ASSUME NEW f \in fetches, f.at = "read", Current(f)
        PROVE  f.saw + Cardinality(ClaimsIn(f.p, Kept(f.p, f.started - Grace))')
                 <= Spare(f.p)' + Cardinality(TokensIn(entries[f.p].held,
                                                      Kept(f.p, f.started - Grace)))
    <3>1. f.p \in Providers /\ f.saw \in Nat
      BY FetchNumbers
    <3>2. PICK K : K = Kept(f.p, f.started - Grace) /\ K = Kept(f.p, f.started - Grace)'
      BY <3>1, <1>2
    <3>3. f.saw + Cardinality(ClaimsIn(f.p, K))
            <= Spare(f.p) + Cardinality(TokensIn(entries[f.p].held, K))
      BY <3>2, <2>1 DEF Seen
    <3>4. f.saw + Cardinality(ClaimsIn(f.p, K)')
            <= Spare(f.p)' + Cardinality(TokensIn(entries[f.p].held, K))
      BY <3>1, <3>3, <1>7
    <3> QED BY <3>2, <3>4
  <2> QED BY <2>1, <1>2, FetchNumbers DEF Seen, Current
<1>10. NoOverplacement'
  <2> SUFFICES ASSUME NEW q \in Providers
               PROVE  Cardinality(Landing(q)') <= pool'[q] + strays[q]
    BY DEF NoOverplacement, Landing
  <2>1. Cardinality(Landing(q)) <= pool[q] + strays[q] /\ pool[q] \in Nat /\ strays[q] \in Nat
    BY LandingIs, Numbers DEF Spare
  <2>2. IsFiniteSet(Landing(q)) /\ Cardinality(Landing(q)) \in Nat
    BY ClaimsFinite
  <2>3. Landing(q)' \in SUBSET Landing(q)
    <3>1. \A d \in Claiming(q) : caller[d].sec \in Nat
      BY CallerNumbers DEF Claiming
    <3> QED BY <3>1, <1>3 DEF Landing, Claiming, InTime
  <2>4. Cardinality(Landing(q)') <= Cardinality(Landing(q)) /\ IsFiniteSet(Landing(q)')
    BY <2>2, <2>3, FS_Subset
  <2> QED BY <2>1, <2>2, <2>4, FS_CardinalityType
<1>11. Owed'
  BY DEF Owed, Orphans, Claiming
<1> QED BY <1>4, <1>5, <1>6, <1>8, <1>9, <1>10, <1>11

-----------------------------------------------------------------------------
(* Both halves, for each action.                                           *)

LEMMA Halves == IInv <=> Poll /\ Balance
  BY DEF IInv, Poll, Balance

\* The controller.
LEMMA OperatesStep ==
    ASSUME IInv, NEW p \in Providers, Operates(p)
    PROVE  IInv'
<1>1. Poll /\ Balance /\ TypeOK /\ Past
  BY Halves DEF IInv
<1>2. \A f \in fetches : f.p \in Providers /\ f.gen # 0 /\ f.started <= clock
  BY <1>1, FetchNumbers DEF Past
<1>3. ASSUME entries' = Known(p)
      PROVE  /\ entries' \in [Providers -> Entry]
             /\ \A q \in Providers : /\ entries'[q].held = entries[q].held
                                     /\ entries'[q].cleared = entries[q].cleared
                                     /\ entries'[q].warm = entries[q].warm
                                     /\ entries'[q].from = entries[q].from
                                     /\ entries[q].known => entries'[q].known
  <2> DEFINE e == [entries[p] EXCEPT !.known = TRUE]
  <2>1. /\ e \in Entry /\ e.held = entries[p].held /\ e.cleared = entries[p].cleared
        /\ e.warm = entries[p].warm /\ e.from = entries[p].from /\ e.known
    BY <1>1, Numbers DEF Entry
  <2>2. entries' = [entries EXCEPT ![p] = e]
    BY <1>1, <1>3, Types DEF Known, Entry
  <2> HIDE DEF e
  <2> QED BY <1>1, <2>1, <2>2, Types
<1>4. CASE AddSource(p)
  <2>1. Poll'
    BY <1>1, <1>4, AddSourcePoll
  <2>2. /\ sources' = Replaced(p) /\ UNCHANGED <<fetches, clock, caller, pool, strays>>
        /\ entries' = Known(p) /\ lastGen \in Nat
    BY <1>1, <1>4, Types DEF AddSource, world
  <2>3. sources'[p].gen = lastGen + 1
        /\ \A q \in Providers : q # p => sources'[q] = sources[q]
    BY <1>1, <2>2, Types DEF Replaced, Source
  <2>4. \A f \in fetches : f.gen \in Nat /\ f.gen # lastGen + 1
    BY <1>1, <2>2, FetchNumbers DEF Poll, Generations
  <2>5. \A f \in fetches' : Current(f)' => Current(f) /\ f \in fetches
    BY <1>2, <2>2, <2>3, <2>4 DEF Current
  <2>6. Balance'
    BY <1>1, <1>2, <1>3, <2>2, <2>5, BalanceFrame
  <2> QED BY <2>1, <2>6, Halves DEF IInv, Poll, Balance
<1>5. CASE RemoveSource(p)
  <2>1. Poll' /\ Balance'
    BY <1>1, <1>5, RemoveSourcePoll, RemoveSourceBalance DEF Balance
  <2> QED BY <2>1 DEF IInv, Poll, Balance
<1>6. CASE SetConfig(p)
  <2>1. /\ UNCHANGED <<schedule, fetches, clock, caller, pool, strays>>
        /\ entries' = Known(p)
    BY <1>6 DEF SetConfig, world
  <2>2. /\ clock \in Time /\ clock \in Nat /\ caller \in [Callers -> ClaimRec]
        /\ pool \in [Providers -> 0..MaxWarm] /\ strays \in [Providers -> 0..MaxStrays]
        /\ Generations
    BY <1>1, Types, Constants DEF Poll
  <2>3. Poll'
    BY <1>1, <1>3, <2>1, <2>2, PollFrame DEF Generations
  <2>4. \A f \in fetches' : Current(f)' => Current(f) /\ f \in fetches
    BY <2>1 DEF Current, schedule
  <2>5. Balance'
    BY <1>1, <1>2, <1>3, <2>1, <2>4, BalanceFrame
  <2> QED BY <2>3, <2>5 DEF IInv, Poll, Balance
<1>7. CASE Report(p)
  <2> DEFINE cutoff == clock - Grace
  <2>1. /\ UNCHANGED <<schedule, fetches, clock, caller, pool, strays>> /\ ~Registered(p)
    BY <1>1, <1>7, Types DEF Report, world
  <2>12. PICK left \in Cleared(entries[p].held, cutoff) :
            entries' = [entries EXCEPT ![p] =
                          Reported(entries[p], left, pool[p], cutoff, lastGen)]
    BY <1>1, <1>7, Types DEF Report
  <2>2. /\ clock \in Time /\ clock \in Nat /\ caller \in [Callers -> ClaimRec]
        /\ pool \in [Providers -> 0..MaxWarm] /\ strays \in [Providers -> 0..MaxStrays]
        /\ Generations /\ pool[p] \in 0..MaxWarm /\ pool[p] \in Nat
        /\ lastGen \in 0..MaxGen /\ Grace \in Nat
    BY <1>1, Types, Constants, Numbers DEF Poll
  <2>3. cutoff \in Int /\ cutoff <= clock /\ cutoff + Grace <= clock
    BY <2>2
  <2> HIDE DEF cutoff
  <2> DEFINE e == Reported(entries[p], left, pool[p], cutoff, lastGen)
  <2>4. e \in Entry /\ e.known /\ e.from = lastGen
    BY <1>1, <2>2, <2>3, ReportedIs
  <2> HIDE DEF e
  <2>5. /\ entries' \in [Providers -> Entry] /\ entries'[p] = e
        /\ \A q \in Providers : q # p => entries'[q] = entries[q]
    BY <1>1, <2>4, <2>12, Types DEF e
  <2>6. \A q \in Providers :
          /\ entries'[q].from <= lastGen
          /\ Registered(q) => entries'[q].known /\ entries'[q].from <= sources[q].gen
    BY <2>1, <2>2, <2>4, <2>5 DEF Generations
  <2>7. Poll'
    BY <1>1, <2>1, <2>2, <2>5, <2>6, PollFrame
  <2>8. \A f \in fetches' : Current(f)' => f \in fetches /\ Current(f) /\ f.p # p
    BY <1>2, <2>1 DEF Current, schedule, Registered
  <2>9. pool[p] + Cardinality(ClaimsIn(p, Kept(p, cutoff)))
          <= Spare(p) + Cardinality(TokensIn(entries[p].held, Kept(p, cutoff)))
    BY <1>1, PoolBalances DEF Balance
  <2>10. \A f \in fetches' : /\ f.p \in Providers /\ f.started <= clock
                             /\ f.at = "read" /\ Current(f)' =>
                                   f \in fetches /\ Current(f) /\ f.p # p
    BY <1>2, <2>1, <2>8
  <2>11. Balance'
    BY <1>1, <2>1, <2>2, <2>3, <2>9, <2>10, <2>12, ReportBalance
  <2> QED BY <2>7, <2>11 DEF IInv, Poll, Balance
<1>8. CASE \E d \in Intervals : SetRefreshInterval(p, d)
  <2>1. PICK d \in Intervals : SetRefreshInterval(p, d)
    BY <1>8
  <2>2. Poll'
    BY <1>1, <2>1, SetRefreshIntervalPoll
  <2>3. /\ UNCHANGED <<entries, fetches, clock, caller, pool, strays>>
        /\ sources' = [sources EXCEPT ![p].interval = d,
                         ![p].nextDue = Min({sources[p].nextDue, clock + d})]
    BY <2>1 DEF SetRefreshInterval, world
  <2>4. \A q \in Providers : sources'[q].gen = sources[q].gen
    BY <1>1, <2>3, Types DEF Source
  <2>5. \A f \in fetches' : Current(f)' => Current(f) /\ f \in fetches
    BY <1>2, <2>3, <2>4 DEF Current
  <2>6. Balance'
    BY <1>1, <1>2, <2>3, <2>5, BalanceFrame
  <2> QED BY <2>2, <2>6 DEF IInv, Poll, Balance
<1> QED BY <1>4, <1>5, <1>6, <1>7, <1>8 DEF Operates
LEMMA PollDueStep ==
    ASSUME IInv, PollDue
    PROVE  IInv'
<1>1. Poll /\ Balance /\ TypeOK /\ Past
  BY Halves DEF IInv
<1>2. Poll'
  BY <1>1, PollDuePoll
<1>3. \A f \in fetches : f.p \in Providers /\ f.started <= clock
  BY <1>1, FetchNumbers DEF Past
<1>4. /\ UNCHANGED <<entries, clock, caller, pool, strays>>
      /\ \A q \in Providers : sources'[q].gen = sources[q].gen
  <2>1. \A q \in Providers : sources[q] \in Source
    BY <1>1, Numbers
  <2> QED BY <2>1 DEF PollDue, world, Source
<1>5. \A f \in fetches' :
        f \in fetches \/ (f.p \in Providers /\ f.started = 0 /\ f.at = "new")
  <2>1. fetches' = fetches \cup
             {[p |-> p, gen |-> sources[p].gen, at |-> "new", started |-> 0,
               saw |-> 0] : p \in Due}
    BY DEF PollDue
  <2>2. Due \subseteq Providers
    BY DEF Due
  <2> QED BY <2>1, <2>2
<1>6. clock \in Nat
  BY <1>1, Types, Constants
<1>7. \A f \in fetches' : /\ f.p \in Providers /\ f.started <= clock
                          /\ f.at = "read" /\ Current(f)' => f \in fetches /\ Current(f)
  BY <1>3, <1>4, <1>5, <1>6 DEF Current
<1>8. Balance'
  BY <1>1, <1>4, <1>7, BalanceFrame
<1> QED BY <1>2, <1>8 DEF IInv, Poll, Balance

\* A fetch asks, hears the pool's size, and records it or not.
LEMMA PollsStep ==
    ASSUME IInv, NEW f \in fetches, Polls(f)
    PROVE  IInv'
<1>1. Poll /\ Balance /\ TypeOK /\ Past /\ Generations /\ Fetching
  BY Halves DEF IInv
<1>2. /\ \A g \in fetches : g.p \in Providers /\ g.started <= clock
      /\ f \in FetchRec /\ f.p \in Providers /\ f.gen \in 1..MaxGen
  BY <1>1, FetchNumbers DEF Past
<1>3. /\ clock \in Time /\ clock \in Nat /\ 0 \in Time /\ 0 \in 0..MaxWarm
      /\ entries \in [Providers -> Entry] /\ pool[f.p] \in 0..MaxWarm /\ pool[f.p] \in Nat
      /\ Grace \in Nat
      /\ \A p \in Providers :
            /\ entries[p].from <= lastGen
            /\ Registered(p) => entries[p].known /\ entries[p].from <= sources[p].gen
  BY <1>1, <1>2, Types, Constants, Numbers DEF Generations
<1>4. CASE Start(f)
  <2> DEFINE g == [f EXCEPT !.at = "out", !.started = clock]
  <2>1. g \in FetchRec /\ g.p = f.p /\ g.gen = f.gen /\ g.at = "out" /\ g.started = clock
    BY <1>2, <1>3 DEF FetchRec
  <2>2. Moved(f, g) /\ UNCHANGED <<schedule, entries, caller, clock, pool, strays>>
    BY <1>4 DEF Start, world
  <2> HIDE DEF g
  <2>3. Poll'
    BY <1>1, <1>3, <2>1, <2>2, MovedPoll
  <2>4. \A x \in fetches' : /\ x.p \in Providers /\ x.started <= clock
                            /\ x.at = "read" /\ Current(x)' => x \in fetches /\ Current(x)
    BY <1>2, <1>3, <2>1, <2>2 DEF Moved, Current, schedule
  <2>5. Balance'
    BY <1>1, <2>2, <2>4, BalanceFrame
  <2> QED BY <2>3, <2>5 DEF IInv, Poll, Balance
<1>5. CASE Fetch(f)
  <2> DEFINE g == [f EXCEPT !.at = "read", !.saw = pool[f.p]]
  <2>1. /\ g \in FetchRec /\ g.p = f.p /\ g.gen = f.gen /\ g.at = "read"
        /\ g.started = f.started /\ g.saw = pool[f.p]
    BY <1>2, <1>3 DEF FetchRec
  <2>2. Moved(f, g) /\ UNCHANGED <<schedule, entries, caller, clock, pool, strays>>
    BY <1>5 DEF Fetch, world
  <2> HIDE DEF g
  <2>3. Poll'
    BY <1>1, <1>3, <2>1, <2>2, MovedPoll
  <2>4. fetches' = (fetches \ {f}) \cup {g} /\ UNCHANGED sources
    BY <2>2 DEF Moved, schedule
  <2>5. \A q \in Providers : \A W : ClaimsIn(q, W)' = ClaimsIn(q, W)
    BY <2>2 DEF ClaimsIn, Claiming
  <2>6. \A q \in Providers : \A k : Kept(q, k)' = Kept(q, k)
    BY <2>2 DEF Kept
  <2>7. Finite' /\ Past' /\ Covered' /\ Backed' /\ Owed' /\ NoOverplacement'
    <3>1. Finite' /\ Owed' /\ NoOverplacement'
      BY <1>1, <2>2 DEF Balance, Finite, Owed, Orphans, NoOverplacement, Claiming, InTime
    <3>2. Past'
      BY <1>1, <1>2, <2>1, <2>2, <2>4 DEF Past
    <3>3. Covered' /\ Backed'
      BY <1>1, <2>2, <2>5, <2>6 DEF Balance, Covered, Backed, Spare
    <3> QED BY <3>1, <3>2, <3>3
  <2>8. Seen'
    <3>1. g.saw + Cardinality(ClaimsIn(g.p, Kept(g.p, g.started - Grace)))
            <= Spare(g.p) + Cardinality(TokensIn(entries[g.p].held,
                                                 Kept(g.p, g.started - Grace)))
      BY <1>1, <1>2, <2>1, PoolBalances DEF Balance
    <3>2. Seen
      BY <1>1 DEF Balance
    <3>3. \A q \in Providers : Spare(q)' = Spare(q)
      BY <2>2 DEF Spare
    <3> QED BY <3>1, <3>2, <3>3, <1>2, <2>1, <2>2, <2>4, <2>5, <2>6 DEF Seen, Current
  <2> QED BY <2>3, <2>7, <2>8 DEF IInv, Poll, Balance
<1>6. CASE Record(f) \/ FetchFails(f)
  <2> DEFINE g == [f EXCEPT !.at = "done", !.started = 0, !.saw = 0]
  <2>1. g \in FetchRec /\ g.p = f.p /\ g.gen = f.gen /\ g.at = "done" /\ g.started = 0
    BY <1>2, <1>3 DEF FetchRec
  <2>2. Moved(f, g) /\ UNCHANGED <<schedule, caller, clock, pool, strays>>
    BY <1>6 DEF Record, FetchFails, Done, world
  <2> HIDE DEF g
  <2>3. fetches' = (fetches \ {f}) \cup {g} /\ UNCHANGED sources
    BY <2>2 DEF Moved, schedule
  <2>4. CASE entries' = entries
    <3>1. Poll'
      BY <1>1, <1>3, <2>1, <2>2, <2>4, MovedPoll
    <3>2. \A x \in fetches' : /\ x.p \in Providers /\ x.started <= clock
                              /\ x.at = "read" /\ Current(x)' => x \in fetches /\ Current(x)
      BY <1>2, <1>3, <2>1, <2>3 DEF Current
    <3>3. Balance'
      BY <1>1, <2>2, <2>4, <3>2, BalanceFrame
    <3> QED BY <3>1, <3>3 DEF IInv, Poll, Balance
  <2>5. CASE Record(f) /\ Current(f)
             /\ \E left \in Cleared(entries[f.p].held, f.started - Grace) :
                  entries' = [entries EXCEPT ![f.p] =
                                Reported(entries[f.p], left, f.saw, f.started - Grace, f.gen)]
    <3> DEFINE p == f.p
               cutoff == f.started - Grace
    <3>1. /\ f.saw \in 0..MaxWarm /\ f.gen \in 0..MaxGen /\ f.gen <= lastGen
          /\ f.started \in Nat /\ f.started <= clock /\ f.at = "read"
      BY <1>1, <1>2, <2>5, FetchNumbers DEF Generations, Record
    <3>2. cutoff \in Int /\ cutoff <= clock /\ cutoff + Grace <= clock
      BY <1>3, <3>1
    <3>3. PICK left \in Cleared(entries[p].held, cutoff) :
            entries' = [entries EXCEPT ![p] = Reported(entries[p], left, f.saw, cutoff, f.gen)]
      BY <2>5
    <3>4. f.saw + Cardinality(ClaimsIn(p, Kept(p, cutoff)))
            <= Spare(p) + Cardinality(TokensIn(entries[p].held, Kept(p, cutoff)))
      BY <1>1, <2>5, <3>1 DEF Balance, Seen
    <3>5. p \in Providers /\ sources[p].gen = f.gen
      BY <1>2, <2>5 DEF Current
    <3> HIDE DEF p, cutoff
    <3> DEFINE e == Reported(entries[p], left, f.saw, cutoff, f.gen)
    <3>6. e \in Entry /\ e.known /\ e.from = f.gen
      BY <1>1, <3>1, <3>2, <3>5, ReportedIs
    <3> HIDE DEF e
    <3>7. /\ entries' \in [Providers -> Entry] /\ entries'[p] = e
          /\ \A q \in Providers : q # p => entries'[q] = entries[q]
      BY <1>3, <3>3, <3>5, <3>6 DEF e
    <3>8. \A q \in Providers :
            /\ entries'[q].from <= lastGen
            /\ Registered(q) => entries'[q].known /\ entries'[q].from <= sources[q].gen
      BY <1>2, <1>3, <3>1, <3>5, <3>6, <3>7, Constants DEF Registered
    <3>9. Poll'
      BY <1>1, <2>1, <2>2, <3>7, <3>8, MovedPoll
    <3>10. \A x \in fetches' : /\ x.p \in Providers /\ x.started <= clock
                               /\ x.at = "read" /\ Current(x)' =>
                                     x \in fetches /\ Current(x) /\ x.p # p
      <4>1. \A x \in fetches : x.p = p /\ Current(x) => x = f
        <5>1. f.p = p
          BY DEF p
        <5>2. \A x \in fetches : x.p = p /\ Current(x) => x.p = f.p /\ x.gen = f.gen
          BY <2>5, <5>1 DEF Current
        <5>3. \A x, y \in fetches : x.p = y.p /\ x.gen = y.gen => x = y
          BY <1>1 DEF Fetching
        <5> QED BY <5>2, <5>3
      <4> QED BY <4>1, <1>2, <1>3, <2>1, <2>3 DEF Current
    <3>11. Balance'
      BY <1>1, <2>2, <3>1, <3>2, <3>3, <3>4, <3>5, <3>10, ReportBalance
    <3> QED BY <3>9, <3>11 DEF IInv, Poll, Balance
  <2> QED BY <1>6, <2>4, <2>5 DEF Record, FetchFails
<1>7. CASE Finish(f)
  <2>1. Poll'
    BY <1>1, <1>7, FinishPoll
  <2>2. /\ fetches' = fetches \ {f} /\ UNCHANGED <<entries, caller, clock, pool, strays>>
        /\ \A q \in Providers : sources'[q].gen = sources[q].gen
    BY <1>1, <1>2, <1>7, Types DEF Finish, world, Source
  <2>3. \A x \in fetches' : /\ x.p \in Providers /\ x.started <= clock
                            /\ x.at = "read" /\ Current(x)' => x \in fetches /\ Current(x)
    BY <1>2, <2>2 DEF Current
  <2>4. Balance'
    BY <1>1, <2>2, <2>3, BalanceFrame
  <2> QED BY <2>1, <2>4 DEF IInv, Poll, Balance
<1> QED BY <1>4, <1>5, <1>6, <1>7 DEF Polls

\* The callers.
LEMMA CallerStep ==
    ASSUME IInv, NEW c \in Callers,
           \/ \E p \in Providers : Load(c, p)
           \/ TryReserveWarm(c) \/ NotReserved(c)
           \/ Lands(c) \/ ReleaseReservationTicket(c)
    PROVE  IInv'
<1>1. Poll /\ Balance /\ TypeOK /\ Generations
  BY Halves DEF IInv
<1>2. /\ clock \in Time /\ clock \in Nat /\ strays \in [Providers -> 0..MaxStrays]
      /\ caller \in [Callers -> ClaimRec] /\ caller[c] \in ClaimRec
      /\ entries \in [Providers -> Entry] /\ pool \in [Providers -> 0..MaxWarm]
      /\ \A q \in Providers :
            /\ entries[q].from <= lastGen
            /\ Registered(q) => entries[q].known /\ entries[q].from <= sources[q].gen
  BY <1>1, Types, Constants DEF Generations
<1>3. NoClaim \in ClaimRec
  BY NoTypes
<1>4. ASSUME NEW p \in Providers, NEW h \in [Time -> 0..MaxWarm],
             entries' = [entries EXCEPT ![p].held = h]
      PROVE  /\ entries' \in [Providers -> Entry]
             /\ \A q \in Providers :
                   /\ entries'[q].from <= lastGen
                   /\ Registered(q) => /\ entries'[q].known
                                       /\ entries'[q].from <= sources[q].gen
  <2> DEFINE e == [entries[p] EXCEPT !.held = h]
  <2>1. e \in Entry /\ e.from = entries[p].from /\ e.known = entries[p].known
    BY <1>2 DEF Entry
  <2>2. entries' = [entries EXCEPT ![p] = e]
    BY <1>2, <1>4 DEF Entry
  <2> HIDE DEF e
  <2> QED BY <1>2, <2>1, <2>2
<1>8. ASSUME NEW x \in ClaimRec, x.at # "claiming", caller[c].at # "claiming",
             caller' = [caller EXCEPT ![c] = x],
             UNCHANGED <<schedule, fetches, clock, entries, pool, strays>>
      PROVE  IInv'
  <2>1. caller' \in [Callers -> ClaimRec] /\ clock' \in Time /\ clock' >= clock
    BY <1>2, <1>8
  <2>2. Poll'
    BY <1>1, <1>2, <1>8, <2>1, PollFrame
  <2>3. Balance'
    BY <1>1, <1>8, <2>2, LoadedBalance DEF Poll, schedule
  <2> QED BY <2>2, <2>3 DEF IInv, Poll, Balance
<1>9. CASE \E p \in Providers : Load(c, p)
  <2>1. PICK p \in Providers : Load(c, p)
    BY <1>9
  <2> DEFINE x == [NoClaim EXCEPT !.at = "loaded", !.p = p, !.sec = clock]
  <2>2. x \in ClaimRec /\ x.at = "loaded"
    BY <1>2, <1>3 DEF ClaimRec
  <2>3. /\ caller' = [caller EXCEPT ![c] = x] /\ caller[c].at = "idle"
        /\ UNCHANGED <<schedule, fetches, clock, entries, pool, strays>>
    BY <2>1 DEF Load, world
  <2> HIDE DEF x
  <2> QED BY <1>8, <2>2, <2>3
<1>10. CASE NotReserved(c)
  <2>1. /\ caller' = [caller EXCEPT ![c] = NoClaim] /\ caller[c].at = "loaded"
        /\ UNCHANGED <<schedule, fetches, clock, entries, pool, strays>>
    BY <1>10 DEF NotReserved, world
  <2>2. NoClaim.at = "idle"
    BY DEF NoClaim
  <2> QED BY <1>3, <1>8, <2>1, <2>2
<1>11. ASSUME NEW p \in Providers, strays[p] < MaxStrays,
              strays' = [strays EXCEPT ![p] = @ + 1]
       PROVE  strays' \in [Providers -> 0..MaxStrays]
  <2>1. strays[p] \in 0..MaxStrays /\ MaxStrays \in Nat
    BY <1>2, Constants
  <2>2. strays[p] + 1 \in 0..MaxStrays
    BY <2>1, <1>11
  <2> QED BY <2>2, <1>2, <1>11
<1>5. CASE TryReserveWarm(c)
  <2> DEFINE p == caller[c].p
             x(sec) == [caller[c] EXCEPT !.at = "claiming", !.sec = sec]
             n(sec) == [entries[p].held EXCEPT ![sec] = @ + 1]
  <2>1. PICK sec \in Time :
          /\ p \in Providers
          /\ caller' = [caller EXCEPT ![c] = x(sec)]
          /\ \/ strays[p] < MaxStrays /\ strays' = [strays EXCEPT ![p] = @ + 1]
             \/ UNCHANGED strays
          /\ \/ UNCHANGED entries
             \/ /\ n(sec) \in [Time -> 0..MaxWarm]
                /\ entries' = [entries EXCEPT ![p].held = n(sec)]
          /\ UNCHANGED <<schedule, fetches, clock, pool>>
    BY <1>1, <1>5, Reserves
  <2>2. x(sec) \in ClaimRec
    BY <1>2 DEF ClaimRec
  <2> HIDE DEF p, x, n
  <2>3. caller' \in [Callers -> ClaimRec] /\ clock' \in Time /\ clock' >= clock
    BY <1>2, <2>1, <2>2
  <2>4. strays' \in [Providers -> 0..MaxStrays]
    BY <1>2, <1>11, <2>1
  <2>5. /\ entries' \in [Providers -> Entry]
        /\ \A q \in Providers :
              /\ entries'[q].from <= lastGen
              /\ Registered(q) => entries'[q].known /\ entries'[q].from <= sources[q].gen
    BY <1>2, <1>4, <2>1
  <2>6. Poll'
    BY <1>1, <1>2, <2>1, <2>3, <2>4, <2>5, PollFrame
  <2>7. Balance'
    BY <1>1, <1>5, <2>6, ReserveBalance DEF Poll
  <2> QED BY <2>6, <2>7 DEF IInv, Poll, Balance
<1>6. CASE Lands(c)
  <2>1. /\ UNCHANGED <<schedule, fetches, clock, entries, strays>>
        /\ caller' = [caller EXCEPT ![c] = NoClaim]
        /\ pool[caller[c].p] > 0 /\ pool' = [pool EXCEPT ![caller[c].p] = @ - 1]
    BY <1>6 DEF Lands
  <2>2. caller' \in [Callers -> ClaimRec] /\ clock' \in Time /\ clock' >= clock
    BY <1>2, <1>3, <2>1
  <2>3. pool' \in [Providers -> 0..MaxWarm]
    <3>1. caller[c].p \in Providers /\ MaxWarm \in Nat
      BY <1>1, CallerNumbers, Constants
    <3>2. pool[caller[c].p] \in 0..MaxWarm
      BY <1>2, <3>1
    <3>3. pool[caller[c].p] - 1 \in 0..MaxWarm
      BY <2>1, <3>1, <3>2
    <3> QED BY <1>2, <2>1, <3>1, <3>3
  <2>4. Poll'
    BY <1>1, <1>2, <2>1, <2>2, <2>3, PollFrame
  <2>5. Balance'
    BY <1>1, <1>6, LandsBalance
  <2> QED BY <2>4, <2>5 DEF IInv, Poll, Balance
<1>7. CASE ReleaseReservationTicket(c)
  <2> DEFINE p == caller[c].p
             n(t) == [entries[p].held EXCEPT ![t] = @ - 1]
  <2>1. /\ p \in Providers /\ caller' = [caller EXCEPT ![c] = NoClaim]
        /\ UNCHANGED <<schedule, fetches, clock, pool>>
        /\ \/ UNCHANGED strays
           \/ strays[p] < MaxStrays /\ strays' = [strays EXCEPT ![p] = @ + 1]
        /\ \/ UNCHANGED entries
           \/ \E t \in Time : /\ n(t) \in [Time -> 0..MaxWarm]
                              /\ entries' = [entries EXCEPT ![p].held = n(t)]
    BY <1>1, <1>7, Releases DEF ReleaseReservationTicket, world
  <2> HIDE DEF p, n
  <2>3. caller' \in [Callers -> ClaimRec] /\ clock' \in Time /\ clock' >= clock
    BY <1>2, <1>3, <2>1
  <2>4. strays' \in [Providers -> 0..MaxStrays]
    BY <1>2, <1>11, <2>1
  <2>5. /\ entries' \in [Providers -> Entry]
        /\ \A q \in Providers :
              /\ entries'[q].from <= lastGen
              /\ Registered(q) => entries'[q].known /\ entries'[q].from <= sources[q].gen
    BY <1>2, <1>4, <2>1
  <2>6. Poll'
    BY <1>1, <1>2, <2>1, <2>3, <2>4, <2>5, PollFrame
  <2>7. Balance'
    BY <1>1, <1>7, <2>6, ReleaseBalance DEF Poll
  <2> QED BY <2>6, <2>7 DEF IInv, Poll, Balance
<1> QED BY <1>5, <1>6, <1>7, <1>9, <1>10

LEMMA WorldStep ==
    ASSUME IInv, Tick \/ \E p \in Providers : Replenish(p)
    PROVE  IInv'
<1>1. Poll /\ Balance /\ TypeOK /\ Generations
  BY Halves DEF IInv
<1>2. /\ clock \in Time /\ clock \in Nat /\ strays \in [Providers -> 0..MaxStrays] /\ MaxTime \in Nat
      /\ caller \in [Callers -> ClaimRec] /\ MaxWarm \in Nat
      /\ entries \in [Providers -> Entry] /\ pool \in [Providers -> 0..MaxWarm]
      /\ \A q \in Providers :
            /\ entries[q].from <= lastGen
            /\ Registered(q) => entries[q].known /\ entries[q].from <= sources[q].gen
  BY <1>1, Types, Constants DEF Generations
<1>3. UNCHANGED <<schedule, entries, fetches, caller, strays>>
  BY DEF Tick, Replenish
<1>4. clock' \in Time /\ clock' \in Nat /\ clock' >= clock
  BY <1>2 DEF Tick, Replenish, Time
<1>5. /\ pool' \in [Providers -> 0..MaxWarm]
      /\ \A q \in Providers : pool'[q] \in Nat /\ pool'[q] >= pool[q]
  <2>1. CASE Tick
    BY <1>2, <2>1 DEF Tick
  <2>2. CASE \E p \in Providers : Replenish(p)
    <3>1. PICK p \in Providers : pool[p] < MaxWarm /\ pool' = [pool EXCEPT ![p] = @ + 1]
      BY <2>2 DEF Replenish
    <3>2. pool[p] \in 0..MaxWarm /\ pool[p] + 1 \in 0..MaxWarm
      BY <1>2, <3>1
    <3> QED BY <1>2, <3>1, <3>2
  <2> QED BY <2>1, <2>2
<1>6. Poll'
  BY <1>1, <1>2, <1>3, <1>4, <1>5, PollFrame
<1>7. Balance'
  BY <1>1, <1>3, <1>4, <1>5, WorldBalance DEF schedule
<1> QED BY <1>6, <1>7 DEF IInv, Poll, Balance
-----------------------------------------------------------------------------
(* The invariant and what follows from it.                                 *)

LEMMA InitIInv == Init => IInv
<1> SUFFICES ASSUME Init PROVE IInv
  OBVIOUS
<1>1. /\ \A p \in Providers : sources[p] = NoSource /\ entries[p] = NoEntry /\ pool[p] = MaxWarm
      /\ \A c \in Callers : caller[c] = NoClaim
      /\ fetches = {} /\ lastGen = 0 /\ clock = 0 /\ timerAt = 0 /\ wake = FALSE
      /\ strays = [p \in Providers |-> 0]
  BY DEF Init
<1>2. NoSource.gen = 0 /\ NoSource.inFlight = FALSE /\ NoEntry.from = 0
      /\ NoEntry.warm = 0 /\ NoEntry.cleared = 0 /\ NoClaim.at = "idle"
  BY DEF NoSource, NoEntry, NoClaim
<1>3. TypeOK
  <2>1. /\ sources \in [Providers -> Source] /\ entries \in [Providers -> Entry]
        /\ caller \in [Callers -> ClaimRec]
    BY NoTypes DEF Init
  <2>2. pool \in [Providers -> 0..MaxWarm]
    BY Constants DEF Init
  <2>3. 0 \in Time /\ 0 \in 0..MaxGen /\ strays \in [Providers -> 0..MaxStrays]
    BY <1>1, Constants
  <2> QED BY <1>1, <2>1, <2>2, <2>3, Types
<1>4. Generations /\ Fetching /\ NeverOversleeps
  BY <1>1, <1>2 DEF Generations, Fetching, NeverOversleeps, Free, Registered
<1>5. \A p \in Providers : Claiming(p) = {} /\ Landing(p) = {} /\ Orphans(p) = {}
                           /\ Spare(p) = MaxWarm /\ strays[p] = 0
                           /\ \A W : ClaimsIn(p, W) = {}
  BY <1>1, <1>2, Constants DEF Claiming, Landing, ClaimsIn, Orphans, Spare
<1>6. IsFiniteSet({}) /\ Cardinality({}) = 0
  BY FS_EmptySet
<1>7. Finite /\ Past /\ Seen /\ Owed
  <2>1. Finite /\ Past /\ Seen
    BY <1>1, <1>2, <1>5, <1>6 DEF Finite, Past, Seen
  <2>2. Owed
    BY <1>5, <1>6 DEF Owed
  <2> QED BY <2>1, <2>2
<1>8. Covered
  BY <1>5, <1>6, TokensFinite DEF Covered
<1>9. Backed
  <2>1. \A p \in Providers : /\ entries[p].warm = 0 /\ Spare(p) \in Nat
                             /\ Cardinality(ClaimsIn(p, Kept(p, 0))) = 0
                             /\ Cardinality(TokensIn(entries[p].held, Kept(p, 0))) \in Nat
    BY <1>1, <1>2, <1>5, <1>6, TokensFinite, Constants
  <2> QED BY <2>1 DEF Backed
<1>10. NoOverplacement
  BY <1>1, <1>5, <1>6, LandingIs, Constants
<1> QED BY <1>3, <1>4, <1>7, <1>8, <1>9, <1>10 DEF IInv

LEMMA NextIInv == IInv /\ [Next]_vars => IInv'
<1> SUFFICES ASSUME IInv, [Next]_vars PROVE IInv'
  OBVIOUS
<1>1. CASE \E p \in Providers : Operates(p) \/ Replenish(p)
  BY <1>1, OperatesStep, WorldStep
<1>2. CASE PollDue
  BY <1>2, PollDueStep
<1>3. CASE \E f \in fetches : Polls(f)
  BY <1>3, PollsStep
<1>4. CASE \E c \in Callers : \/ \E p \in Providers : Load(c, p)
                              \/ TryReserveWarm(c) \/ NotReserved(c)
                              \/ Lands(c) \/ ReleaseReservationTicket(c)
  BY <1>4, CallerStep
<1>5. CASE Tick
  BY <1>5, WorldStep
<1>6. CASE UNCHANGED vars
  <2>1. Poll /\ Balance /\ TypeOK
    BY Halves DEF IInv
  <2>2. UNCHANGED <<clock, sources, lastGen, wake, timerAt, entries, fetches, caller, pool,
                    strays>>
    BY <1>6 DEF vars
  <2>3. Poll'
    BY <2>1, <2>2 DEF Poll, TypeOK, Generations, Fetching, NeverOversleeps, Registered,
       Current, Free
  <2>4. Balance'
    <3>1. clock \in Nat /\ \A p \in Providers : pool[p] \in Nat
      BY <2>1, Types, Constants, Numbers
    <3> QED BY <2>1, <2>2, <3>1, WorldBalance
  <2> QED BY <2>3, <2>4 DEF IInv, Poll, Balance
<1> QED BY <1>1, <1>2, <1>3, <1>4, <1>5, <1>6 DEF Next

\* Every reachable state has the invariant the theorems below are read from.
THEOREM Invariance == Spec => []IInv
  BY InitIInv, NextIInv, PTL DEF Spec

\* However late reports are read and recorded, every claim that was granted a warm
\* sandbox (TryReserveWarm) and may still land finds one in its provider's pool, but
\* for as many as there were reservations the provider's ledger lost.
THEOREM NoOverplacementAlways == Spec => []NoOverplacement
<1>1. IInv => NoOverplacement
  BY DEF IInv
<1> QED BY <1>1, Invariance, PTL

\* pollDue and the goroutines it starts: a source's slot is taken exactly while one
\* fetch of it is in flight.
THEOREM OnePollAlways == Spec => []OnePoll
<1>1. IInv => OnePoll
  <2> SUFFICES ASSUME IInv, NEW p \in Providers
               PROVE  Cardinality({f \in fetches : Registered(p) /\ f.p = p /\ Current(f)})
                        = IF sources[p].inFlight THEN 1 ELSE 0
    BY DEF OnePoll, IInv
  <2> DEFINE S == {f \in fetches : Registered(p) /\ f.p = p /\ Current(f)}
  <2>1. sources[p].inFlight <=> S # {}
    BY DEF IInv, Fetching
  <2>2. \A f, g \in S : f = g
    BY DEF IInv, Fetching, Current
  <2> HIDE DEF S
  <2>3. CASE S = {}
    BY <2>1, <2>3, FS_EmptySet DEF S
  <2>4. CASE S # {}
    <3>1. PICK f \in S : S = {f}
      BY <2>2, <2>4
    <3>2. Cardinality(S) = 1
      BY <3>1, FS_Singleton
    <3> QED BY <2>1, <2>4, <3>2 DEF S
  <2> QED BY <2>3, <2>4
<1> QED BY <1>1, Invariance, PTL

\* Run: a source that is free has a token waiting or a timer that fires in time.
THEOREM NeverOversleepsAlways == Spec => []NeverOversleeps
<1>1. IInv => NeverOversleeps
  BY DEF IInv
<1> QED BY <1>1, Invariance, PTL

\* poll and RemoveSource: no answer of a source that was replaced or removed lands
\* after a later one's, nor brings a provider back.
THEOREM NoOldAnswerAlways == Spec => NoOldAnswer
<1> DEFINE Calm == \A p \in Providers :
                      /\ entries'[p].known => entries'[p].from >= entries[p].from
                      /\ entries'[p].known /\ ~entries[p].known => fetches' = fetches
<1>1. IInv /\ [Next]_vars => [Calm]_vars
  <2> SUFFICES ASSUME IInv, Next PROVE Calm
    OBVIOUS
  <2>1. TypeOK /\ Generations
    BY DEF IInv
  <2>2. \A p \in Providers : entries[p].from \in Nat /\ entries[p] \in Entry
    BY <2>1, Numbers
  <2>3. ASSUME UNCHANGED entries PROVE Calm
    BY <2>2, <2>3
  <2>4. ASSUME NEW p \in Providers, NEW e, entries' = [entries EXCEPT ![p] = e],
               e.known => e.from >= entries[p].from,
               e.known /\ ~entries[p].known => fetches' = fetches
        PROVE  Calm
    <3>1. entries'[p] = e /\ \A q \in Providers : q # p => entries'[q] = entries[q]
      BY <2>1, <2>4, Types
    <3> QED BY <2>2, <2>4, <3>1
  <2> HIDE DEF Calm
  <2>5. ASSUME NEW p \in Providers, AddSource(p) \/ SetConfig(p) PROVE Calm
    <3> DEFINE e == [entries[p] EXCEPT !.known = TRUE]
    <3>1. entries' = [entries EXCEPT ![p] = e] /\ fetches' = fetches
      BY <2>1, <2>5, Types DEF AddSource, SetConfig, Known, Entry
    <3>2. e.from = entries[p].from
      BY <2>2 DEF Entry
    <3> HIDE DEF e
    <3>3. e.from >= entries[p].from
      BY <2>2, <3>2
    <3> QED BY <2>4, <3>1, <3>3
  <2>6. ASSUME NEW p \in Providers, RemoveSource(p) PROVE Calm
    <3>1. entries' = [entries EXCEPT ![p] = NoEntry]
      BY <2>6 DEF RemoveSource
    <3>2. NoEntry.known = FALSE
      BY DEF NoEntry
    <3> QED BY <2>4, <3>1, <3>2
  <2>7. ASSUME NEW p \in Providers, Report(p) PROVE Calm
    <3>1. PICK left :
            entries' = [entries EXCEPT ![p] =
                          Reported(entries[p], left, pool[p], clock - Grace, lastGen)]
      BY <2>1, <2>7, Types DEF Report
    <3> DEFINE e == Reported(entries[p], left, pool[p], clock - Grace, lastGen)
    <3>2. e.from = lastGen /\ fetches' = fetches
      BY <2>2, <2>7 DEF Reported, Entry, Report
    <3>4. entries' = [entries EXCEPT ![p] = e]
      BY <3>1
    <3>3. lastGen \in Nat /\ entries[p].from <= lastGen
      BY <2>1, Numbers DEF Generations
    <3> HIDE DEF e
    <3> QED BY <2>2, <2>4, <3>2, <3>3, <3>4
  <2>8. ASSUME NEW f \in fetches, Record(f) PROVE Calm
    <3>1. CASE Current(f) /\ entries[f.p].known
      <4>1. PICK left :
              entries' = [entries EXCEPT ![f.p] =
                            Reported(entries[f.p], left, f.saw, f.started - Grace, f.gen)]
        BY <2>1, <2>8, <3>1, Types DEF Record
      <4> DEFINE e == Reported(entries[f.p], left, f.saw, f.started - Grace, f.gen)
      <4>2. e.from = f.gen /\ f.p \in Providers /\ f.gen \in Nat /\ f.gen # 0
        BY <2>1, <2>2, FetchNumbers DEF Reported, Entry
      <4>3. entries[f.p].from <= f.gen
        BY <2>1, <3>1, <4>2 DEF Generations, Current, Registered
      <4>4. entries' = [entries EXCEPT ![f.p] = e]
        BY <4>1
      <4> HIDE DEF e
      <4> QED BY <2>2, <2>4, <3>1, <4>2, <4>3, <4>4
    <3>2. CASE ~(Current(f) /\ entries[f.p].known)
      BY <2>3, <2>8, <3>2 DEF Record
    <3> QED BY <3>1, <3>2
  <2>9. ASSUME NEW p \in Providers, NEW h, entries' = [entries EXCEPT ![p].held = h]
        PROVE  Calm
    <3> DEFINE e == [entries[p] EXCEPT !.held = h]
    <3>1. entries' = [entries EXCEPT ![p] = e]
      BY <2>1, <2>9, Types
    <3>2. e.from = entries[p].from /\ e.known = entries[p].known
      BY <2>2 DEF Entry
    <3> HIDE DEF e
    <3>3. e.from >= entries[p].from /\ ~(e.known /\ ~entries[p].known)
      BY <2>2, <3>2
    <3> QED BY <2>4, <3>1, <3>3
  <2>10. ASSUME NEW c \in Callers, TryReserveWarm(c) \/ ReleaseReservationTicket(c) PROVE Calm
    <3>1. \/ UNCHANGED entries
          \/ \E p \in Providers : \E h : entries' = [entries EXCEPT ![p].held = h]
      BY <2>1, <2>10, Reserves, Releases
    <3> QED BY <2>3, <2>9, <3>1
  <2>11. ASSUME NEW c \in Callers, (\E p \in Providers : Load(c, p)) \/ NotReserved(c)
         PROVE Calm
    BY <2>3, <2>11 DEF Load, NotReserved
  <2>12. CASE \E p \in Providers : Operates(p) \/ Replenish(p)
    BY <2>12, <2>3, <2>5, <2>6, <2>7 DEF Operates, SetRefreshInterval, Replenish
  <2>13. CASE PollDue
    BY <2>13, <2>3 DEF PollDue
  <2>14. CASE \E f \in fetches : Polls(f)
    BY <2>14, <2>3, <2>8 DEF Polls, Start, Fetch, FetchFails, Finish
  <2>15. CASE \E c \in Callers : \/ \E p \in Providers : Load(c, p)
                                 \/ TryReserveWarm(c) \/ NotReserved(c)
                                 \/ Lands(c) \/ ReleaseReservationTicket(c)
    BY <2>15, <2>3, <2>10, <2>11 DEF Lands
  <2>16. CASE Tick
    BY <2>16, <2>3 DEF Tick
  <2> QED BY <2>12, <2>13, <2>14, <2>15, <2>16 DEF Next
<1> QED BY <1>1, Invariance, PTL DEF Spec, NoOldAnswer

=============================================================================
