---------------------------- MODULE FlightsProofs ---------------------------
(***************************************************************************)
(* Proofs about Flights for any requests, releasers, keys, specs and       *)
(* providers and every size of the cache: a key never has two sandboxes,   *)
(* a request gets no sandbox of another spec, the cache stays within its   *)
(* cap, and what it replays is there.                                      *)
(*                                                                         *)
(* The first rests on Backed: a live sandbox whose key was not let out of  *)
(* the flights' care is known to the cache, or the time until which an     *)
(* evicted flight would have lasted covers it, or its flight is about to   *)
(* say that its outcome is unknown, or has.  So whoever leads the next     *)
(* flight of the key looks the key up, and what it has still to look at,   *)
(* LeaderOK, covers every sandbox there is.                                *)
(***************************************************************************)
EXTENDS Flights, TLAPS, FiniteSetTheorems, SequenceTheorems

Places == {"new", "join", "wait", "lead", "probe", "claim", "succeed", "fail", "lose"}
             \cup Over

LeadPlaces == {"lead", "probe", "claim", "succeed", "fail", "lose"}

Leads(r) == req[r].at \in LeadPlaces

\* The places of a request that has claimed, or may have.
Claimed == {"succeed", "lose", "ok", "unknown"}

-----------------------------------------------------------------------------
(* The records of requests, entries and releases.                          *)

\* What holds of a request by its place.
ReqOK(r) ==
    /\ req[r].at \notin Claimed => box[r] = NoBox
    /\ req[r].at \in {"new", "join", "wait"} => flight[r] = NoFlight
    /\ Leads(r) => ~flight[r].done /\ ~flight[r].completed
    /\ flight[r].completed => flight[r].done /\ req[r].at = "ok"
    /\ flight[r].done => req[r].at \in Over
    /\ req[r].at \notin Over \cup {"new"} => req[r].key \in Keys /\ req[r].spec \in Specs

\* What a joiner knows of its flight.
JoinOK(r) ==
    /\ req[r].at \in {"join", "wait"} =>
          /\ req[r].on \in Requests
          /\ Leads(req[r].on) \/ flight[req[r].on].done
          /\ req[req[r].on].key = req[r].key
    /\ req[r].at = "wait" => req[req[r].on].spec = req[r].spec

\* What a request knows of the sandbox it found, made or was given.
GotOK(r) ==
    /\ req[r].got # None => /\ box[req[r].got].prov # None
                            /\ req[req[r].got].key = req[r].key
    /\ req[r].at \in {"succeed", "ok"} => /\ req[r].got # None
                                         /\ req[req[r].got].spec = req[r].spec

\* A sandbox that lives has a key and a provider, and has not expired.
LifeOK(b) ==
    /\ box[b].live => box[b].prov # None /\ clock < box[b].exp /\ req[b].key \in Keys
    /\ box[b].exp <= clock + TTL

EntryOK(k) ==
    flights[k] # None =>
        /\ req[flights[k]].key = k
        /\ Leads(flights[k]) \/ flight[flights[k]].completed

RelOK(l) ==
    /\ rel[l].at \in {"drop", "evict"} =>
          rel[l].box \in Requests /\ box[rel[l].box].prov # None
    /\ rel[l].at = "evict" => ~box[rel[l].box].live
    /\ rel[l].at = "await" => rel[l].on \in Requests
    /\ rel[l].byKey => rel[l].key \in Keys
    /\ rel[l].at \in {"await", "cached", "search"} => rel[l].byKey

Records ==
    /\ \A r \in Requests : ReqOK(r) /\ JoinOK(r) /\ GotOK(r) /\ LifeOK(r)
    /\ \A k \in Keys : EntryOK(k)
    /\ \A l \in Releasers : RelOK(l)
    /\ removing \notin targets

-----------------------------------------------------------------------------
(* The cache.                                                              *)

Waiting(f) == {r \in Requests : req[r].at = "wait" /\ req[r].on = f}

Counted == \A f \in Requests : flight[f].joiners = Cardinality(Waiting(f))

Completed == CompletedIn(flights, flight, Keys)

Capped == Completed \subseteq ToSet(completedOrder) /\ Cardinality(Completed) <= MaxCompleted

\* The entry of k replays b: why b is there.
Replayed(k, b) ==
    \/ b \in strays
    \/ box[b].live /\ flight[flights[k]].until <= box[b].exp
    \/ clock >= flight[flights[k]].until
    \/ \E l \in Releasers : rel[l].at = "evict" /\ rel[l].box = b

CachedOK(k) == k \in Completed => Replayed(k, req[flights[k]].got)

-----------------------------------------------------------------------------
(* One sandbox for a key.                                                  *)

Lives(b, k) == box[b].live /\ req[b].key = k

\* The cache has b until it expires.
Kept(b, k) ==
    /\ flights[k] # None /\ flight[flights[k]].completed
    /\ req[flights[k]].got = b
    /\ box[b].exp <= flight[flights[k]].until

\* A flight of k is about to complete with b, or to end in doubt.
Ending(b, k) ==
    \E r \in Requests : /\ req[r].key = k
                        /\ \/ req[r].at = "lose"
                           \/ req[r].at = "succeed" /\ req[r].got = b

Backed(b, k) ==
    \/ box[b].exp <= evictedUnexpiredUntil
    \/ Unsettled(k) \/ Kept(b, k) \/ Ending(b, k)

BoxOK(b, k) ==
    Lives(b, k) =>
        /\ box[b].prov \in targets
        /\ Backed(b, k)
        /\ \A c \in Requests : Lives(c, k) => c = b

\* What the leader r of k has still to look at.
LeaderOK(r, k) ==
    Leads(r) /\ req[r].key = k =>
        /\ flights[k] = r
        /\ \A b \in Requests : Lives(b, k) =>
              /\ req[r].at = "lead" /\ ~req[r].retry => box[b].exp <= evictedUnexpiredUntil
              /\ req[r].at = "probe" =>
                    req[r].got = b \/ box[b].prov \in req[r].todo \cup req[r].dark
              /\ req[r].at = "claim" => req[r].snap \subseteq {box[b].prov}

Single == \A k \in Keys \ doors : \A r \in Requests : BoxOK(r, k) /\ LeaderOK(r, k)

IInv == /\ TypeOK /\ Records /\ Counted /\ Capped
        /\ \A k \in Keys : CachedOK(k)
        /\ Single

-----------------------------------------------------------------------------
(* Constants and types.                                                    *)

ReqRec == [at : Places, key : Keys \cup {None}, spec : Specs \cup {None},
           retry : BOOLEAN, on : Requests \cup {None}, snap : SUBSET Providers,
           todo : SUBSET Providers, dark : SUBSET Providers, got : Requests \cup {None}]

FlightRec == [done : BOOLEAN, completed : BOOLEAN, until : Time, joiners : 0..MaxJoiners]

BoxRec == [live : BOOLEAN, prov : Providers \cup {None}, exp : Time]

RelRec == [at : {"idle", "await", "cached", "search", "drop", "evict"},
           byKey : BOOLEAN, key : Keys \cup {None}, box : Requests \cup {None},
           todo : SUBSET Providers, on : Requests \cup {None}]

LEMMA Constants ==
    /\ None \notin Requests /\ None \notin Keys /\ None \notin Providers /\ None \notin Specs
    /\ IsFiniteSet(Requests) /\ IsFiniteSet(Keys) /\ IsFiniteSet(Providers)
    /\ TTL \in Nat /\ TTL > 0 /\ MaxTime \in Nat /\ MaxCompleted \in Nat /\ MaxJoiners \in Nat
    /\ GlobalMax \in Nat /\ SweepAt \in Nat /\ Removable \subseteq Providers
    /\ 0 \in Time /\ \A t \in Time : t \in Nat
  BY FlightsAssumption DEF FlightsAssumption, Time

LEMMA Typed ==
  ASSUME TypeOK
  PROVE  /\ clock \in Nat /\ clock <= MaxTime /\ clock \in Time /\ clock + TTL \in Time
         /\ evictedUnexpiredUntil \in Nat
         /\ \A k \in Keys : flights[k] \in Requests \cup {None}
         /\ \A r \in Requests : req[r] \in ReqRec
         /\ \A r \in Requests : flight[r] \in FlightRec
         /\ \A r \in Requests : box[r] \in BoxRec
         /\ \A l \in Releasers : rel[l] \in RelRec
<1>1. clock \in Nat /\ clock <= MaxTime /\ clock \in Time /\ clock + TTL \in Time
  BY Constants DEF TypeOK, Time
<1>2. evictedUnexpiredUntil \in Nat
  BY Constants DEF TypeOK
<1>3. \A k \in Keys : flights[k] \in Requests \cup {None}
  BY DEF TypeOK
<1>4. \A r \in Requests : req[r] \in ReqRec
  BY DEF TypeOK, ReqRec, Places, Over
<1>5. \A r \in Requests : flight[r] \in FlightRec
  BY DEF TypeOK, FlightRec
<1>6. \A r \in Requests : box[r] \in BoxRec
  BY DEF TypeOK, BoxRec
<1>7. \A l \in Releasers : rel[l] \in RelRec
  BY DEF TypeOK, RelRec
<1> QED BY <1>1, <1>2, <1>3, <1>4, <1>5, <1>6, <1>7

\* Every set of numbers has a least, and a greatest if it is bounded.
LEMMA MinOfNat ==
  ASSUME NEW S \in SUBSET Nat, S # {}
  PROVE  Min(S) \in S /\ \A x \in S : Min(S) <= x
<1>1. PICK m \in S : \A k \in S : <<k, m>> \notin OpToRel(<, Nat)
  BY WFMin, NatLessThanWellFounded, Zenon
<1>2. m \in Nat /\ \A k \in S : ~(k < m)
  BY <1>1, Zenon DEF OpToRel
<1>3. \A k \in S : m <= k
  BY <1>2
<1> QED BY <1>1, <1>3, Zenon DEF Min

LEMMA MaxOfBounded ==
  ASSUME NEW n \in Nat, NEW S \in SUBSET (0..n), S # {}
  PROVE  Max(S) \in S /\ \A x \in S : x <= Max(S)
<1> DEFINE D == {n - x : x \in S}
<1>1. D \in SUBSET Nat /\ D # {}
  <2>1. \A x \in S : n - x \in Nat
    OBVIOUS
  <2> QED BY <2>1
<1>2. Min(D) \in D /\ \A x \in D : Min(D) <= x
  BY <1>1, MinOfNat
<1>3. PICK m \in S : Min(D) = n - m
  BY <1>2
<1>4. \A x \in S : m >= x
  BY <1>2, <1>3
<1>5. Max(S) \in S /\ \A x \in S : Max(S) >= x
  BY <1>3, <1>4, Zenon DEF Max
<1>6. \A x \in S : x \in Int
  OBVIOUS
<1> QED BY <1>5, <1>6

-----------------------------------------------------------------------------
(* enforceCompletedFlightCapLocked.                                        *)

Oldest(s, n) == ToSet(SubSeq(s, 1, n))
Newer(s, n)  == SubSeq(s, n + 1, Len(s))

LEMMA SplitSeq ==
  ASSUME NEW S, NEW s \in Seq(S), NEW n \in 0..Len(s)
  PROVE  /\ Newer(s, n) \in Seq(S)
         /\ ToSet(s) = Oldest(s, n) \cup ToSet(Newer(s, n))
         /\ Oldest(s, n) \subseteq S
         /\ \A x \in Oldest(s, n) : \E i \in 1..n : x = s[i]
<1>1. Len(s) \in Nat /\ \A i \in 1..Len(s) : s[i] \in S
  OBVIOUS
<1>2. /\ SubSeq(s, 1, n) \in Seq(S) /\ Len(SubSeq(s, 1, n)) = n
      /\ \A i \in 1..n : SubSeq(s, 1, n)[i] = s[i]
  BY <1>1, SubSeqProperties
<1>3. /\ SubSeq(s, n + 1, Len(s)) \in Seq(S)
      /\ Len(SubSeq(s, n + 1, Len(s))) = Len(s) - n
      /\ \A i \in 1..(Len(s) - n) : SubSeq(s, n + 1, Len(s))[i] = s[n + i]
  <2>1. \A i \in (n + 1)..Len(s) : s[i] \in S
    BY <1>1
  <2> DEFINE t == SubSeq(s, n + 1, Len(s))
  <2>2. /\ t \in Seq(S)
        /\ Len(t) = IF n + 1 <= Len(s) THEN Len(s) - (n + 1) + 1 ELSE 0
        /\ \A i \in 1..(Len(s) - (n + 1) + 1) : t[i] = s[(n + 1) + i - 1]
    BY <1>1, <2>1, SubSeqProperties
  <2> HIDE DEF t
  <2>3. Len(t) = Len(s) - n
    BY <1>1, <2>2
  <2>4. \A i \in 1..(Len(s) - n) : t[i] = s[n + i]
    <3> SUFFICES ASSUME NEW i \in 1..(Len(s) - n)
                 PROVE  t[i] = s[n + i]
      OBVIOUS
    <3>1. i \in 1..(Len(s) - (n + 1) + 1) /\ (n + 1) + i - 1 = n + i
      BY <1>1
    <3> QED BY <2>2, <3>1
  <2> QED BY <2>2, <2>3, <2>4 DEF t
<1>4. Oldest(s, n) = {s[i] : i \in 1..n}
  <2>1. DOMAIN SubSeq(s, 1, n) = 1..n
    BY <1>2
  <2> QED BY <1>2, <2>1 DEF Oldest, ToSet
<1>5. ToSet(Newer(s, n)) = {s[n + i] : i \in 1..(Len(s) - n)}
  <2>1. DOMAIN SubSeq(s, n + 1, Len(s)) = 1..(Len(s) - n)
    BY <1>1, <1>3
  <2> QED BY <1>3, <2>1 DEF Newer, ToSet
<1>6. ToSet(s) = {s[i] : i \in 1..Len(s)}
  BY DEF ToSet
<1>7. ToSet(s) = Oldest(s, n) \cup ToSet(Newer(s, n))
  <2>1. \A i \in 1..Len(s) : i \in 1..n \/ (i - n \in 1..(Len(s) - n) /\ n + (i - n) = i)
    BY <1>1
  <2>2. \A i \in 1..n : i \in 1..Len(s)
    BY <1>1
  <2>3. \A i \in 1..(Len(s) - n) : n + i \in 1..Len(s)
    BY <1>1
  <2> QED BY <1>4, <1>5, <1>6, <2>1, <2>2, <2>3
<1>8. Oldest(s, n) \subseteq S
  BY <1>1, <1>4
<1> QED BY <1>3, <1>4, <1>7, <1>8 DEF Newer

\* The completed flights whose keys are the n oldest of the order s leave.
Trimmed(fs, fl, s, n) == Without(fs, CompletedIn(fs, fl, Oldest(s, n)))

LEMMA TrimmedOK ==
  ASSUME NEW fs \in [Keys -> Requests \cup {None}], NEW fl, NEW s \in Seq(Keys),
         NEW n \in 0..Len(s), CompletedIn(fs, fl, Keys) \subseteq ToSet(s)
  PROVE  /\ Trimmed(fs, fl, s, n) \in [Keys -> Requests \cup {None}]
         /\ \A k \in Keys : \/ Trimmed(fs, fl, s, n)[k] = fs[k]
                            \/ /\ Trimmed(fs, fl, s, n)[k] = None
                               /\ k \in CompletedIn(fs, fl, Oldest(s, n))
         /\ CompletedIn(Trimmed(fs, fl, s, n), fl, Keys) \subseteq ToSet(Newer(s, n))
<1>1. Trimmed(fs, fl, s, n) \in [Keys -> Requests \cup {None}]
  BY DEF Trimmed, Without
<1>2. \A k \in Keys : Trimmed(fs, fl, s, n)[k] =
                        IF k \in CompletedIn(fs, fl, Oldest(s, n)) THEN None ELSE fs[k]
  BY DEF Trimmed, Without
<1>3. ToSet(s) = Oldest(s, n) \cup ToSet(Newer(s, n))
  BY SplitSeq
<1>4. \A k \in CompletedIn(Trimmed(fs, fl, s, n), fl, Keys) : k \in ToSet(Newer(s, n))
  BY <1>2, <1>3 DEF CompletedIn
<1> QED BY <1>1, <1>2, <1>4

LEMMA EnforcedOK ==
  ASSUME NEW fs \in [Keys -> Requests \cup {None}],
         NEW fl, \A q \in Requests : fl[q] \in FlightRec,
         NEW order \in Seq(Keys), NEW until \in Time, clock \in Nat,
         CompletedIn(fs, fl, Keys) \subseteq ToSet(order)
  PROVE  /\ Enforced(fs, fl, order, until).flights \in [Keys -> Requests \cup {None}]
         /\ Enforced(fs, fl, order, until).order \in Seq(Keys)
         /\ Enforced(fs, fl, order, until).until \in Time
         /\ until <= Enforced(fs, fl, order, until).until
         /\ \A k \in Keys :
              \/ Enforced(fs, fl, order, until).flights[k] = fs[k]
              \/ /\ Enforced(fs, fl, order, until).flights[k] = None
                 /\ fs[k] # None /\ fl[fs[k]].completed
                 /\ \/ fl[fs[k]].until <= clock
                    \/ fl[fs[k]].until <= Enforced(fs, fl, order, until).until
         /\ CompletedIn(Enforced(fs, fl, order, until).flights, fl, Keys)
              \subseteq ToSet(Enforced(fs, fl, order, until).order)
         /\ Cardinality(CompletedIn(Enforced(fs, fl, order, until).flights, fl, Keys))
              <= MaxCompleted
<1> DEFINE N  == {i \in 0..Len(order) :
                    i = Len(order) \/ order[i + 1] \in Unexpired(fs, fl, Keys)}
           n  == Min(N)
           f1 == Trimmed(fs, fl, order, n)
           o1 == Newer(order, n)
           M  == {i \in 0..Len(o1) :
                    i = Len(o1) \/ Cardinality(Entries(Trimmed(f1, fl, o1, i))) <= MaxCompleted}
           m  == Min(M)
           f2 == Trimmed(f1, fl, o1, m)
           gone == {fl[f1[k]].until : k \in Unexpired(f1, fl, Oldest(o1, m))}
           e  == Enforced(fs, fl, order, until)
<1>1. e = [flights |-> f2, order |-> Newer(o1, m), until |-> Max(gone \cup {until})]
  BY DEF Enforced, Trimmed, Oldest, Newer
<1>2. n \in 0..Len(order) /\ n \in N /\ \A i \in N : n <= i
  <2>1. Len(order) \in Nat /\ Len(order) \in N /\ N \in SUBSET Nat
    OBVIOUS
  <2> HIDE DEF N
  <2>2. n \in N /\ \A i \in N : n <= i
    BY <2>1, MinOfNat
  <2>3. N \subseteq 0..Len(order)
    BY DEF N
  <2> QED BY <2>2, <2>3
<1>3. \A k \in Oldest(order, n) : k \notin Unexpired(fs, fl, Keys)
  <2> SUFFICES ASSUME NEW k \in Oldest(order, n), k \in Unexpired(fs, fl, Keys)
               PROVE  FALSE
    OBVIOUS
  <2> HIDE DEF n
  <2>1. PICK i \in 1..n : k = order[i]
    BY <1>2, SplitSeq
  <2>2. i - 1 \in 0..Len(order) /\ (i - 1) + 1 = i /\ ~(n <= i - 1)
    BY <1>2
  <2>3. i - 1 \in N
    BY <2>1, <2>2
  <2> QED BY <1>2, <2>2, <2>3
<1>4. /\ f1 \in [Keys -> Requests \cup {None}] /\ o1 \in Seq(Keys)
      /\ \A k \in Keys : \/ f1[k] = fs[k]
                         \/ f1[k] = None /\ k \in CompletedIn(fs, fl, Oldest(order, n))
      /\ CompletedIn(f1, fl, Keys) \subseteq ToSet(o1)
  BY <1>2, TrimmedOK, SplitSeq
<1> HIDE DEF n, f1, o1, N
<1>5. m \in 0..Len(o1) /\ m \in M
  <2>1. Len(o1) \in Nat /\ Len(o1) \in M /\ M \in SUBSET Nat
    BY <1>4
  <2> HIDE DEF M
  <2>2. m \in M
    BY <2>1, MinOfNat
  <2>3. M \subseteq 0..Len(o1)
    BY DEF M
  <2> QED BY <2>2, <2>3
<1>6. /\ f2 \in [Keys -> Requests \cup {None}] /\ Newer(o1, m) \in Seq(Keys)
      /\ \A k \in Keys : \/ f2[k] = f1[k]
                         \/ f2[k] = None /\ k \in CompletedIn(f1, fl, Oldest(o1, m))
      /\ CompletedIn(f2, fl, Keys) \subseteq ToSet(Newer(o1, m))
  <2> HIDE DEF m
  <2> QED BY <1>4, <1>5, TrimmedOK, SplitSeq
<1>7. \A k \in Oldest(o1, m) : k \in Keys
  <2> HIDE DEF m
  <2> QED BY <1>4, <1>5, SplitSeq
<1>8. Cardinality(CompletedIn(f2, fl, Keys)) <= MaxCompleted
  <2>1. CompletedIn(f2, fl, Keys) \subseteq Entries(f2) /\ Entries(f2) \subseteq Keys
    BY DEF CompletedIn, Entries
  <2>2. CASE m = Len(o1)
    <3> HIDE DEF m, f2
    <3>1. Len(o1) \in Nat /\ Newer(o1, m) = <<>>
      <4>1. Len(o1) \in Nat
        BY <1>4
      <4>2. SubSeq(o1, Len(o1) + 1, Len(o1)) = <<>>
        BY <1>4, <4>1, SubSeqEmpty
      <4> QED BY <2>2, <4>1, <4>2 DEF Newer
    <3>2. ToSet(<<>>) = {}
      BY DEF ToSet
    <3>3. CompletedIn(f2, fl, Keys) = {}
      BY <1>6, <3>1, <3>2
    <3> QED BY <3>3, FS_EmptySet, Constants
  <2>3. CASE m # Len(o1)
    <3>1. Cardinality(Entries(f2)) <= MaxCompleted
      BY <1>5, <2>3
    <3> HIDE DEF m, f2
    <3>2. IsFiniteSet(Entries(f2)) /\ Cardinality(Entries(f2)) \in Nat
      BY <2>1, Constants, FS_Subset, FS_CardinalityType
    <3>3. /\ Cardinality(CompletedIn(f2, fl, Keys)) <= Cardinality(Entries(f2))
          /\ Cardinality(CompletedIn(f2, fl, Keys)) \in Nat
      BY <2>1, <3>2, FS_Subset, FS_CardinalityType
    <3> QED BY <3>1, <3>2, <3>3, Constants
  <2> QED BY <2>2, <2>3
<1> HIDE DEF m, f2
<1>9. \A k \in Unexpired(f1, fl, Oldest(o1, m)) : fl[f1[k]].until \in Time
  <2> SUFFICES ASSUME NEW k \in Unexpired(f1, fl, Oldest(o1, m))
               PROVE  fl[f1[k]].until \in Time
    OBVIOUS
  <2>1. k \in Keys /\ f1[k] # None
    BY <1>7 DEF Unexpired, CompletedIn
  <2>2. f1[k] \in Requests
    BY <1>4, <2>1
  <2> QED BY <2>2 DEF FlightRec
<1>10. /\ Max(gone \cup {until}) \in Time
       /\ \A x \in gone \cup {until} : x <= Max(gone \cup {until})
  <2>1. gone \cup {until} \in SUBSET Time
    BY <1>9
  <2>2. MaxTime + TTL \in Nat /\ Time = 0..(MaxTime + TTL)
    BY Constants DEF Time
  <2> HIDE DEF gone
  <2>3. gone \cup {until} # {}
    OBVIOUS
  <2>4. /\ Max(gone \cup {until}) \in gone \cup {until}
        /\ \A x \in gone \cup {until} : x <= Max(gone \cup {until})
    BY <2>1, <2>2, <2>3, MaxOfBounded
  <2> QED BY <2>1, <2>4
<1>11. e.flights = f2 /\ e.order = Newer(o1, m) /\ e.until = Max(gone \cup {until})
  <2> HIDE DEF e, gone
  <2> QED BY <1>1
<1>12. ASSUME NEW k \in Keys, e.flights[k] # fs[k]
       PROVE  /\ e.flights[k] = None /\ fs[k] # None /\ fl[fs[k]].completed
              /\ fl[fs[k]].until <= clock \/ fl[fs[k]].until <= e.until
  <2> HIDE DEF e
  <2>1. e.flights = f2 /\ e.until = Max(gone \cup {until})
    BY <1>11
  <2>2. CASE f1[k] # fs[k]
    <3>1. f1[k] = None /\ k \in CompletedIn(fs, fl, Oldest(order, n)) /\ k \in Oldest(order, n)
      BY <1>4, <2>2 DEF CompletedIn
    <3>2. fs[k] # None /\ fl[fs[k]].completed /\ ~(clock < fl[fs[k]].until)
      BY <1>3, <3>1 DEF CompletedIn, Unexpired
    <3>3. fs[k] \in Requests
      BY <3>2
    <3>4. fl[fs[k]].until \in Nat
      BY <3>3, Constants DEF FlightRec
    <3>5. f2[k] = None
      BY <1>6, <3>1
    <3> QED BY <2>1, <3>2, <3>4, <3>5
  <2>3. CASE f1[k] = fs[k]
    <3>1. f2[k] = None /\ k \in CompletedIn(f1, fl, Oldest(o1, m))
      <4>1. f2[k] # f1[k]
        BY <2>1, <1>12, <2>3
      <4> QED BY <1>6, <4>1
    <3>2. fs[k] # None /\ fl[fs[k]].completed
      BY <2>3, <3>1 DEF CompletedIn
    <3>3. fs[k] \in Requests
      BY <3>2
    <3>4. fl[fs[k]].until \in Nat
      BY <3>3, Constants DEF FlightRec
    <3>5. CASE clock < fl[fs[k]].until
      <4>1. k \in Unexpired(f1, fl, Oldest(o1, m))
        BY <2>3, <3>1, <3>5 DEF Unexpired
      <4>2. fl[fs[k]].until \in gone
        BY <2>3, <4>1
      <4> QED BY <1>10, <2>1, <3>1, <3>2, <4>2
    <3>6. CASE ~(clock < fl[fs[k]].until)
      BY <2>1, <3>1, <3>2, <3>4, <3>6
    <3> QED BY <3>5, <3>6
  <2> QED BY <2>2, <2>3
<1> HIDE DEF e, gone
<1>13. until <= e.until
  BY <1>10, <1>11
<1> QED BY <1>6, <1>8, <1>10, <1>11, <1>12, <1>13 DEF e

-----------------------------------------------------------------------------
(* Steps of one request.                                                   *)

\* The request r becomes q. The others, their flights and their sandboxes stay
\* as they are, but for the joiners of the flight that r waits on.
Moves(r, q) ==
    /\ req' = [req EXCEPT ![r] = q]
    /\ q \in ReqRec /\ req[r].at \notin Over /\ q.at # "new"
    /\ req[r].at # "new" => q.key = req[r].key /\ q.spec = req[r].spec
    /\ Leads(r) => q.at \in LeadPlaces \/ flight'[r].done
    /\ box[r] # NoBox => box'[r] = box[r]
    /\ \A c \in Requests \ {r} :
          /\ box'[c] = box[c]
          /\ flight'[c].done = flight[c].done /\ flight'[c].completed = flight[c].completed
          /\ req[c].at \in {"new", "join", "wait"} => flight'[c] = flight[c]

LEMMA Moved ==
  ASSUME TypeOK, NEW r \in Requests, NEW q, Moves(r, q)
  PROVE  /\ req' \in [Requests -> ReqRec]
         /\ req'[r] = q
         /\ \A c \in Requests \ {r} : req'[c] = req[c]
BY DEF TypeOK, Moves, ReqRec, Places, Over

\* A request that has not entered has nothing, and nobody knows of it.
LEMMA NewIsFree ==
  ASSUME TypeOK, Records, NEW r \in Requests, req[r].at = "new"
  PROVE  /\ box[r] = NoBox /\ flight[r] = NoFlight
         /\ \A c \in Requests : req[c].at \in {"join", "wait"} => req[c].on # r
         /\ \A c \in Requests : req[c].got # r
         /\ \A k \in Keys : flights[k] # r
<1>1. box[r] = NoBox /\ flight[r] = NoFlight /\ ~Leads(r)
  BY DEF Records, ReqOK, Claimed, Leads, LeadPlaces
<1>2. box[r].prov = None /\ ~flight[r].done /\ ~flight[r].completed
  BY <1>1 DEF NoBox, NoFlight
<1>3. ASSUME NEW c \in Requests, req[c].at \in {"join", "wait"}
      PROVE  req[c].on # r
  <2>1. JoinOK(c)
    BY DEF Records
  <2> QED BY <1>1, <1>2, <1>3, <2>1 DEF JoinOK
<1>4. ASSUME NEW c \in Requests
      PROVE  req[c].got # r
  <2>1. GotOK(c) /\ r # None
    BY Constants DEF Records
  <2> QED BY <1>2, <2>1 DEF GotOK
<1>5. ASSUME NEW k \in Keys
      PROVE  flights[k] # r
  <2>1. EntryOK(k) /\ r # None
    BY Constants DEF Records
  <2> QED BY <1>1, <1>2, <2>1 DEF EntryOK
<1> QED BY <1>1, <1>3, <1>4, <1>5

LEMMA OthersOK ==
  ASSUME TypeOK, Records, NEW r \in Requests, NEW q, Moves(r, q),
         NEW c \in Requests, c # r
  PROVE  ReqOK(c)' /\ JoinOK(c)' /\ GotOK(c)'
<1>1. req'[r] = q /\ \A d \in Requests \ {r} : req'[d] = req[d]
  BY Moved
<1>2. req'[c] = req[c] /\ c \in Requests \ {r}
  BY <1>1
<1>3. ReqOK(c) /\ JoinOK(c) /\ GotOK(c)
  BY DEF Records
<1>4. ReqOK(c)'
  <2>1. /\ box'[c] = box[c]
        /\ flight'[c].done = flight[c].done /\ flight'[c].completed = flight[c].completed
        /\ req[c].at \in {"new", "join", "wait"} => flight'[c] = flight[c]
    BY <1>2 DEF Moves
  <2> QED BY <1>2, <1>3, <2>1 DEF ReqOK, Leads
<1>5. JoinOK(c)'
  <2> DEFINE f == req[c].on
  <2> SUFFICES ASSUME req[c].at \in {"join", "wait"}
               PROVE  /\ f \in Requests
                      /\ req'[f].at \in LeadPlaces \/ flight'[f].done
                      /\ req'[f].key = req[c].key
                      /\ req[c].at = "wait" => req'[f].spec = req[c].spec
    BY <1>2 DEF JoinOK, Leads
  <2>1. /\ f \in Requests /\ (Leads(f) \/ flight[f].done)
        /\ req[f].key = req[c].key
        /\ req[c].at = "wait" => req[f].spec = req[c].spec
    BY <1>3 DEF JoinOK
  <2> HIDE DEF f
  <2>2. CASE f # r
    <3>1. req'[f] = req[f] /\ flight'[f].done = flight[f].done
      BY <1>1, <2>1, <2>2 DEF Moves
    <3> QED BY <2>1, <3>1 DEF Leads
  <2>3. CASE f = r
    <3>1. req[r].at # "new"
      BY <2>3, NewIsFree DEF f
    <3>2. ~flight[r].done
      BY DEF Records, ReqOK, Moves
    <3>3. req'[r].at \in LeadPlaces \/ flight'[r].done
      BY <1>1, <2>1, <2>3, <3>2 DEF Moves, Leads
    <3> QED BY <1>1, <2>1, <2>3, <3>1, <3>3 DEF Moves
  <2> QED BY <2>2, <2>3
<1>6. GotOK(c)'
  <2> DEFINE b == req[c].got
  <2>1. CASE b = None
    BY <1>2, <1>3, <2>1 DEF GotOK
  <2>2. CASE b # None
    <3>1. b \in Requests /\ box[b].prov # None
      BY <1>3, <2>2, Typed DEF GotOK, ReqRec
    <3>2. req'[b].key = req[b].key /\ req'[b].spec = req[b].spec /\ box'[b] = box[b]
      <4>1. CASE b # r
        <5> HIDE DEF b
        <5> QED BY <1>1, <3>1, <4>1 DEF Moves
      <4>2. CASE b = r
        <5>1. req[r].at # "new" /\ box[r] # NoBox
          BY <3>1, <4>2, NewIsFree DEF NoBox
        <5> HIDE DEF b
        <5> QED BY <1>1, <4>2, <5>1 DEF Moves
      <4> QED BY <4>1, <4>2
    <3> QED BY <1>2, <1>3, <2>2, <3>1, <3>2 DEF GotOK
  <2> QED BY <2>1, <2>2
<1> QED BY <1>4, <1>5, <1>6

\* Who waits on a flight, when r comes or goes.
LEMMA NobodyComes ==
  ASSUME NEW r \in Requests, NEW q, TypeOK, Moves(r, q), req[r].at # "wait", q.at # "wait"
  PROVE  \A f \in Requests : Waiting(f)' = Waiting(f)
<1>1. req'[r] = q /\ \A c \in Requests \ {r} : req'[c] = req[c]
  BY Moved
<1> QED BY <1>1 DEF Waiting

LEMMA WaitingFinite ==
  ASSUME NEW f
  PROVE  IsFiniteSet(Waiting(f)) /\ Cardinality(Waiting(f)) \in Nat
<1>1. Waiting(f) \subseteq Requests
  BY DEF Waiting
<1> QED BY <1>1, Constants, FS_Subset, FS_CardinalityType

\* The parts of the invariant, one by one.
LEMMA Parts ==
  ASSUME IInv
  PROVE  /\ TypeOK /\ Records /\ Counted /\ Capped
         /\ \A r \in Requests : ReqOK(r) /\ JoinOK(r) /\ GotOK(r) /\ LifeOK(r)
         /\ \A k \in Keys : EntryOK(k) /\ CachedOK(k)
         /\ \A l \in Releasers : RelOK(l)
         /\ removing \notin targets
         /\ \A k \in Keys \ doors : \A r \in Requests : BoxOK(r, k) /\ LeaderOK(r, k)
BY DEF IInv, Records, Single

\* A step of r by which no sandbox and no entry comes or goes.
LEMMA ReqStep ==
  ASSUME IInv, NEW r \in Requests, NEW q, Moves(r, q),
         UNCHANGED <<clock, targets, removing, cache, box, rel, hist>>,
         flight' \in [Requests -> FlightRec],
         \A f \in Requests : /\ flight'[f].done = flight[f].done
                             /\ flight'[f].completed = flight[f].completed
                             /\ flight'[f].until = flight[f].until,
         Counted',
         req[r].at \notin {"succeed", "lose"},
         Leads(r) <=> q.at \in LeadPlaces,
         ReqOK(r)', JoinOK(r)', GotOK(r)',
         \A k \in Keys \ doors : LeaderOK(r, k)'
  PROVE  IInv'
<1>0. /\ TypeOK /\ Records /\ Counted /\ Capped
      /\ \A c \in Requests : ReqOK(c) /\ JoinOK(c) /\ GotOK(c) /\ LifeOK(c)
      /\ \A k \in Keys : EntryOK(k) /\ CachedOK(k)
      /\ \A l \in Releasers : RelOK(l)
      /\ removing \notin targets
      /\ \A k \in Keys \ doors : \A c \in Requests : BoxOK(c, k) /\ LeaderOK(c, k)
  BY Parts
<1>1. /\ req' \in [Requests -> ReqRec] /\ req'[r] = q
      /\ \A c \in Requests \ {r} : req'[c] = req[c]
  BY <1>0, Moved
<1>2. /\ clock' = clock /\ targets' = targets /\ removing' = removing /\ flights' = flights
      /\ completedOrder' = completedOrder /\ box' = box /\ rel' = rel
      /\ evictedUnexpiredUntil' = evictedUnexpiredUntil
      /\ doors' = doors /\ strays' = strays
  BY DEF cache, hist
<1>3. TypeOK'
  BY <1>0, <1>1, <1>2 DEF TypeOK, FlightRec, ReqRec, Places
<1>4. \A c \in Requests : Leads(c)' <=> Leads(c)
  BY <1>1 DEF Leads
<1>5. req[r].at \notin Over /\ ~flight[r].completed
  BY <1>0 DEF Moves, ReqOK, Over
<1>6. Records'
  <2>1. \A c \in Requests : ReqOK(c)' /\ JoinOK(c)' /\ GotOK(c)'
    BY <1>0, OthersOK
  <2>2. ASSUME NEW c \in Requests
        PROVE  LifeOK(c)'
    <3>1. req[c].key \in Keys /\ box[c].live => req'[c].key \in Keys
      <4>1. CASE c # r
        BY <1>1, <4>1
      <4>2. CASE c = r /\ req[r].at = "new"
        BY <1>0, <4>2, NewIsFree DEF NoBox
      <4>3. CASE c = r /\ req[r].at # "new"
        BY <1>1, <4>3 DEF Moves
      <4> QED BY <4>1, <4>2, <4>3
    <3> QED BY <1>0, <1>2, <3>1 DEF LifeOK
  <2>3. ASSUME NEW k \in Keys
        PROVE  EntryOK(k)'
    <3> DEFINE f == flights[k]
    <3>1. CASE f = None
      BY <1>2, <3>1 DEF EntryOK
    <3>2. CASE f # None
      <4>1. f \in Requests /\ req[f].key = k /\ (Leads(f) \/ flight[f].completed)
        BY <1>0, <3>2, Typed DEF EntryOK
      <4>2. req'[f].key = k
        <5>1. CASE f = r
          <6>1. req[r].at # "new"
            BY <1>0, <5>1, NewIsFree
          <6> HIDE DEF f
          <6> QED BY <1>1, <4>1, <5>1, <6>1 DEF Moves
        <5>2. CASE f # r
          <6> HIDE DEF f
          <6> QED BY <1>1, <4>1, <5>2
        <5> QED BY <5>1, <5>2
      <4>3. req'[f].at \in LeadPlaces \/ flight'[f].completed
        <5> HIDE DEF f
        <5> QED BY <1>1, <1>5, <4>1 DEF Leads
      <4> QED BY <1>2, <4>2, <4>3 DEF EntryOK, Leads
    <3> QED BY <3>1, <3>2
  <2>4. \A l \in Releasers : RelOK(l)'
    BY <1>0, <1>2 DEF RelOK
  <2> QED BY <1>0, <1>2, <2>1, <2>2, <2>3, <2>4 DEF Records
<1>7. Completed' = Completed
  <2>1. \A k \in Keys : flights[k] # None => flights[k] \in Requests
    BY <1>0, Typed
  <2> QED BY <1>2, <2>1 DEF Completed, CompletedIn
<1>8. Capped'
  BY <1>0, <1>2, <1>7 DEF Capped
<1>9. ASSUME NEW k \in Keys
      PROVE  CachedOK(k)'
  <2> SUFFICES ASSUME k \in Completed
               PROVE  Replayed(k, req[flights[k]].got)'
    BY <1>7 DEF CachedOK
  <2>1. Replayed(k, req[flights[k]].got)
    BY <1>0 DEF CachedOK
  <2>2. flights[k] \in Requests /\ flights[k] # r
    BY <1>0, <1>5, Typed DEF Completed, CompletedIn
  <2>3. req'[flights[k]] = req[flights[k]] /\ flight'[flights[k]].until = flight[flights[k]].until
    BY <1>1, <2>2
  <2> QED BY <1>2, <2>1, <2>3 DEF Replayed
<1>10. \A b \in Requests, k \in Keys : Lives(b, k)' <=> Lives(b, k)
  <2> SUFFICES ASSUME NEW b \in Requests, NEW k \in Keys
               PROVE  Lives(b, k)' <=> Lives(b, k)
    OBVIOUS
  <2>1. CASE b # r
    BY <1>1, <1>2, <2>1 DEF Lives
  <2>2. CASE b = r /\ req[r].at = "new"
    <3>1. ~box[r].live
      BY <1>0, <2>2, NewIsFree DEF NoBox
    <3> QED BY <1>2, <2>2, <3>1 DEF Lives
  <2>3. CASE b = r /\ req[r].at # "new"
    BY <1>1, <1>2, <2>3 DEF Lives, Moves
  <2> QED BY <2>1, <2>2, <2>3
<1>11. ASSUME NEW k \in Keys \ doors, NEW b \in Requests
       PROVE  BoxOK(b, k)'
  <2> SUFFICES ASSUME Lives(b, k)
               PROVE  Backed(b, k)'
    BY <1>0, <1>2, <1>10 DEF BoxOK
  <2>1. Backed(b, k)
    BY <1>0 DEF BoxOK
  <2>2. CASE box[b].exp <= evictedUnexpiredUntil
    BY <1>2, <2>2 DEF Backed
  <2>3. CASE Unsettled(k)
    <3>1. PICK c \in Requests : req[c].key = k /\ req[c].at = "unknown"
      BY <2>3 DEF Unsettled
    <3>2. req'[c] = req[c]
      BY <1>1, <1>5, <3>1 DEF Over
    <3> QED BY <3>1, <3>2 DEF Backed, Unsettled
  <2>4. CASE Kept(b, k)
    <3>1. flights[k] \in Requests /\ flights[k] # r
      BY <1>0, <1>5, <2>4, Typed DEF Kept
    <3>2. req'[flights[k]] = req[flights[k]]
      BY <1>1, <3>1
    <3> QED BY <1>2, <2>4, <3>1, <3>2 DEF Backed, Kept
  <2>5. CASE Ending(b, k)
    <3>1. PICK c \in Requests : /\ req[c].key = k
                                /\ \/ req[c].at = "lose"
                                   \/ req[c].at = "succeed" /\ req[c].got = b
      BY <2>5 DEF Ending
    <3>2. req'[c] = req[c]
      BY <1>1, <3>1
    <3>3. Ending(b, k)'
      BY <3>1, <3>2 DEF Ending
    <3> QED BY <3>3 DEF Backed
  <2> QED BY <2>1, <2>2, <2>3, <2>4, <2>5 DEF Backed
<1>12. ASSUME NEW k \in Keys \ doors, NEW c \in Requests
       PROVE  LeaderOK(c, k)'
  <2>1. CASE c = r
    BY <2>1
  <2>2. CASE c # r
    <3>1. req'[c] = req[c] /\ LeaderOK(c, k)
      BY <1>0, <1>1, <2>2
    <3> QED BY <1>2, <1>10, <3>1 DEF LeaderOK, Leads
  <2> QED BY <2>1, <2>2
<1>13. Single'
  BY <1>2, <1>11, <1>12 DEF Single
<1> QED BY <1>3, <1>6, <1>8, <1>9, <1>13 DEF IInv

\* ... and r neither begins nor ends a wait.
LEMMA PlainStep ==
  ASSUME IInv, NEW r \in Requests, NEW q, Moves(r, q),
         UNCHANGED <<clock, targets, removing, cache, flight, box, rel, hist>>,
         req[r].at \notin {"wait", "succeed", "lose"}, q.at # "wait",
         Leads(r) <=> q.at \in LeadPlaces,
         ReqOK(r)', JoinOK(r)', GotOK(r)',
         \A k \in Keys \ doors : LeaderOK(r, k)'
  PROVE  IInv'
<1>1. TypeOK /\ Counted
  BY Parts
<1>2. Counted'
  BY <1>1, NobodyComes DEF Counted
<1>3. flight' \in [Requests -> FlightRec]
  BY <1>1 DEF TypeOK, FlightRec
<1> QED BY <1>2, <1>3, ReqStep

-----------------------------------------------------------------------------
(* Requests enter and join.                                                *)

LEMMA TooManyRequestsOK ==
  ASSUME IInv, NEW r \in Requests, TooManyRequests(r)
  PROVE  IInv'
<1> DEFINE q == [req[r] EXCEPT !.at = "failed"]
<1>1. /\ TypeOK /\ Records /\ req[r] \in ReqRec /\ ReqOK(r) /\ GotOK(r)
  BY Parts, Typed
<1>2. /\ req[r].at = "new" /\ req' = [req EXCEPT ![r] = q]
      /\ UNCHANGED <<clock, targets, removing, cache, flight, box, rel, hist>>
  BY DEF TooManyRequests
<1>3. /\ q \in ReqRec /\ q.at = "failed" /\ q.got = req[r].got
      /\ q.key = req[r].key /\ q.spec = req[r].spec
  BY <1>1 DEF ReqRec, Places, Over
<1> HIDE DEF q
<1>4. Moves(r, q) /\ ~Leads(r)
  BY <1>2, <1>3 DEF Moves, Leads, LeadPlaces, Over
<1>5. req'[r] = q /\ \A c \in Requests \ {r} : req'[c] = req[c]
  BY <1>1, <1>4, Moved
<1>6. ReqOK(r)' /\ JoinOK(r)'
  BY <1>1, <1>2, <1>3, <1>5, NewIsFree DEF ReqOK, JoinOK, Over, Leads, LeadPlaces, Claimed, NoFlight
<1>7. GotOK(r)'
  <2>1. req[r].got # r /\ req[r].got \in Requests \cup {None}
    BY <1>1, <1>2, NewIsFree DEF ReqRec
  <2> QED BY <1>1, <1>2, <1>3, <1>5, <2>1 DEF GotOK
<1>8. ~Leads(r)'
  BY <1>3, <1>5 DEF Leads, LeadPlaces
<1> QED BY <1>2, <1>3, <1>4, <1>6, <1>7, <1>8, PlainStep DEF LeaderOK, LeadPlaces

LEMMA JoinFlightOK ==
  ASSUME IInv, NEW r \in Requests, NEW k \in Keys, NEW s \in Specs, NEW retry,
         JoinFlight(r, k, s, retry)
  PROVE  IInv'
<1> DEFINE q == [NewReq EXCEPT !.at = "join", !.key = k, !.spec = s,
                               !.retry = FALSE, !.on = flights[k]]
           f == flights[k]
<1>1. /\ TypeOK /\ Records /\ req[r] \in ReqRec /\ EntryOK(k) /\ f \in Requests \cup {None}
      /\ \A c \in Requests : ReqOK(c)
  BY Parts, Typed
<1>2. /\ req[r].at = "new" /\ req' = [req EXCEPT ![r] = q] /\ f # None
      /\ UNCHANGED <<clock, targets, removing, cache, flight, box, rel, hist>>
  BY DEF JoinFlight, Enter, Joinable
<1>3. q \in ReqRec /\ q.at = "join" /\ q.got = None /\ q.key = k /\ q.spec = s /\ q.on = f
  BY <1>1, Constants DEF NewReq, ReqRec, Places
<1>4. /\ f \in Requests \ {r} /\ req[f].key = k
      /\ req[f].at \in LeadPlaces \/ flight[f].done
  BY <1>1, <1>2, NewIsFree DEF EntryOK, ReqOK, Leads
<1> HIDE DEF q, f
<1>5. Moves(r, q) /\ ~Leads(r)
  BY <1>2, <1>3 DEF Moves, Leads, LeadPlaces, Over
<1>6. req'[r] = q /\ \A c \in Requests \ {r} : req'[c] = req[c]
  BY <1>1, <1>5, Moved
<1>7. ReqOK(r)'
  BY <1>1, <1>2, <1>3, <1>6, NewIsFree DEF ReqOK, Over, Leads, LeadPlaces, Claimed, NoFlight
<1>8. JoinOK(r)'
  BY <1>2, <1>3, <1>4, <1>6 DEF JoinOK, Leads
<1>9. GotOK(r)'
  BY <1>3, <1>6 DEF GotOK
<1>10. ~Leads(r)'
  BY <1>3, <1>6 DEF Leads, LeadPlaces
<1> QED BY <1>2, <1>3, <1>5, <1>7, <1>8, <1>9, <1>10, PlainStep DEF LeaderOK, LeadPlaces

LEMMA JoinRefusedOK ==
  ASSUME IInv, NEW r \in Requests, JoinRefused(r)
  PROVE  IInv'
<1> DEFINE q == [req[r] EXCEPT !.at = "failed", !.on = None]
<1>1. /\ TypeOK /\ Records /\ req[r] \in ReqRec /\ ReqOK(r) /\ GotOK(r)
  BY Parts, Typed
<1>2. /\ req[r].at = "join" /\ req' = [req EXCEPT ![r] = q]
      /\ UNCHANGED <<clock, targets, removing, cache, flight, box, rel, hist>>
  BY DEF JoinRefused
<1>3. /\ q \in ReqRec /\ q.at = "failed" /\ q.got = req[r].got
      /\ q.key = req[r].key /\ q.spec = req[r].spec
  BY <1>1 DEF ReqRec, Places, Over
<1> HIDE DEF q
<1>4. Moves(r, q) /\ ~Leads(r)
  BY <1>2, <1>3 DEF Moves, Leads, LeadPlaces, Over
<1>5. req'[r] = q /\ \A c \in Requests \ {r} : req'[c] = req[c]
  BY <1>1, <1>4, Moved
<1>6. ReqOK(r)' /\ JoinOK(r)'
  BY <1>1, <1>2, <1>3, <1>5 DEF ReqOK, JoinOK, Over, Leads, LeadPlaces, Claimed, NoFlight
<1>7. GotOK(r)'
  <2>1. \A c \in Requests : req'[c].key = req[c].key /\ req'[c].spec = req[c].spec
    BY <1>3, <1>5
  <2>2. req[r].got \in Requests \cup {None}
    BY <1>1 DEF ReqRec
  <2> QED BY <1>1, <1>2, <1>3, <1>5, <2>1, <2>2 DEF GotOK
<1>8. ~Leads(r)'
  BY <1>3, <1>5 DEF Leads, LeadPlaces
<1> QED BY <1>2, <1>3, <1>4, <1>6, <1>7, <1>8, PlainStep DEF LeaderOK, LeadPlaces

LEMMA JoinAcceptedOK ==
  ASSUME IInv, NEW r \in Requests, JoinAccepted(r)
  PROVE  IInv'
<1> DEFINE q == [req[r] EXCEPT !.at = "wait"]
           f == req[r].on
<1>1. /\ TypeOK /\ Records /\ req[r] \in ReqRec /\ ReqOK(r) /\ GotOK(r) /\ JoinOK(r) /\ Counted
      /\ \A c \in Requests : ReqOK(c) /\ flight[c] \in FlightRec
      /\ flight \in [Requests -> FlightRec]
  BY Parts, Typed DEF TypeOK, FlightRec
<1>2. /\ req[r].at = "join" /\ req' = [req EXCEPT ![r] = q] /\ req[f].spec = req[r].spec
      /\ flight[f].joiners < MaxJoiners
      /\ flight' = [flight EXCEPT ![f].joiners = @ + 1]
      /\ UNCHANGED <<clock, targets, removing, cache, box, rel, hist>>
  BY DEF JoinAccepted, SameSpec
<1>3. /\ q \in ReqRec /\ q.at = "wait" /\ q.got = req[r].got /\ q.on = f
      /\ q.key = req[r].key /\ q.spec = req[r].spec
  BY <1>1 DEF ReqRec, Places, Over
<1>4. /\ f \in Requests /\ (Leads(f) \/ flight[f].done) /\ req[f].key = req[r].key
  BY <1>1, <1>2 DEF JoinOK
<1>5. f # r /\ req[f].at \notin {"new", "join", "wait"} /\ ~Leads(r) /\ ~flight[r].done
  BY <1>1, <1>2, <1>4 DEF ReqOK, Leads, LeadPlaces, Over
<1> HIDE DEF q, f
<1>6. flight' \in [Requests -> FlightRec]
  <2>1. flight[f].joiners + 1 \in 0..MaxJoiners
    BY <1>1, <1>2, <1>4, Constants DEF FlightRec
  <2>2. [flight[f] EXCEPT !.joiners = @ + 1] \in FlightRec
    BY <1>1, <1>4, <2>1 DEF FlightRec
  <2> QED BY <1>1, <1>2, <1>4, <2>2
<1>7. /\ \A c \in Requests \ {f} : flight'[c] = flight[c]
      /\ flight'[f] = [flight[f] EXCEPT !.joiners = @ + 1]
  BY <1>1, <1>2, <1>4
<1>8. \A c \in Requests : /\ flight'[c].done = flight[c].done
                          /\ flight'[c].completed = flight[c].completed
                          /\ flight'[c].until = flight[c].until
  <2>1. /\ flight'[f].done = flight[f].done /\ flight'[f].completed = flight[f].completed
        /\ flight'[f].until = flight[f].until
    BY <1>1, <1>4, <1>7 DEF FlightRec
  <2> QED BY <1>7, <2>1
<1>9. Moves(r, q)
  BY <1>2, <1>3, <1>5, <1>7, <1>8 DEF Moves, Over
<1>10. req'[r] = q /\ \A c \in Requests \ {r} : req'[c] = req[c]
  BY <1>1, <1>9, Moved
<1>11. Counted'
  <2> SUFFICES ASSUME NEW c \in Requests
               PROVE  flight'[c].joiners = Cardinality(Waiting(c)')
    BY DEF Counted
  <2>1. flight[c].joiners = Cardinality(Waiting(c))
    BY <1>1 DEF Counted
  <2>2. CASE c # f
    <3>1. Waiting(c)' = Waiting(c)
      BY <1>2, <1>3, <1>10, <2>2 DEF Waiting
    <3> QED BY <1>7, <2>1, <2>2, <3>1
  <2>3. CASE c = f
    <3>1. Waiting(c)' = Waiting(c) \cup {r}
      BY <1>3, <1>10, <2>3 DEF Waiting
    <3>2. r \notin Waiting(c)
      BY <1>2 DEF Waiting
    <3>3. Cardinality(Waiting(c) \cup {r}) = Cardinality(Waiting(c)) + 1
      BY <3>2, WaitingFinite, FS_AddElement
    <3>4. flight'[f].joiners = flight[f].joiners + 1
      BY <1>1, <1>4, <1>7 DEF FlightRec
    <3> QED BY <2>1, <2>3, <3>1, <3>3, <3>4
  <2> QED BY <2>2, <2>3
<1>12. ReqOK(r)'
  <2>1. flight'[r] = flight[r] /\ box' = box
    BY <1>2, <1>5, <1>7
  <2> QED BY <1>1, <1>2, <1>3, <1>10, <2>1 DEF ReqOK, Over, Leads, LeadPlaces, Claimed
<1>13. JoinOK(r)'
  <2>1. req'[f].at \in LeadPlaces \/ flight'[f].done
    BY <1>4, <1>5, <1>8, <1>10 DEF Leads
  <2> QED BY <1>2, <1>3, <1>4, <1>5, <1>8, <1>10 DEF JoinOK, Leads
<1>14. GotOK(r)'
  <2>1. \A c \in Requests : req'[c].key = req[c].key /\ req'[c].spec = req[c].spec
    BY <1>3, <1>10
  <2>2. req[r].got \in Requests \cup {None}
    BY <1>1 DEF ReqRec
  <2> QED BY <1>1, <1>2, <1>3, <1>10, <2>1, <2>2 DEF GotOK
<1>15. ~Leads(r)'
  BY <1>3, <1>10 DEF Leads, LeadPlaces
<1> QED BY <1>2, <1>3, <1>5, <1>6, <1>8, <1>9, <1>11, <1>12, <1>13, <1>14, <1>15, ReqStep
        DEF LeaderOK, LeadPlaces

\* A wait ends: with the outcome of the flight, or with none.
LEMMA LeaveWait ==
  ASSUME IInv, NEW r \in Requests, NEW q, req[r].at = "wait",
         req' = [req EXCEPT ![r] = q], q \in ReqRec, q.at \in Over,
         q.key = req[r].key, q.spec = req[r].spec,
         flight' = [flight EXCEPT ![req[r].on].joiners = @ - 1],
         UNCHANGED <<clock, targets, removing, cache, box, rel, hist>>,
         GotOK(r)'
  PROVE  IInv'
<1> DEFINE f == req[r].on
<1>1. /\ TypeOK /\ Records /\ req[r] \in ReqRec /\ ReqOK(r) /\ JoinOK(r) /\ Counted
      /\ \A c \in Requests : ReqOK(c) /\ flight[c] \in FlightRec
      /\ flight \in [Requests -> FlightRec]
  BY Parts, Typed DEF TypeOK, FlightRec
<1>2. flight' = [flight EXCEPT ![f].joiners = @ - 1] /\ box' = box /\ doors' = doors
  BY DEF hist
<1>3. q.at \notin LeadPlaces /\ q.at \notin {"new", "join", "wait"}
  BY DEF Over, LeadPlaces
<1>4. f \in Requests /\ (Leads(f) \/ flight[f].done) /\ r \in Waiting(f)
  BY <1>1 DEF JoinOK, Waiting
<1>5. /\ f # r /\ req[f].at \notin {"new", "join", "wait"} /\ ~Leads(r)
      /\ ~flight[r].done /\ ~flight[r].completed
  BY <1>1, <1>4 DEF ReqOK, Leads, LeadPlaces, Over, NoFlight
<1> HIDE DEF f
<1>6. /\ flight[f].joiners = Cardinality(Waiting(f)) /\ flight[f].joiners \in Nat
      /\ flight[f].joiners > 0
      /\ Cardinality(Waiting(f) \ {r}) = flight[f].joiners - 1
  <2>1. flight[f].joiners = Cardinality(Waiting(f)) /\ IsFiniteSet(Waiting(f))
    BY <1>1, <1>4, WaitingFinite DEF Counted
  <2>2. Cardinality(Waiting(f) \ {r}) = Cardinality(Waiting(f)) - 1
    BY <1>4, <2>1, FS_RemoveElement
  <2>3. Cardinality(Waiting(f)) \in Nat /\ Cardinality(Waiting(f)) # 0
    BY <1>4, <2>1, FS_EmptySet, WaitingFinite
  <2> QED BY <2>1, <2>2, <2>3
<1>7. flight' \in [Requests -> FlightRec]
  <2>1. flight[f].joiners - 1 \in 0..MaxJoiners
    BY <1>1, <1>4, <1>6, Constants DEF FlightRec
  <2>2. [flight[f] EXCEPT !.joiners = @ - 1] \in FlightRec
    BY <1>1, <1>4, <2>1 DEF FlightRec
  <2> QED BY <1>1, <1>2, <1>4, <2>2
<1>8. /\ \A c \in Requests \ {f} : flight'[c] = flight[c]
      /\ flight'[f] = [flight[f] EXCEPT !.joiners = @ - 1]
  BY <1>1, <1>2, <1>4
<1>9. \A c \in Requests : /\ flight'[c].done = flight[c].done
                          /\ flight'[c].completed = flight[c].completed
                          /\ flight'[c].until = flight[c].until
  <2>1. /\ flight'[f].done = flight[f].done /\ flight'[f].completed = flight[f].completed
        /\ flight'[f].until = flight[f].until
    BY <1>1, <1>4, <1>8 DEF FlightRec
  <2> QED BY <1>8, <2>1
<1>10. Moves(r, q)
  BY <1>2, <1>3, <1>5, <1>8, <1>9 DEF Moves, Over
<1>11. req'[r] = q /\ \A c \in Requests \ {r} : req'[c] = req[c]
  BY <1>1, <1>10, Moved
<1>12. Counted'
  <2> SUFFICES ASSUME NEW c \in Requests
               PROVE  flight'[c].joiners = Cardinality(Waiting(c)')
    BY DEF Counted
  <2>1. flight[c].joiners = Cardinality(Waiting(c))
    BY <1>1 DEF Counted
  <2>2. CASE c # f
    <3>1. Waiting(c)' = Waiting(c)
      BY <1>3, <1>11, <2>2 DEF Waiting, f
    <3> QED BY <1>8, <2>1, <2>2, <3>1
  <2>3. CASE c = f
    <3>1. Waiting(c)' = Waiting(c) \ {r}
      BY <1>3, <1>11, <2>3 DEF Waiting
    <3>2. flight'[f].joiners = flight[f].joiners - 1
      BY <1>1, <1>4, <1>8 DEF FlightRec
    <3> QED BY <1>6, <2>3, <3>1, <3>2
  <2> QED BY <2>2, <2>3
<1>13. ReqOK(r)'
  <2>1. box[r] = NoBox /\ flight'[r] = flight[r]
    BY <1>1, <1>5, <1>8 DEF ReqOK, Claimed, Over
  <2>2. flight[r] = NoFlight
    BY <1>1 DEF ReqOK
  <2>3. req'[r].at \notin LeadPlaces /\ req'[r].at \notin {"new", "join", "wait"} /\ req'[r].at \in Over
    BY <1>3, <1>11
  <2>4. box'[r] = NoBox /\ ~flight'[r].completed /\ ~flight'[r].done
    BY <1>2, <1>5, <2>1
  <2> QED BY <2>3, <2>4 DEF ReqOK, Leads
<1>14. JoinOK(r)' /\ ~Leads(r)'
  BY <1>3, <1>11 DEF JoinOK, Leads
<1>15. Leads(r) <=> q.at \in LeadPlaces
  BY <1>3, <1>5
<1>16. \A k \in Keys \ doors : LeaderOK(r, k)'
  BY <1>14 DEF LeaderOK
<1> QED BY <1>7, <1>9, <1>10, <1>12, <1>13, <1>14, <1>15, <1>16, ReqStep

LEMMA JoinDoneOK ==
  ASSUME IInv, NEW r \in Requests, NEW excluded, JoinDone(r, excluded)
  PROVE  IInv'
<1> DEFINE f == req[r].on
           at == IF req[f].at = "ok" /\ excluded THEN "failed" ELSE req[f].at
           q == [req[r] EXCEPT !.at = at, !.got = req[f].got, !.on = None]
<1>1. /\ TypeOK /\ Records /\ req[r] \in ReqRec /\ JoinOK(r)
      /\ \A c \in Requests : ReqOK(c) /\ GotOK(c) /\ req[c] \in ReqRec
  BY Parts, Typed
<1>2. /\ req[r].at = "wait" /\ req' = [req EXCEPT ![r] = q] /\ flight[f].done
      /\ flight' = [flight EXCEPT ![f].joiners = @ - 1]
      /\ UNCHANGED <<clock, targets, removing, cache, box, rel, hist>>
  BY DEF JoinDone, Joined
<1>3. /\ f \in Requests /\ req[f].key = req[r].key /\ req[f].spec = req[r].spec
      /\ req[f].at \in Over /\ req[f] \in ReqRec /\ GotOK(f)
  BY <1>1, <1>2 DEF JoinOK, ReqOK
<1>4. at \in Over /\ (at = "ok" => req[f].at = "ok")
  BY <1>3 DEF Over
<1> HIDE DEF f, at
<1>5. /\ q \in ReqRec /\ q.at = at /\ q.got = req[f].got
      /\ q.key = req[r].key /\ q.spec = req[r].spec
  BY <1>1, <1>3, <1>4 DEF ReqRec, Places
<1> HIDE DEF q
<1>6. req'[r] = q /\ \A c \in Requests \ {r} : req'[c] = req[c]
  BY <1>1, <1>2 DEF TypeOK
<1>7. GotOK(r)'
  <2>1. \A c \in Requests : req'[c].key = req[c].key /\ req'[c].spec = req[c].spec
    BY <1>5, <1>6
  <2>2. req[f].got \in Requests \cup {None}
    BY <1>3 DEF ReqRec
  <2>3. req[f].got # None => /\ box[req[f].got].prov # None
                             /\ req[req[f].got].key = req[r].key
    BY <1>3 DEF GotOK
  <2>4. at = "ok" => req[f].got # None /\ req[req[f].got].spec = req[r].spec
    BY <1>3, <1>4 DEF GotOK
  <2>5. at # "succeed"
    BY <1>4 DEF Over
  <2> QED BY <1>2, <1>5, <1>6, <2>1, <2>2, <2>3, <2>4, <2>5 DEF GotOK
<1>8. flight' = [flight EXCEPT ![req[r].on].joiners = @ - 1]
  BY <1>2 DEF f
<1> QED BY <1>2, <1>4, <1>5, <1>7, <1>8, LeaveWait

LEMMA JoinCancelledOK ==
  ASSUME IInv, NEW r \in Requests, JoinCancelled(r)
  PROVE  IInv'
<1> DEFINE q == [req[r] EXCEPT !.at = "unknown", !.on = None]
<1>1. TypeOK /\ req[r] \in ReqRec /\ GotOK(r)
  BY Parts, Typed
<1>2. /\ req[r].at = "wait" /\ req' = [req EXCEPT ![r] = q]
      /\ flight' = [flight EXCEPT ![req[r].on].joiners = @ - 1]
      /\ UNCHANGED <<clock, targets, removing, cache, box, rel, hist>>
  BY DEF JoinCancelled
<1>3. /\ q \in ReqRec /\ q.at = "unknown" /\ q.at \in Over /\ q.got = req[r].got
      /\ q.key = req[r].key /\ q.spec = req[r].spec
  BY <1>1 DEF ReqRec, Places, Over
<1> HIDE DEF q
<1>4. req'[r] = q /\ \A c \in Requests \ {r} : req'[c] = req[c]
  BY <1>1, <1>2 DEF TypeOK
<1>5. GotOK(r)'
  <2>1. \A c \in Requests : req'[c].key = req[c].key /\ req'[c].spec = req[c].spec
    BY <1>3, <1>4
  <2>2. req[r].got \in Requests \cup {None}
    BY <1>1 DEF ReqRec
  <2> QED BY <1>1, <1>2, <1>3, <1>4, <2>1, <2>2 DEF GotOK
<1> QED BY <1>2, <1>3, <1>5, LeaveWait

-----------------------------------------------------------------------------
(* A leader looks its key up, and ends its attempt without a claim.        *)

\* What a leader with the record q has still to look at covers the sandbox b.
Covers(q, b) ==
    /\ q.at = "probe" => q.got = b \/ box[b].prov \in q.todo \cup q.dark
    /\ q.at = "claim" => q.snap \subseteq {box[b].prov}

\* The leader r becomes q without a claim.
Advances(r, q) ==
    /\ req[r].at \in {"lead", "probe", "claim"}
    /\ q \in ReqRec /\ q.at \in {"probe", "claim", "succeed", "fail"}
    /\ q.key = req[r].key /\ q.spec = req[r].spec
    /\ req' = [req EXCEPT ![r] = q]
    /\ UNCHANGED <<clock, targets, removing, cache, flight, box, rel, hist>>
    /\ q.got # None => box[q.got].prov # None /\ req[q.got].key = q.key
    /\ q.at = "succeed" => q.got # None /\ req[q.got].spec = q.spec

LEMMA LeaderStep ==
  ASSUME IInv, NEW r \in Requests, NEW q, Advances(r, q),
         \A b \in Requests : Lives(b, q.key) /\ q.key \notin doors => Covers(q, b)
  PROVE  IInv'
<1>0. /\ req[r].at \in {"lead", "probe", "claim"}
      /\ q \in ReqRec /\ q.at \in {"probe", "claim", "succeed", "fail"}
      /\ q.key = req[r].key /\ q.spec = req[r].spec
      /\ req' = [req EXCEPT ![r] = q]
      /\ UNCHANGED <<clock, targets, removing, cache, flight, box, rel, hist>>
      /\ q.got # None => box[q.got].prov # None /\ req[q.got].key = q.key
      /\ q.at = "succeed" => q.got # None /\ req[q.got].spec = q.spec
  BY DEF Advances
<1>1. /\ TypeOK /\ Records /\ ReqOK(r)
      /\ \A k \in Keys \ doors : LeaderOK(r, k)
  BY Parts
<1>2. Leads(r) /\ q.at \in LeadPlaces
  BY <1>0 DEF Leads, LeadPlaces
<1>3. Moves(r, q)
  BY <1>0, <1>2 DEF Moves, Over
<1>4. req'[r] = q /\ \A c \in Requests \ {r} : req'[c] = req[c]
  BY <1>1, <1>3, Moved
<1>5. ReqOK(r)' /\ JoinOK(r)'
  <2>1. box[r] = NoBox /\ ~flight[r].done /\ ~flight[r].completed /\ q.key \in Keys /\ q.spec \in Specs
    BY <1>0, <1>1, <1>2 DEF ReqOK, Claimed, Over
  <2> QED BY <1>0, <1>2, <1>4, <2>1 DEF ReqOK, JoinOK, Over, Leads, Claimed, LeadPlaces
<1>6. \A c \in Requests : req'[c].key = req[c].key /\ req'[c].spec = req[c].spec
  BY <1>0, <1>4
<1>7. GotOK(r)'
  <2>1. q.got \in Requests \cup {None} /\ q.at # "ok"
    BY <1>0 DEF ReqRec
  <2> QED BY <1>0, <1>4, <1>6, <2>1 DEF GotOK
<1>8. ASSUME NEW k \in Keys \ doors
      PROVE  LeaderOK(r, k)'
  <2>1. \A b \in Requests : Lives(b, k)' <=> Lives(b, k)
    BY <1>0, <1>6 DEF Lives
  <2>2. q.key = k => flights[k] = r
    BY <1>0, <1>1, <1>2 DEF LeaderOK
  <2>3. flights' = flights /\ box' = box
    BY <1>0 DEF cache
  <2>4. ASSUME q.key = k, NEW b \in Requests, Lives(b, k)
        PROVE  Covers(q, b)
    BY <2>4
  <2>5. q.at # "lead"
    BY <1>0
  <2> QED BY <1>4, <2>1, <2>2, <2>3, <2>4, <2>5 DEF LeaderOK, Covers
<1> QED BY <1>0, <1>2, <1>3, <1>5, <1>7, <1>8, PlainStep

\* The only sandbox of its key that a leader can find.
LEMMA LeaderSees ==
  ASSUME IInv, NEW r \in Requests, Leads(r), NEW b \in Requests,
         Lives(b, req[r].key), req[r].key \notin doors
  PROVE  /\ req[r].key \in Keys /\ box[b].prov \in targets /\ clock < box[b].exp
         /\ req[r].at = "lead" /\ ~req[r].retry => box[b].exp <= evictedUnexpiredUntil
         /\ Covers(req[r], b)
         /\ \A c \in Requests : Lives(c, req[r].key) => c = b
<1>1. req[r].key \in Keys
  BY Parts DEF ReqOK, Leads, LeadPlaces, Over
<1>2. BoxOK(b, req[r].key) /\ LeaderOK(r, req[r].key) /\ LifeOK(b)
  BY <1>1, Parts
<1> QED BY <1>1, <1>2 DEF BoxOK, LeaderOK, LifeOK, Covers, Lives

LEMMA ExecuteFlightOK ==
  ASSUME IInv, NEW r \in Requests, ExecuteFlight(r)
  PROVE  IInv'
<1> DEFINE q == [req[r] EXCEPT !.at = IF MustLookUp(r) THEN "probe" ELSE "claim",
                          !.retry = FALSE, !.snap = targets,
                          !.todo = IF MustLookUp(r) THEN targets ELSE {}]
<1>1. /\ TypeOK /\ req[r] \in ReqRec /\ GotOK(r) /\ targets \subseteq Providers
      /\ clock \in Nat /\ evictedUnexpiredUntil \in Nat
      /\ \A b \in Requests : box[b] \in BoxRec
  BY Parts, Typed DEF TypeOK
<1>2. /\ req[r].at = "lead" /\ req' = [req EXCEPT ![r] = q]
      /\ UNCHANGED <<clock, targets, removing, cache, flight, box, rel, hist>>
  BY DEF ExecuteFlight
<1>3. /\ q \in ReqRec /\ q.at = (IF MustLookUp(r) THEN "probe" ELSE "claim")
      /\ q.got = req[r].got /\ q.snap = targets
      /\ q.todo = (IF MustLookUp(r) THEN targets ELSE {})
      /\ q.key = req[r].key /\ q.spec = req[r].spec
  BY <1>1 DEF ReqRec, Places
<1> HIDE DEF q
<1>4. ASSUME NEW b \in Requests, Lives(b, q.key), q.key \notin doors
      PROVE  Covers(q, b)
  <2>1. /\ box[b].prov \in targets /\ clock < box[b].exp
        /\ ~req[r].retry => box[b].exp <= evictedUnexpiredUntil
    BY <1>2, <1>3, <1>4, LeaderSees DEF Leads, LeadPlaces
  <2>2. box[b].exp \in Nat
    BY <1>1, Constants DEF BoxRec
  <2>3. MustLookUp(r)
    BY <1>1, <2>1, <2>2 DEF MustLookUp
  <2> QED BY <1>3, <2>1, <2>3 DEF Covers
<1>5. Advances(r, q)
  BY <1>1, <1>2, <1>3 DEF Advances, GotOK
<1> QED BY <1>4, <1>5, LeaderStep

LEMMA ProbeOK ==
  ASSUME IInv, NEW r \in Requests, NEW p \in Providers, Probe(r, p)
  PROVE  IInv'
<1> DEFINE there == BoxesAt(p, req[r].key)
           got == IF there = {} THEN req[r].got ELSE CHOOSE b \in there : TRUE
           q == [req[r] EXCEPT !.todo = @ \ {p}, !.got = got]
<1>1. /\ TypeOK /\ req[r] \in ReqRec /\ GotOK(r)
      /\ \A b \in Requests : LifeOK(b)
  BY Parts, Typed
<1>2. /\ req[r].at = "probe" /\ p \in req[r].todo /\ req' = [req EXCEPT ![r] = q]
      /\ UNCHANGED <<clock, targets, removing, cache, flight, box, rel, hist>>
  BY DEF Probe
<1>3. there # {} => got \in Requests /\ Lives(got, req[r].key)
  <2>1. there # {} => got \in there
    OBVIOUS
  <2> HIDE DEF got
  <2> QED BY <2>1 DEF BoxesAt, Lives
<1>4. there = {} => got = req[r].got
  OBVIOUS
<1>5. \A b \in Requests : Lives(b, req[r].key) /\ box[b].prov = p => b \in there
  BY DEF BoxesAt, Lives
<1> HIDE DEF there, got
<1>6. got \in Requests \cup {None}
  BY <1>1, <1>3, <1>4 DEF ReqRec
<1>7. /\ q \in ReqRec /\ q.at = "probe" /\ q.got = got /\ q.todo = req[r].todo \ {p}
      /\ q.dark = req[r].dark
      /\ q.key = req[r].key /\ q.spec = req[r].spec
  BY <1>1, <1>2, <1>6 DEF ReqRec
<1> HIDE DEF q
<1>8. q.got # None => box[q.got].prov # None /\ req[q.got].key = q.key
  BY <1>1, <1>3, <1>4, <1>7 DEF GotOK, LifeOK, Lives
<1>9. ASSUME NEW b \in Requests, Lives(b, q.key), q.key \notin doors
      PROVE  Covers(q, b)
  <2>1. /\ req[r].got = b \/ box[b].prov \in req[r].todo \cup req[r].dark
        /\ \A c \in Requests : Lives(c, req[r].key) => c = b
    BY <1>2, <1>7, <1>9, LeaderSees DEF Leads, LeadPlaces, Covers
  <2>2. CASE there # {}
    <3>1. got = b
      BY <1>3, <2>1, <2>2
    <3> QED BY <1>7, <3>1 DEF Covers
  <2>3. CASE there = {}
    <3>1. box[b].prov # p
      BY <1>5, <1>7, <1>9, <2>3
    <3> QED BY <1>4, <1>7, <2>1, <2>3, <3>1 DEF Covers
  <2> QED BY <2>2, <2>3
<1>10. req[r].at \in {"lead", "probe", "claim"} /\ q.at \in {"probe", "claim", "succeed", "fail"}
       /\ q.at # "succeed"
  BY <1>2, <1>7
<1>11. Advances(r, q)
  BY <1>2, <1>7, <1>8, <1>10 DEF Advances
<1> QED BY <1>9, <1>11, LeaderStep

LEMMA ProbeDarkOK ==
  ASSUME IInv, NEW r \in Requests, NEW p \in Providers, ProbeDark(r, p)
  PROVE  IInv'
<1> DEFINE q == [req[r] EXCEPT !.todo = @ \ {p}, !.dark = @ \cup {p}]
<1>1. TypeOK /\ req[r] \in ReqRec /\ GotOK(r)
  BY Parts, Typed
<1>2. /\ req[r].at = "probe" /\ p \in req[r].todo /\ req' = [req EXCEPT ![r] = q]
      /\ UNCHANGED <<clock, targets, removing, cache, flight, box, rel, hist>>
  BY DEF ProbeDark
<1>3. /\ q \in ReqRec /\ q.at = "probe" /\ q.got = req[r].got
      /\ q.todo = req[r].todo \ {p} /\ q.dark = req[r].dark \cup {p}
      /\ q.key = req[r].key /\ q.spec = req[r].spec
  BY <1>1, <1>2 DEF ReqRec
<1> HIDE DEF q
<1>4. q.got # None => box[q.got].prov # None /\ req[q.got].key = q.key
  BY <1>1, <1>3 DEF GotOK
<1>5. ASSUME NEW b \in Requests, Lives(b, q.key), q.key \notin doors
      PROVE  Covers(q, b)
  <2>1. req[r].got = b \/ box[b].prov \in req[r].todo \cup req[r].dark
    BY <1>2, <1>3, <1>5, LeaderSees DEF Leads, LeadPlaces, Covers
  <2> QED BY <1>3, <2>1 DEF Covers
<1>6. req[r].at \in {"lead", "probe", "claim"} /\ q.at \in {"probe", "claim", "succeed", "fail"}
      /\ q.at # "succeed"
  BY <1>2, <1>3
<1>7. Advances(r, q)
  BY <1>2, <1>3, <1>4, <1>6 DEF Advances
<1> QED BY <1>5, <1>7, LeaderStep

LEMMA ProbedOK ==
  ASSUME IInv, NEW r \in Requests, Probed(r)
  PROVE  IInv'
<1> DEFINE found == req[r].got
           dark == req[r].dark
           snap == IF dark = {} THEN req[r].snap ELSE dark
           at == IF found # None
                 THEN IF req[found].spec = req[r].spec THEN "succeed" ELSE "fail"
                 ELSE IF Cardinality(dark) <= 1 THEN "claim" ELSE "fail"
           q == [req[r] EXCEPT !.dark = {}, !.snap = snap, !.at = at]
<1>1. TypeOK /\ req[r] \in ReqRec /\ GotOK(r)
  BY Parts, Typed
<1>2. /\ req[r].at = "probe" /\ req[r].todo = {} /\ req' = [req EXCEPT ![r] = q]
      /\ UNCHANGED <<clock, targets, removing, cache, flight, box, rel, hist>>
  BY DEF Probed
<1>3. at \in {"claim", "succeed", "fail"} /\ snap \in SUBSET Providers
  BY <1>1 DEF ReqRec
<1>4. /\ at = "succeed" => found # None /\ req[found].spec = req[r].spec
      /\ at = "claim" => found = None /\ Cardinality(dark) <= 1
  OBVIOUS
<1>5. dark # {} => snap = dark
  OBVIOUS
<1>6. dark \subseteq Providers
  BY <1>1 DEF ReqRec
<1> HIDE DEF at, snap
<1>7. /\ q \in ReqRec /\ q.at = at /\ q.got = found /\ q.snap = snap
      /\ q.key = req[r].key /\ q.spec = req[r].spec
  BY <1>1, <1>2, <1>3 DEF ReqRec, Places
<1> HIDE DEF q
<1>8. q.got # None => box[q.got].prov # None /\ req[q.got].key = q.key
  BY <1>1, <1>7 DEF GotOK
<1>9. ASSUME NEW b \in Requests, Lives(b, q.key), q.key \notin doors
      PROVE  Covers(q, b)
  <2>1. found = b \/ box[b].prov \in dark
    BY <1>2, <1>7, <1>9, LeaderSees DEF Leads, LeadPlaces, Covers
  <2>2. CASE at = "claim"
    <3>1. box[b].prov \in dark /\ Cardinality(dark) <= 1
      BY <1>4, <2>1, <2>2, Constants
    <3>2. IsFiniteSet(dark) /\ Cardinality(dark) \in Nat
      BY <1>6, Constants, FS_Subset, FS_CardinalityType
    <3>3. Cardinality(dark) = 1
      BY <3>1, <3>2, FS_EmptySet
    <3>4. dark = {box[b].prov}
      <4>1. PICK x : dark = {x}
        BY <3>2, <3>3, FS_Singleton
      <4> QED BY <3>1, <4>1
    <3> QED BY <1>5, <1>7, <2>2, <3>4 DEF Covers
  <2>3. CASE at # "claim"
    BY <1>3, <1>7, <2>3 DEF Covers
  <2> QED BY <2>2, <2>3
<1>10. req[r].at \in {"lead", "probe", "claim"} /\ q.at \in {"probe", "claim", "succeed", "fail"}
  BY <1>2, <1>3, <1>7
<1>11. Advances(r, q)
  BY <1>2, <1>4, <1>7, <1>8, <1>10 DEF Advances
<1> QED BY <1>9, <1>11, LeaderStep

LEMMA ProbeFailsOK ==
  ASSUME IInv, NEW r \in Requests, ProbeFails(r)
  PROVE  IInv'
<1> DEFINE q == [req[r] EXCEPT !.at = "fail", !.got = None, !.dark = {}]
<1>1. TypeOK /\ req[r] \in ReqRec
  BY Parts, Typed
<1>2. /\ req[r].at = "probe" /\ req' = [req EXCEPT ![r] = q]
      /\ UNCHANGED <<clock, targets, removing, cache, flight, box, rel, hist>>
  BY DEF ProbeFails
<1>3. /\ q \in ReqRec /\ q.at = "fail" /\ q.got = None
      /\ q.key = req[r].key /\ q.spec = req[r].spec
  BY <1>1, <1>2 DEF ReqRec, Places
<1> HIDE DEF q
<1>4. \A b \in Requests : Covers(q, b)
  BY <1>3 DEF Covers
<1>5. req[r].at \in {"lead", "probe", "claim"} /\ q.at \in {"probe", "claim", "succeed", "fail"}
      /\ q.at # "succeed"
  BY <1>2, <1>3
<1>6. Advances(r, q)
  BY <1>2, <1>3, <1>5 DEF Advances
<1> QED BY <1>4, <1>6, LeaderStep

LEMMA ClaimFailsOK ==
  ASSUME IInv, NEW r \in Requests, ClaimFails(r)
  PROVE  IInv'
<1> DEFINE q == [req[r] EXCEPT !.at = "fail"]
<1>1. TypeOK /\ req[r] \in ReqRec /\ GotOK(r)
  BY Parts, Typed
<1>2. /\ req[r].at = "claim" /\ req' = [req EXCEPT ![r] = q]
      /\ UNCHANGED <<clock, targets, removing, cache, flight, box, rel, hist>>
  BY DEF ClaimFails
<1>3. /\ q \in ReqRec /\ q.at = "fail" /\ q.got = req[r].got
      /\ q.key = req[r].key /\ q.spec = req[r].spec
  BY <1>1, <1>2 DEF ReqRec, Places
<1> HIDE DEF q
<1>4. q.got # None => box[q.got].prov # None /\ req[q.got].key = q.key
  BY <1>1, <1>3 DEF GotOK
<1>5. \A b \in Requests : Covers(q, b)
  BY <1>3 DEF Covers
<1>6. req[r].at \in {"lead", "probe", "claim"} /\ q.at \in {"probe", "claim", "succeed", "fail"}
      /\ q.at # "succeed"
  BY <1>2, <1>3
<1>7. Advances(r, q)
  BY <1>2, <1>3, <1>4, <1>6 DEF Advances
<1> QED BY <1>5, <1>7, LeaderStep

-----------------------------------------------------------------------------
(* Steps of releases, of the controller and of the clock: sandboxes and    *)
(* entries only go.                                                        *)

\* An entry that goes while its key is in the flights' care had completed with a
\* sandbox that is dead.
Withdraws ==
    /\ UNCHANGED <<req, flight, completedOrder, evictedUnexpiredUntil>>
    /\ clock <= clock' /\ doors \subseteq doors'
    /\ \A b \in Requests :
          /\ box'[b].prov = box[b].prov /\ box'[b].exp = box[b].exp
          /\ box'[b].live => box[b].live /\ clock' < box[b].exp
    /\ \A k \in Keys : flights'[k] = flights[k] \/ flights'[k] = None
    /\ \A k \in Keys \ doors' :
          /\ flights'[k] # flights[k] => k \in Completed /\ ~box'[req[flights[k]].got].live
          /\ \A b \in Requests : Lives(b, k)' => box[b].prov \in targets'

LEMMA WithdrawStep ==
  ASSUME IInv, Withdraws, TypeOK', removing' \notin targets',
         \A l \in Releasers : RelOK(l)',
         \A k \in Keys : CachedOK(k)'
  PROVE  IInv'
<1>0. /\ TypeOK /\ Records /\ Counted /\ Capped
      /\ \A c \in Requests : ReqOK(c) /\ JoinOK(c) /\ GotOK(c) /\ LifeOK(c)
      /\ \A k \in Keys : EntryOK(k) /\ CachedOK(k)
      /\ \A k \in Keys \ doors : \A c \in Requests : BoxOK(c, k) /\ LeaderOK(c, k)
  BY Parts
<1>1. /\ req' = req /\ flight' = flight /\ completedOrder' = completedOrder
      /\ evictedUnexpiredUntil' = evictedUnexpiredUntil
      /\ clock \in Nat /\ clock' \in Nat /\ clock <= clock' /\ doors \subseteq doors'
  BY <1>0, Constants DEF Withdraws, TypeOK
<1>2. \A b \in Requests :
        /\ box'[b].prov = box[b].prov /\ box'[b].exp = box[b].exp
        /\ box'[b].live => box[b].live /\ clock' < box[b].exp
        /\ box[b].exp \in Nat
  BY <1>0, Typed, Constants DEF Withdraws, BoxRec
<1>3. \A k \in Keys : /\ flights'[k] = flights[k] \/ flights'[k] = None
                      /\ flights[k] # None => flights[k] \in Requests
  BY <1>0, Typed DEF Withdraws
<1>4. \A b \in Requests, k \in Keys : Lives(b, k)' => Lives(b, k)
  BY <1>1, <1>2 DEF Lives
<1>5. Records'
  <2>1. ASSUME NEW c \in Requests
        PROVE  ReqOK(c)'
    <3>1. ASSUME box[c] = NoBox
          PROVE  box'[c] = NoBox
      <4>1. box'[c] \in BoxRec /\ box[c] \in BoxRec
        BY <1>0 DEF TypeOK, BoxRec
      <4>2. ~box'[c].live /\ box'[c].prov = None /\ box'[c].exp = 0
        BY <1>2, <3>1 DEF NoBox
      <4> QED BY <4>1, <4>2 DEF BoxRec, NoBox
    <3> QED BY <1>0, <1>1, <3>1 DEF ReqOK, Leads
  <2>2. ASSUME NEW c \in Requests
        PROVE  JoinOK(c)'
    BY <1>0, <1>1 DEF JoinOK, Leads
  <2>3. ASSUME NEW c \in Requests
        PROVE  GotOK(c)'
    <3>1. req[c].got \in Requests \cup {None}
      BY <1>0, Typed DEF ReqRec
    <3> QED BY <1>0, <1>1, <1>2, <3>1 DEF GotOK
  <2>4. ASSUME NEW c \in Requests
        PROVE  LifeOK(c)'
    <3>1. LifeOK(c) /\ TTL \in Nat
      BY <1>0, Constants
    <3>2. box[c].exp <= clock + TTL => box[c].exp <= clock' + TTL
      BY <1>1, <1>2, <3>1
    <3> QED BY <1>1, <1>2, <3>1, <3>2 DEF LifeOK
  <2>5. ASSUME NEW k \in Keys
        PROVE  EntryOK(k)'
    BY <1>0, <1>1, <1>3 DEF EntryOK, Leads
  <2> QED BY <2>1, <2>2, <2>3, <2>4, <2>5 DEF Records
<1>6. Counted'
  BY <1>0, <1>1 DEF Counted, Waiting
<1>7. Capped'
  <2>1. Completed' \subseteq Completed /\ Completed \subseteq Keys
    BY <1>1, <1>3 DEF Completed, CompletedIn
  <2>2. IsFiniteSet(Completed)
    BY <2>1, Constants, FS_Subset
  <2>3. /\ Cardinality(Completed') <= Cardinality(Completed)
        /\ Cardinality(Completed') \in Nat /\ Cardinality(Completed) \in Nat
    BY <2>1, <2>2, FS_Subset, FS_CardinalityType
  <2>4. Cardinality(Completed') <= MaxCompleted
    BY <1>0, <2>3, Constants DEF Capped
  <2> QED BY <1>0, <1>1, <2>1, <2>4 DEF Capped
<1>8. ASSUME NEW k \in Keys \ doors', NEW b \in Requests
      PROVE  BoxOK(b, k)'
  <2> SUFFICES ASSUME Lives(b, k)'
               PROVE  Backed(b, k)'
    <3>1. ASSUME NEW c \in Requests, Lives(c, k)', Lives(b, k)'
          PROVE  c = b
      BY <1>0, <1>1, <1>4, <3>1 DEF BoxOK
    <3>2. Lives(b, k)' => box'[b].prov \in targets'
      BY <1>2 DEF Withdraws
    <3> QED BY <3>1, <3>2 DEF BoxOK
  <2>1. Backed(b, k) /\ box'[b].live
    BY <1>0, <1>1, <1>4 DEF BoxOK, Lives
  <2>2. CASE box[b].exp <= evictedUnexpiredUntil
    BY <1>1, <1>2, <2>2 DEF Backed
  <2>3. CASE Unsettled(k)
    BY <1>1, <2>3 DEF Backed, Unsettled
  <2>4. CASE Kept(b, k)
    <3>1. flights'[k] = flights[k]
      BY <2>1, <2>4 DEF Withdraws, Kept
    <3> QED BY <1>1, <1>2, <2>4, <3>1 DEF Backed, Kept
  <2>5. CASE Ending(b, k)
    BY <1>1, <2>5 DEF Backed, Ending
  <2> QED BY <2>1, <2>2, <2>3, <2>4, <2>5 DEF Backed
<1>9. ASSUME NEW k \in Keys \ doors', NEW c \in Requests
      PROVE  LeaderOK(c, k)'
  <2> SUFFICES ASSUME Leads(c), req[c].key = k
               PROVE  LeaderOK(c, k)'
    BY <1>1 DEF LeaderOK, Leads
  <2>1. LeaderOK(c, k) /\ flights[k] = c /\ ~flight[c].completed
    BY <1>0, <1>1 DEF LeaderOK, ReqOK
  <2>2. flights'[k] = c
    BY <2>1 DEF Withdraws, Completed, CompletedIn
  <2> QED BY <1>1, <1>2, <1>4, <2>1, <2>2 DEF LeaderOK, Leads
<1>10. Single'
  BY <1>8, <1>9 DEF Single
<1> QED BY <1>5, <1>6, <1>7, <1>10 DEF IInv

\* The releaser l becomes q; nothing else changes.
RelMoves(l, q) ==
    /\ rel' = [rel EXCEPT ![l] = q] /\ q \in RelRec
    /\ rel[l].at # "evict"
    /\ UNCHANGED <<clock, targets, removing, cache, flight, req, box, hist>>

LEMMA RelStep ==
  ASSUME IInv, NEW l \in Releasers, NEW q, RelMoves(l, q), RelOK(l)'
  PROVE  IInv'
<1>0. /\ TypeOK
      /\ \A m \in Releasers : RelOK(m)
      /\ \A k \in Keys : CachedOK(k)
      /\ \A b \in Requests : LifeOK(b)
      /\ \A k \in Keys \ doors : \A c \in Requests : BoxOK(c, k)
      /\ removing \notin targets
  BY Parts
<1>1. /\ clock' = clock /\ targets' = targets /\ removing' = removing /\ flights' = flights
      /\ completedOrder' = completedOrder /\ evictedUnexpiredUntil' = evictedUnexpiredUntil
      /\ flight' = flight /\ req' = req /\ box' = box /\ doors' = doors /\ strays' = strays
  BY DEF RelMoves, cache, hist
<1>2. /\ rel' \in [Releasers -> RelRec] /\ rel'[l] = q
      /\ \A m \in Releasers \ {l} : rel'[m] = rel[m]
  BY <1>0 DEF RelMoves, TypeOK, RelRec
<1>3. TypeOK'
  BY <1>0, <1>1, <1>2 DEF TypeOK, RelRec
<1>4. \A m \in Releasers : RelOK(m)'
  BY <1>0, <1>1, <1>2 DEF RelOK
<1>5. ASSUME NEW k \in Keys
      PROVE  CachedOK(k)'
  <2>1. Completed' = Completed
    BY <1>1 DEF Completed, CompletedIn
  <2>2. ASSUME k \in Completed
        PROVE  Replayed(k, req[flights[k]].got)'
    <3>1. Replayed(k, req[flights[k]].got)
      BY <1>0, <2>2 DEF CachedOK
    <3>2. ASSUME NEW m \in Releasers, rel[m].at = "evict", rel[m].box = req[flights[k]].got
          PROVE  rel'[m] = rel[m]
      BY <1>2, <3>2 DEF RelMoves
    <3> QED BY <1>1, <3>1, <3>2 DEF Replayed
  <2> QED BY <2>1, <2>2 DEF CachedOK
<1>6. Withdraws
  <2>1. clock \in Nat
    BY <1>0, Typed
  <2>2. \A b \in Requests : box[b].live => clock < box[b].exp
    BY <1>0 DEF LifeOK
  <2>3. ASSUME NEW k \in Keys \ doors, NEW b \in Requests, Lives(b, k)'
        PROVE  box[b].prov \in targets
    BY <1>0, <1>1, <2>3 DEF BoxOK, Lives
  <2> QED BY <1>1, <2>1, <2>2, <2>3 DEF Withdraws
<1>7. removing' \notin targets'
  BY <1>0, <1>1
<1> QED BY <1>3, <1>4, <1>5, <1>6, <1>7, WithdrawStep

LEMMA IdleTyped == IdleRel \in RelRec /\ ~IdleRel.byKey /\ IdleRel.at = "idle"
BY DEF IdleRel, RelRec

LEMMA ReleaseOK ==
  ASSUME IInv, NEW l \in Releasers, NEW b \in Requests, Release(l, b)
  PROVE  IInv'
<1> DEFINE q == [IdleRel EXCEPT !.at = "drop", !.box = b]
<1>1. /\ q \in RelRec /\ q.at = "drop" /\ q.box = b /\ ~q.byKey
  BY DEF IdleRel, RelRec
<1>2. /\ TypeOK /\ rel' = [rel EXCEPT ![l] = q] /\ rel[l].at = "idle" /\ box[b].prov \in targets
      /\ UNCHANGED <<clock, targets, removing, cache, flight, req, box, hist>>
  BY Parts DEF Release
<1> HIDE DEF q
<1>3. rel'[l] = q /\ box[b].prov # None
  BY <1>2, Constants DEF TypeOK
<1>4. RelOK(l)' /\ RelMoves(l, q)
  BY <1>1, <1>2, <1>3 DEF RelOK, RelMoves
<1> QED BY <1>4, RelStep

LEMMA ReleaseByKeyOK ==
  ASSUME IInv, NEW l \in Releasers, NEW k \in Keys, ReleaseByKey(l, k)
  PROVE  IInv'
<1> DEFINE f == flights[k]
           running == f # None /\ ~flight[f].completed
           q == [IdleRel EXCEPT !.at = IF running THEN "await" ELSE "cached",
                                !.byKey = TRUE, !.key = k,
                                !.on = IF running THEN f ELSE None]
<1>1. TypeOK /\ f \in Requests \cup {None}
  BY Parts, Typed
<1>2. /\ rel' = [rel EXCEPT ![l] = q] /\ rel[l].at = "idle"
      /\ UNCHANGED <<clock, targets, removing, cache, flight, req, box, hist>>
  BY DEF ReleaseByKey
<1>3. running => f \in Requests
  BY <1>1
<1> HIDE DEF f, running
<1>4. /\ q \in RelRec /\ q.byKey /\ q.key = k /\ q.at \in {"await", "cached"}
      /\ q.at = "await" => q.on \in Requests
  BY <1>3 DEF IdleRel, RelRec
<1> HIDE DEF q
<1>5. rel'[l] = q
  BY <1>1, <1>2 DEF TypeOK
<1>6. RelOK(l)' /\ RelMoves(l, q)
  BY <1>2, <1>4, <1>5 DEF RelOK, RelMoves
<1> QED BY <1>6, RelStep

LEMMA AwaitedOK ==
  ASSUME IInv, NEW l \in Releasers, Awaited(l)
  PROVE  IInv'
<1> DEFINE q == [rel[l] EXCEPT !.at = "cached", !.on = None]
<1>1. TypeOK /\ rel[l] \in RelRec /\ RelOK(l)
  BY Parts, Typed
<1>2. /\ rel' = [rel EXCEPT ![l] = q] /\ rel[l].at = "await"
      /\ UNCHANGED <<clock, targets, removing, cache, flight, req, box, hist>>
  BY DEF Awaited
<1>3. /\ q \in RelRec /\ q.at = "cached" /\ q.byKey = rel[l].byKey /\ q.key = rel[l].key
  BY <1>1 DEF RelRec
<1> HIDE DEF q
<1>4. rel'[l] = q
  BY <1>1, <1>2 DEF TypeOK
<1>5. RelOK(l)' /\ RelMoves(l, q)
  BY <1>1, <1>2, <1>3, <1>4 DEF RelOK, RelMoves
<1> QED BY <1>5, RelStep

LEMMA CachedStepOK ==
  ASSUME IInv, NEW l \in Releasers, Cached(l)
  PROVE  IInv'
<1> DEFINE k == rel[l].key
           b == IF flights[k] = None THEN None ELSE req[flights[k]].got
           search == [rel[l] EXCEPT !.at = "search", !.todo = targets]
           drop == [rel[l] EXCEPT !.at = "drop", !.box = b]
<1>1. /\ TypeOK /\ rel[l] \in RelRec /\ RelOK(l) /\ targets \subseteq Providers
      /\ \A c \in Requests : ReqOK(c) /\ GotOK(c) /\ req[c] \in ReqRec
  BY Parts, Typed DEF TypeOK
<1>2. /\ rel[l].at = "cached" /\ rel[l].byKey /\ k \in Keys
      /\ UNCHANGED <<clock, targets, removing, cache, flight, req, box, hist>>
  BY <1>1 DEF Cached, RelOK
<1>3. CASE k \notin Completed
  <2>1. rel' = [rel EXCEPT ![l] = search]
    BY <1>3 DEF Cached, Completed
  <2>2. /\ search \in RelRec /\ search.at = "search" /\ search.byKey = rel[l].byKey
        /\ search.key = rel[l].key
    BY <1>1 DEF RelRec
  <2> HIDE DEF search
  <2>3. rel'[l] = search
    BY <1>1, <2>1 DEF TypeOK
  <2>4. RelOK(l)' /\ RelMoves(l, search)
    BY <1>1, <1>2, <2>1, <2>2, <2>3 DEF RelOK, RelMoves
  <2> QED BY <2>4, RelStep
<1>4. CASE k \in Completed /\ box[b].prov \in targets
  <2>1. rel' = [rel EXCEPT ![l] = drop]
    BY <1>4 DEF Cached, Completed
  <2>2. b \in Requests /\ box[b].prov # None
    <3>1. flights[k] \in Requests /\ flight[flights[k]].completed
      BY <1>1, <1>4, Typed DEF Completed, CompletedIn
    <3>2. req[flights[k]].at = "ok"
      BY <1>1, <3>1 DEF ReqOK
    <3>3. /\ req[flights[k]].got # None /\ req[flights[k]].got \in Requests
          /\ box[req[flights[k]].got].prov # None
      BY <1>1, <3>1, <3>2 DEF GotOK, ReqRec
    <3> QED BY <3>1, <3>3, Constants
  <2> HIDE DEF b
  <2>3. /\ drop \in RelRec /\ drop.at = "drop" /\ drop.byKey = rel[l].byKey
        /\ drop.key = rel[l].key /\ drop.box = b
    BY <1>1, <2>2 DEF RelRec
  <2> HIDE DEF drop, k
  <2>4. rel'[l] = drop
    BY <1>1, <2>1 DEF TypeOK
  <2>5. RelOK(l)'
    BY <1>1, <1>2, <2>2, <2>3, <2>4 DEF RelOK
  <2>6. RelMoves(l, drop)
    BY <1>2, <2>1, <2>3 DEF RelMoves
  <2> QED BY <2>5, <2>6, RelStep
<1>5. CASE k \in Completed /\ box[b].prov \notin targets
  <2>1. rel' = [rel EXCEPT ![l] = IdleRel]
    BY <1>5 DEF Cached, Completed
  <2>2. rel'[l] = IdleRel
    BY <1>1, <2>1 DEF TypeOK
  <2>3. RelOK(l)' /\ RelMoves(l, IdleRel)
    BY <1>2, <2>1, <2>2, IdleTyped DEF RelOK, RelMoves
  <2> QED BY <2>3, RelStep
<1> QED BY <1>3, <1>4, <1>5

LEMMA SearchOK ==
  ASSUME IInv, NEW l \in Releasers, NEW p \in Providers, Search(l, p)
  PROVE  IInv'
<1> DEFINE there == BoxesAt(p, rel[l].key)
           b == IF there = {} THEN rel[l].box ELSE CHOOSE c \in there : TRUE
           q == [rel[l] EXCEPT !.todo = @ \ {p},
                               !.at = IF there = {} THEN @ ELSE "drop", !.box = b]
<1>1. /\ TypeOK /\ rel[l] \in RelRec /\ RelOK(l)
      /\ \A c \in Requests : LifeOK(c)
  BY Parts, Typed
<1>2. /\ rel' = [rel EXCEPT ![l] = q] /\ rel[l].at = "search"
      /\ UNCHANGED <<clock, targets, removing, cache, flight, req, box, hist>>
  BY DEF Search
<1>3. there # {} => b \in Requests /\ box[b].prov # None
  <2>1. there # {} => b \in there
    OBVIOUS
  <2> HIDE DEF b
  <2> QED BY <1>1, <2>1 DEF BoxesAt, LifeOK
<1>4. there = {} => b = rel[l].box
  OBVIOUS
<1> HIDE DEF there, b
<1>5. b \in Requests \cup {None}
  BY <1>1, <1>3, <1>4 DEF RelRec
<1>6. /\ q \in RelRec /\ q.at = (IF there = {} THEN "search" ELSE "drop") /\ q.box = b
      /\ q.byKey = rel[l].byKey /\ q.key = rel[l].key
  BY <1>1, <1>2, <1>5 DEF RelRec
<1> HIDE DEF q
<1>7. rel'[l] = q
  BY <1>1, <1>2 DEF TypeOK
<1>8. RelMoves(l, q)
  BY <1>2, <1>6 DEF RelMoves
<1>9. RelOK(l)'
  <2>1. q.at = "drop" => b \in Requests /\ box[b].prov # None
    BY <1>3, <1>6
  <2>2. q.at \in {"search", "drop"} /\ box' = box
    BY <1>2, <1>6
  <2> QED BY <1>1, <1>2, <1>6, <1>7, <2>1, <2>2 DEF RelOK
<1> QED BY <1>8, <1>9, RelStep

LEMMA GiveUpOK ==
  ASSUME IInv, NEW l \in Releasers, GiveUp(l)
  PROVE  IInv'
<1>1. /\ TypeOK /\ rel' = [rel EXCEPT ![l] = IdleRel] /\ rel[l].at # "evict"
      /\ UNCHANGED <<clock, targets, removing, cache, flight, req, box, hist>>
  BY Parts DEF GiveUp
<1>2. rel'[l] = IdleRel
  BY <1>1 DEF TypeOK
<1>3. RelOK(l)' /\ RelMoves(l, IdleRel)
  BY <1>1, <1>2, IdleTyped DEF RelOK, RelMoves
<1> QED BY <1>3, RelStep

\* What a withdrawing step may rely on.
LEMMA Before ==
  ASSUME IInv
  PROVE  /\ TypeOK /\ clock \in Nat /\ removing \notin targets
         /\ \A b \in Requests : /\ box[b] \in BoxRec
                                /\ box[b].live => box[b].prov # None /\ clock < box[b].exp
         /\ \A k \in Keys \ doors, b \in Requests : Lives(b, k) => box[b].prov \in targets
         /\ \A k \in Completed : /\ flights[k] \in Requests
                                 /\ req[flights[k]].got \in Requests
                                 /\ req[req[flights[k]].got].key = k
                                 /\ Replayed(k, req[flights[k]].got)
<1>1. TypeOK /\ clock \in Nat /\ removing \notin targets
  BY Parts, Typed
<1>2. \A b \in Requests : /\ box[b] \in BoxRec
                          /\ box[b].live => box[b].prov # None /\ clock < box[b].exp
  BY <1>1, Parts, Typed DEF LifeOK
<1>3. \A k \in Keys \ doors, b \in Requests : Lives(b, k) => box[b].prov \in targets
  BY Parts DEF BoxOK
<1>4. ASSUME NEW k \in Completed
      PROVE  /\ flights[k] \in Requests
             /\ req[flights[k]].got \in Requests
             /\ req[req[flights[k]].got].key = k
             /\ Replayed(k, req[flights[k]].got)
  <2>1. k \in Keys /\ flights[k] \in Requests /\ flight[flights[k]].completed
    BY <1>1, <1>4, Typed DEF Completed, CompletedIn
  <2>2. /\ ReqOK(flights[k]) /\ GotOK(flights[k]) /\ EntryOK(k) /\ CachedOK(k)
        /\ req[flights[k]] \in ReqRec /\ flights[k] # None
    BY <1>1, <2>1, Parts, Typed, Constants
  <2>3. req[flights[k]].at = "ok" /\ req[flights[k]].key = k
    BY <2>1, <2>2 DEF ReqOK, EntryOK
  <2>4. /\ req[flights[k]].got # None /\ req[flights[k]].got \in Requests
        /\ req[req[flights[k]].got].key = k
    BY <2>2, <2>3 DEF GotOK, ReqRec
  <2> QED BY <1>4, <2>1, <2>2, <2>4 DEF CachedOK
<1> QED BY <1>1, <1>2, <1>3, <1>4

LEMMA DropOK ==
  ASSUME IInv, NEW l \in Releasers, NEW lost \in BOOLEAN, Drop(l, lost)
  PROVE  IInv'
<1> DEFINE b == rel[l].box
           q == IF lost THEN IdleRel ELSE [rel[l] EXCEPT !.at = "evict"]
<1>1. /\ TypeOK /\ rel[l] \in RelRec /\ RelOK(l) /\ clock \in Nat /\ removing \notin targets
      /\ \A m \in Releasers : RelOK(m)
  BY Parts, Typed
<1>2. /\ rel[l].at = "drop" /\ rel' = [rel EXCEPT ![l] = q]
      /\ box' = [box EXCEPT ![b].live = FALSE]
      /\ strays' = (IF lost THEN strays \cup {b} ELSE strays)
      /\ clock' = clock /\ targets' = targets /\ removing' = removing /\ flights' = flights
      /\ completedOrder' = completedOrder /\ evictedUnexpiredUntil' = evictedUnexpiredUntil
      /\ flight' = flight /\ req' = req /\ doors' = doors
  BY DEF Drop, Go, cache
<1>3. b \in Requests /\ box[b].prov # None
  BY <1>1, <1>2 DEF RelOK
<1>4. /\ q \in RelRec /\ q.at = (IF lost THEN "idle" ELSE "evict")
      /\ ~lost => q.box = b /\ q.byKey = rel[l].byKey /\ q.key = rel[l].key
      /\ q.byKey => rel[l].byKey /\ q.key = rel[l].key
  BY <1>1, IdleTyped DEF RelRec
<1> HIDE DEF q, b
<1>5. rel'[l] = q /\ \A m \in Releasers \ {l} : rel'[m] = rel[m]
  BY <1>1, <1>2 DEF TypeOK
<1>6. /\ \A c \in Requests \ {b} : box'[c] = box[c]
      /\ box'[b] = [box[b] EXCEPT !.live = FALSE]
  BY <1>1, <1>2, <1>3 DEF TypeOK
<1>7. \A c \in Requests : /\ box'[c].prov = box[c].prov /\ box'[c].exp = box[c].exp
                          /\ box'[c].live => box[c].live /\ c # b
  <2>1. box[b] \in BoxRec
    BY <1>3, Before
  <2>2. box'[b].prov = box[b].prov /\ box'[b].exp = box[b].exp /\ ~box'[b].live
    BY <1>6, <2>1 DEF BoxRec
  <2> QED BY <1>6, <2>2
<1>8. TypeOK'
  <2>1. box' \in [Requests -> BoxRec]
    <3>1. \A c \in Requests : box[c] \in BoxRec
      BY Before
    <3>2. [box[b] EXCEPT !.live = FALSE] \in BoxRec
      BY <1>3, <3>1 DEF BoxRec
    <3>3. box \in [Requests -> BoxRec]
      BY <1>1 DEF TypeOK, BoxRec
    <3> QED BY <1>2, <3>2, <3>3
  <2>2. rel' \in [Releasers -> RelRec]
    BY <1>1, <1>2, <1>4 DEF TypeOK, RelRec
  <2>3. strays' \subseteq Requests
    BY <1>1, <1>2, <1>3 DEF TypeOK
  <2> QED BY <1>1, <1>2, <2>1, <2>2, <2>3 DEF TypeOK, BoxRec, RelRec
<1>9. Withdraws
  <2>1. \A k \in Keys, c \in Requests : Lives(c, k)' => Lives(c, k)
    BY <1>2, <1>7 DEF Lives
  <2> QED BY <1>1, <1>2, <1>7, <2>1, Before DEF Withdraws
<1>10. ASSUME NEW m \in Releasers
       PROVE  RelOK(m)'
  <2>1. CASE m = l
    <3>1. q.at \in {"idle", "evict"} /\ (q.at = "evict" => q.box = b)
      BY <1>4
    <3>2. ~box'[b].live /\ box'[b].prov # None
      BY <1>3, <1>7
    <3> QED BY <1>1, <1>3, <1>4, <1>5, <2>1, <3>1, <3>2 DEF RelOK
  <2>2. CASE m # l
    <3>1. rel'[m] = rel[m] /\ RelOK(m)
      BY <1>1, <1>5, <2>2
    <3> QED BY <1>7, <3>1 DEF RelOK
  <2> QED BY <2>1, <2>2
<1>11. ASSUME NEW k \in Keys
       PROVE  CachedOK(k)'
  <2>1. Completed' = Completed
    BY <1>2 DEF Completed, CompletedIn
  <2> SUFFICES ASSUME k \in Completed
               PROVE  Replayed(k, req[flights[k]].got)'
    BY <2>1 DEF CachedOK
  <2>2. Replayed(k, req[flights[k]].got) /\ req[flights[k]].got \in Requests
    BY Before
  <2>3. CASE req[flights[k]].got = b
    <3>1. lost => b \in strays'
      BY <1>2
    <3>2. ~lost => rel'[l].at = "evict" /\ rel'[l].box = b
      BY <1>4, <1>5
    <3> QED BY <1>2, <2>3, <3>1, <3>2 DEF Replayed
  <2>4. CASE req[flights[k]].got # b
    <3>1. box'[req[flights[k]].got] = box[req[flights[k]].got] /\ strays \subseteq strays'
      BY <1>2, <1>6, <2>2, <2>4
    <3>2. ASSUME NEW m \in Releasers, rel[m].at = "evict"
          PROVE  rel'[m] = rel[m]
      BY <1>2, <1>5, <3>2
    <3> QED BY <1>2, <2>2, <3>1, <3>2 DEF Replayed
  <2> QED BY <2>3, <2>4
<1> QED BY <1>1, <1>2, <1>8, <1>9, <1>10, <1>11, WithdrawStep

\* The entries of some keys leave the map.
LEMMA WithoutOK ==
  ASSUME TypeOK, NEW ks
  PROVE  /\ Without(flights, ks) \in [Keys -> Requests \cup {None}]
         /\ \A k \in Keys : Without(flights, ks)[k] = IF k \in ks THEN None ELSE flights[k]
BY Typed DEF Without

LEMMA EvictCompletedFlightOK ==
  ASSUME IInv, NEW l \in Releasers, EvictCompletedFlight(l)
  PROVE  IInv'
<1> DEFINE b == rel[l].box
           q == IF rel[l].byKey THEN [rel[l] EXCEPT !.at = "search"] ELSE IdleRel
           W == CompletedWith({b})
<1>1. /\ TypeOK /\ rel[l] \in RelRec /\ RelOK(l) /\ clock \in Nat /\ removing \notin targets
      /\ \A m \in Releasers : RelOK(m)
  BY Parts, Typed
<1>2. /\ rel[l].at = "evict" /\ rel' = [rel EXCEPT ![l] = q]
      /\ flights' = Without(flights, W)
      /\ clock' = clock /\ targets' = targets /\ removing' = removing
      /\ completedOrder' = completedOrder /\ evictedUnexpiredUntil' = evictedUnexpiredUntil
      /\ flight' = flight /\ req' = req /\ box' = box /\ doors' = doors /\ strays' = strays
  BY DEF EvictCompletedFlight, hist
<1>3. b \in Requests /\ ~box[b].live
  BY <1>1, <1>2 DEF RelOK
<1>4. /\ q \in RelRec /\ q.at \in {"idle", "search"} /\ (q.at = "search" => q.byKey)
      /\ q.byKey => rel[l].byKey /\ q.key = rel[l].key
  BY <1>1, IdleTyped DEF RelRec
<1>5. \A k \in W : k \in Completed /\ req[flights[k]].got = b
  BY DEF CompletedWith, Completed
<1>6. \A k \in Completed : req[flights[k]].got = b => k \in W
  BY DEF CompletedWith, Completed
<1> HIDE DEF q, b, W
<1>7. rel'[l] = q /\ \A m \in Releasers \ {l} : rel'[m] = rel[m]
  BY <1>1, <1>2 DEF TypeOK
<1>8. /\ flights' \in [Keys -> Requests \cup {None}]
      /\ \A k \in Keys : flights'[k] = IF k \in W THEN None ELSE flights[k]
  BY <1>1, <1>2, WithoutOK
<1>9. TypeOK'
  <2>1. rel' \in [Releasers -> RelRec]
    BY <1>1, <1>2, <1>4 DEF TypeOK, RelRec
  <2> QED BY <1>1, <1>2, <1>8, <2>1 DEF TypeOK, RelRec
<1>10. Withdraws
  <2>1. \A k \in Keys, c \in Requests : Lives(c, k)' => Lives(c, k)
    BY <1>2 DEF Lives
  <2> QED BY <1>1, <1>2, <1>3, <1>5, <1>8, <2>1, Before DEF Withdraws
<1>11. ASSUME NEW m \in Releasers
       PROVE  RelOK(m)'
  <2>1. CASE m = l
    BY <1>1, <1>4, <1>7, <2>1 DEF RelOK
  <2>2. CASE m # l
    <3>1. rel'[m] = rel[m] /\ RelOK(m)
      BY <1>1, <1>7, <2>2
    <3> QED BY <1>2, <3>1 DEF RelOK
  <2> QED BY <2>1, <2>2
<1>12. ASSUME NEW k \in Keys
       PROVE  CachedOK(k)'
  <2> SUFFICES ASSUME k \in Completed'
               PROVE  Replayed(k, req[flights[k]].got)'
    BY DEF CachedOK
  <2>1. k \in Completed /\ flights'[k] = flights[k] /\ k \notin W
    BY <1>2, <1>8 DEF Completed, CompletedIn
  <2>2. Replayed(k, req[flights[k]].got) /\ req[flights[k]].got # b
    BY <1>6, <2>1, Before
  <2>3. ASSUME NEW m \in Releasers, rel[m].box = req[flights[k]].got
        PROVE  rel'[m] = rel[m]
    BY <1>7, <2>2, <2>3 DEF b
  <2> QED BY <1>2, <2>1, <2>2, <2>3 DEF Replayed
<1>13. removing' \notin targets'
  BY <1>1, <1>2
<1> QED BY <1>9, <1>10, <1>11, <1>12, <1>13, WithdrawStep

LEMMA ForgetOK ==
  ASSUME IInv, NEW l \in Releasers, Forget(l)
  PROVE  IInv'
<1> DEFINE j == rel[l].key
           f == flights[j]
<1>1. /\ TypeOK /\ rel[l] \in RelRec /\ RelOK(l) /\ clock \in Nat /\ removing \notin targets
      /\ \A m \in Releasers : RelOK(m)
  BY Parts, Typed
<1>2. /\ rel[l].at = "search" /\ rel' = [rel EXCEPT ![l] = IdleRel]
      /\ flights' = Without(flights, {j})
      /\ doors' = (IF f # None /\ (flight[f].completed => box[req[f].got].live)
                   THEN doors \cup {j} ELSE doors)
      /\ clock' = clock /\ targets' = targets /\ removing' = removing
      /\ completedOrder' = completedOrder /\ evictedUnexpiredUntil' = evictedUnexpiredUntil
      /\ flight' = flight /\ req' = req /\ box' = box /\ strays' = strays
  BY DEF Forget
<1>3. j \in Keys
  BY <1>1, <1>2 DEF RelOK
<1>4. rel'[l] = IdleRel /\ \A m \in Releasers \ {l} : rel'[m] = rel[m]
  BY <1>1, <1>2 DEF TypeOK
<1>5. j \notin doors' /\ f # None => j \in Completed /\ ~box[req[f].got].live
  BY <1>2, <1>3 DEF Completed, CompletedIn
<1>6. doors \subseteq doors' /\ doors' \subseteq Keys
  BY <1>1, <1>2, <1>3 DEF TypeOK
<1> HIDE DEF j
<1>7. /\ flights' \in [Keys -> Requests \cup {None}]
      /\ \A k \in Keys : flights'[k] = IF k = j THEN None ELSE flights[k]
  BY <1>1, <1>2, WithoutOK
<1>8. TypeOK'
  <2>1. rel' \in [Releasers -> RelRec]
    BY <1>1, <1>2, IdleTyped DEF TypeOK, RelRec
  <2> QED BY <1>1, <1>2, <1>6, <1>7, <2>1 DEF TypeOK, RelRec
<1>9. Withdraws
  <2>1. \A k \in Keys, c \in Requests : Lives(c, k)' => Lives(c, k)
    BY <1>2 DEF Lives
  <2>2. \A k \in Keys \ doors' :
          flights'[k] # flights[k] => k \in Completed /\ ~box'[req[flights[k]].got].live
    BY <1>2, <1>5, <1>7
  <2>3. \A k \in Keys \ doors' : \A b \in Requests : Lives(b, k)' => box[b].prov \in targets'
    BY <1>2, <1>6, <2>1, Before
  <2>4. \A b \in Requests : box'[b].live => clock' < box[b].exp
    BY <1>2, Before
  <2>5. /\ UNCHANGED <<req, flight, completedOrder, evictedUnexpiredUntil>>
        /\ clock <= clock' /\ box' = box
    BY <1>1, <1>2
  <2>6. \A k \in Keys : flights'[k] = flights[k] \/ flights'[k] = None
    BY <1>7
  <2> QED BY <1>6, <2>2, <2>3, <2>4, <2>5, <2>6 DEF Withdraws
<1>10. ASSUME NEW m \in Releasers
       PROVE  RelOK(m)'
  <2>1. CASE m = l
    BY <1>4, <2>1, IdleTyped DEF RelOK
  <2>2. CASE m # l
    <3>1. rel'[m] = rel[m] /\ RelOK(m)
      BY <1>1, <1>4, <2>2
    <3> QED BY <1>2, <3>1 DEF RelOK
  <2> QED BY <2>1, <2>2
<1>11. ASSUME NEW k \in Keys
       PROVE  CachedOK(k)'
  <2> SUFFICES ASSUME k \in Completed'
               PROVE  Replayed(k, req[flights[k]].got)'
    BY DEF CachedOK
  <2>1. k \in Completed /\ flights'[k] = flights[k]
    BY <1>2, <1>7 DEF Completed, CompletedIn
  <2>2. Replayed(k, req[flights[k]].got)
    BY <2>1, Before
  <2>3. ASSUME NEW m \in Releasers, rel[m].at = "evict"
        PROVE  rel'[m] = rel[m]
    BY <1>2, <1>4, <2>3
  <2> QED BY <1>2, <2>1, <2>2, <2>3 DEF Replayed
<1>12. removing' \notin targets'
  BY <1>1, <1>2
<1> QED BY <1>8, <1>9, <1>10, <1>11, <1>12, WithdrawStep

LEMMA SetTargetOK ==
  ASSUME IInv, NEW p \in Providers, SetTarget(p)
  PROVE  IInv'
<1>1. /\ TypeOK /\ clock \in Nat /\ \A m \in Releasers : RelOK(m)
  BY Parts, Typed
<1>2. /\ removing = None /\ targets' = targets \cup {p}
      /\ clock' = clock /\ removing' = removing /\ flights' = flights
      /\ completedOrder' = completedOrder /\ evictedUnexpiredUntil' = evictedUnexpiredUntil
      /\ flight' = flight /\ req' = req /\ box' = box /\ rel' = rel
      /\ doors' = doors /\ strays' = strays
  BY DEF SetTarget, cache, hist
<1>3. TypeOK'
  BY <1>1, <1>2 DEF TypeOK
<1>4. removing' \notin targets'
  BY <1>1, <1>2, Constants DEF TypeOK
<1>5. Withdraws
  <2>1. \A k \in Keys, c \in Requests : Lives(c, k)' => Lives(c, k)
    BY <1>2 DEF Lives
  <2> QED BY <1>1, <1>2, <2>1, Before DEF Withdraws
<1>6. \A m \in Releasers : RelOK(m)'
  BY <1>1, <1>2 DEF RelOK
<1>7. \A k \in Keys : CachedOK(k)'
  BY <1>2, Parts DEF CachedOK, Completed, CompletedIn, Replayed
<1> QED BY <1>3, <1>4, <1>5, <1>6, <1>7, WithdrawStep

LEMMA RemoveTargetOK ==
  ASSUME IInv, NEW p \in Providers, RemoveTarget(p)
  PROVE  IInv'
<1>1. /\ TypeOK /\ clock \in Nat /\ \A m \in Releasers : RelOK(m)
  BY Parts, Typed
<1>2. /\ targets' = targets \ {p} /\ removing' = p
      /\ doors' = doors \cup Unreachable(box, targets \ {p})
      /\ clock' = clock /\ flights' = flights
      /\ completedOrder' = completedOrder /\ evictedUnexpiredUntil' = evictedUnexpiredUntil
      /\ flight' = flight /\ req' = req /\ box' = box /\ rel' = rel /\ strays' = strays
  BY DEF RemoveTarget, cache
<1>3. ASSUME NEW k \in Keys \ doors', NEW b \in Requests, Lives(b, k)
      PROVE  box[b].prov \in targets'
  BY <1>2, <1>3 DEF Unreachable, Lives
<1>4. doors' \subseteq Keys
  <2>1. \A b \in Requests : box[b].live => req[b].key \in Keys
    BY Parts DEF LifeOK
  <2> QED BY <1>1, <1>2, <2>1 DEF Unreachable, TypeOK
<1>5. TypeOK'
  BY <1>1, <1>2, <1>4 DEF TypeOK
<1>6. removing' \notin targets'
  BY <1>2
<1>7. Withdraws
  <2>1. \A k \in Keys, c \in Requests : Lives(c, k)' => Lives(c, k)
    BY <1>2 DEF Lives
  <2>2. doors \subseteq doors'
    BY <1>2
  <2> QED BY <1>1, <1>2, <1>3, <2>1, <2>2, Before DEF Withdraws
<1>8. \A m \in Releasers : RelOK(m)'
  BY <1>1, <1>2 DEF RelOK
<1>9. \A k \in Keys : CachedOK(k)'
  BY <1>2, Parts DEF CachedOK, Completed, CompletedIn, Replayed
<1> QED BY <1>5, <1>6, <1>7, <1>8, <1>9, WithdrawStep
LEMMA EvictTargetOK ==
  ASSUME IInv, EvictTarget
  PROVE  IInv'
<1> DEFINE W == CompletedWith({b \in Requests : box[b].prov = removing})
<1>1. /\ TypeOK /\ clock \in Nat /\ \A m \in Releasers : RelOK(m)
  BY Parts, Typed
<1>2. /\ removing' = None /\ flights' = Without(flights, W)
      /\ clock' = clock /\ targets' = targets
      /\ completedOrder' = completedOrder /\ evictedUnexpiredUntil' = evictedUnexpiredUntil
      /\ flight' = flight /\ req' = req /\ box' = box /\ rel' = rel
      /\ doors' = doors /\ strays' = strays
  BY DEF EvictTarget, hist
<1>3. \A k \in W : k \in Completed /\ box[req[flights[k]].got].prov = removing
  BY DEF CompletedWith, Completed
<1> HIDE DEF W
<1>4. /\ flights' \in [Keys -> Requests \cup {None}]
      /\ \A k \in Keys : flights'[k] = IF k \in W THEN None ELSE flights[k]
  BY <1>1, <1>2, WithoutOK
<1>5. TypeOK'
  BY <1>1, <1>2, <1>4 DEF TypeOK
<1>6. removing' \notin targets'
  BY <1>1, <1>2, Constants DEF TypeOK
<1>7. Withdraws
  <2>1. \A k \in Keys, c \in Requests : Lives(c, k)' => Lives(c, k)
    BY <1>2 DEF Lives
  <2>2. ASSUME NEW k \in Keys \ doors, flights'[k] # flights[k]
        PROVE  k \in Completed /\ ~box[req[flights[k]].got].live
    <3>1. k \in Completed /\ box[req[flights[k]].got].prov = removing
      BY <1>3, <1>4, <2>2
    <3>2. /\ req[flights[k]].got \in Requests /\ req[req[flights[k]].got].key = k
          /\ removing \notin targets
      BY <3>1, Before
    <3>3. Lives(req[flights[k]].got, k) => box[req[flights[k]].got].prov \in targets
      BY <2>2, <3>2, Before
    <3> QED BY <3>1, <3>2, <3>3 DEF Lives
  <2> QED BY <1>1, <1>2, <1>4, <2>1, <2>2, Before DEF Withdraws
<1>8. \A m \in Releasers : RelOK(m)'
  BY <1>1, <1>2 DEF RelOK
<1>9. ASSUME NEW k \in Keys
      PROVE  CachedOK(k)'
  <2> SUFFICES ASSUME k \in Completed'
               PROVE  Replayed(k, req[flights[k]].got)'
    BY DEF CachedOK
  <2>1. k \in Completed /\ flights'[k] = flights[k]
    BY <1>2, <1>4 DEF Completed, CompletedIn
  <2>2. Replayed(k, req[flights[k]].got)
    BY <2>1, Before
  <2> QED BY <1>2, <2>1, <2>2 DEF Replayed
<1> QED BY <1>5, <1>6, <1>7, <1>8, <1>9, WithdrawStep

LEMMA TickOK ==
  ASSUME IInv, Tick
  PROVE  IInv'
<1>1. /\ TypeOK /\ clock \in Nat /\ \A m \in Releasers : RelOK(m)
      /\ \A b \in Requests : box[b] \in BoxRec
      /\ \A f \in Requests : flight[f] \in FlightRec
  BY Parts, Typed
<1>2. /\ clock < MaxTime /\ clock' = clock + 1
      /\ box' = [b \in Requests |-> [box[b] EXCEPT !.live = @ /\ box[b].exp > clock + 1]]
      /\ targets' = targets /\ removing' = removing /\ flights' = flights
      /\ completedOrder' = completedOrder /\ evictedUnexpiredUntil' = evictedUnexpiredUntil
      /\ flight' = flight /\ req' = req /\ rel' = rel /\ doors' = doors /\ strays' = strays
  BY DEF Tick, cache, hist
<1>3. ASSUME NEW b \in Requests
      PROVE  /\ box'[b] \in BoxRec
             /\ box'[b].prov = box[b].prov /\ box'[b].exp = box[b].exp
             /\ box'[b].live => box[b].live /\ clock + 1 < box[b].exp
             /\ box[b].live /\ clock + 1 < box[b].exp => box'[b].live
             /\ box[b].exp \in Nat
  <2> DEFINE new == [box[b] EXCEPT !.live = @ /\ box[b].exp > clock + 1]
  <2>1. box'[b] = new
    BY <1>2
  <2>2. box[b].exp \in Nat /\ box[b].live \in BOOLEAN
    BY <1>1, Constants DEF BoxRec
  <2>3. /\ new.prov = box[b].prov /\ new.exp = box[b].exp
        /\ new.live = (box[b].live /\ box[b].exp > clock + 1)
    BY <1>1 DEF BoxRec
  <2>4. new \in BoxRec
    BY <1>1 DEF BoxRec
  <2> HIDE DEF new
  <2> QED BY <1>1, <2>1, <2>2, <2>3, <2>4
<1>4. TypeOK'
  <2>1. box' \in [Requests -> BoxRec]
    BY <1>2, <1>3
  <2>2. clock' \in 0..MaxTime
    BY <1>1, <1>2, Constants
  <2> QED BY <1>1, <1>2, <2>1, <2>2 DEF TypeOK, BoxRec
<1>5. removing' \notin targets'
  BY <1>2, Before
<1>6. Withdraws
  <2>1. \A k \in Keys, c \in Requests : Lives(c, k)' => Lives(c, k)
    BY <1>2, <1>3 DEF Lives
  <2>2. clock <= clock'
    BY <1>1, <1>2
  <2> QED BY <1>2, <1>3, <2>1, <2>2, Before DEF Withdraws
<1>7. ASSUME NEW m \in Releasers
      PROVE  RelOK(m)'
  <2>1. RelOK(m)
    BY <1>1
  <2> QED BY <1>2, <1>3, <2>1 DEF RelOK
<1>8. ASSUME NEW k \in Keys
      PROVE  CachedOK(k)'
  <2>1. Completed' = Completed
    BY <1>2 DEF Completed, CompletedIn
  <2> SUFFICES ASSUME k \in Completed
               PROVE  Replayed(k, req[flights[k]].got)'
    BY <2>1 DEF CachedOK
  <2> DEFINE b == req[flights[k]].got
             u == flight[flights[k]].until
  <2>2. Replayed(k, b) /\ b \in Requests /\ flights[k] \in Requests
    BY Before
  <2>3. u \in Nat
    BY <1>1, <2>2, Constants DEF FlightRec
  <2>4. CASE box[b].live /\ u <= box[b].exp
    <3> HIDE DEF b, u
    <3>1. box'[b].live \/ box[b].exp <= clock + 1
      BY <1>1, <1>3, <2>2, <2>4
    <3>2. (box'[b].live /\ u <= box'[b].exp) \/ clock' >= u
      BY <1>1, <1>2, <1>3, <2>2, <2>3, <2>4, <3>1
    <3> QED BY <1>2, <3>2 DEF Replayed, b, u
  <2>5. CASE clock >= u
    <3>1. clock' >= u
      <4> HIDE DEF u
      <4> QED BY <1>1, <1>2, <2>3, <2>5
    <3> QED BY <1>2, <3>1 DEF Replayed
  <2>6. CASE b \in strays \/ \E l \in Releasers : rel[l].at = "evict" /\ rel[l].box = b
    BY <1>2, <2>6 DEF Replayed
  <2> QED BY <2>2, <2>4, <2>5, <2>6 DEF Replayed
<1> QED BY <1>4, <1>5, <1>6, <1>7, <1>8, WithdrawStep

-----------------------------------------------------------------------------
(* A flight begins, claims and ends.                                       *)

\* Live sandboxes, when r becomes q and no sandbox changes.
LEMMA LivesSame ==
  ASSUME TypeOK, Records, NEW r \in Requests, NEW q, Moves(r, q), box' = box
  PROVE  \A b \in Requests : \A k : Lives(b, k)' <=> Lives(b, k)
<1>1. req'[r] = q /\ \A c \in Requests \ {r} : req'[c] = req[c]
  BY Moved
<1> SUFFICES ASSUME NEW b \in Requests, NEW k
             PROVE  Lives(b, k)' <=> Lives(b, k)
  OBVIOUS
<1>2. CASE b # r
  BY <1>1, <1>2 DEF Lives
<1>3. CASE b = r /\ req[r].at = "new"
  BY <1>3, NewIsFree DEF Lives, NoBox
<1>4. CASE b = r /\ req[r].at # "new"
  BY <1>1, <1>4 DEF Lives, Moves
<1> QED BY <1>2, <1>3, <1>4

LEMMA LeadFlightOK ==
  ASSUME IInv, NEW r \in Requests, NEW k \in Keys, NEW s \in Specs, NEW retry \in BOOLEAN,
         Unsettled(k) => retry, LeadFlight(r, k, s, retry)
  PROVE  IInv'
<1> DEFINE q == [NewReq EXCEPT !.at = "lead", !.key = k, !.spec = s,
                               !.retry = retry, !.on = None]
           kept  == Without(flights, {k})
           gone  == {j \in Entries(kept) : Expired(kept[j])}
           swept == IF Cardinality(Entries(kept)) >= SweepAt THEN Without(kept, gone) ELSE kept
<1>0. /\ TypeOK /\ Records /\ Counted /\ Capped
      /\ \A c \in Requests : ReqOK(c) /\ JoinOK(c) /\ GotOK(c) /\ LifeOK(c)
      /\ \A j \in Keys : EntryOK(j) /\ CachedOK(j)
      /\ \A l \in Releasers : RelOK(l)
      /\ removing \notin targets
      /\ \A j \in Keys \ doors : \A c \in Requests : BoxOK(c, j) /\ LeaderOK(c, j)
  BY Parts
<1>1. /\ req[r].at = "new" /\ req' = [req EXCEPT ![r] = q] /\ ~Joinable(k)
      /\ flights' = [swept EXCEPT ![k] = r]
      /\ clock' = clock /\ targets' = targets /\ removing' = removing
      /\ completedOrder' = completedOrder /\ evictedUnexpiredUntil' = evictedUnexpiredUntil
      /\ flight' = flight /\ box' = box /\ rel' = rel /\ doors' = doors /\ strays' = strays
  BY DEF LeadFlight, Enter, hist
<1>2. /\ q \in ReqRec /\ q.at = "lead" /\ q.key = k /\ q.spec = s /\ q.retry = retry
      /\ q.got = None
  BY Constants DEF NewReq, ReqRec, Places
<1> HIDE DEF q
<1>3. Moves(r, q)
  BY <1>1, <1>2 DEF Moves, Leads, LeadPlaces, Over
<1>4. /\ req' \in [Requests -> ReqRec] /\ req'[r] = q
      /\ \A c \in Requests \ {r} : req'[c] = req[c]
  BY <1>0, <1>3, Moved
<1>5. /\ box[r] = NoBox /\ flight[r] = NoFlight /\ \A j \in Keys : flights[j] # r
  BY <1>0, <1>1, NewIsFree
\* What becomes of the entries.
<1>6. /\ flights' \in [Keys -> Requests \cup {None}] /\ flights'[k] = r
      /\ \A j \in Keys \ {k} : \/ flights'[j] = flights[j]
                               \/ flights'[j] = None /\ Expired(flights[j])
  <2>1. /\ kept \in [Keys -> Requests \cup {None}]
        /\ \A j \in Keys : kept[j] = IF j = k THEN None ELSE flights[j]
    BY <1>0, WithoutOK
  <2> HIDE DEF kept
  <2>2. /\ Without(kept, gone) \in [Keys -> Requests \cup {None}]
        /\ \A j \in Keys : Without(kept, gone)[j] = IF j \in gone THEN None ELSE kept[j]
    BY <2>1 DEF Without
  <2>3. /\ swept \in [Keys -> Requests \cup {None}]
        /\ \A j \in Keys \ {k} : \/ swept[j] = flights[j]
                                 \/ swept[j] = None /\ Expired(flights[j])
    BY <2>1, <2>2
  <2> HIDE DEF swept
  <2> QED BY <1>1, <2>3
<1> HIDE DEF swept
<1>7. TypeOK'
  BY <1>0, <1>1, <1>4, <1>6 DEF TypeOK, ReqRec, Places
<1>8. \A c \in Requests \ {r} : Leads(c)' <=> Leads(c)
  BY <1>4 DEF Leads
<1>9. Leads(r)' /\ ~Leads(r)
  BY <1>1, <1>2, <1>4 DEF Leads, LeadPlaces
<1>10. \A b \in Requests, j \in Keys : Lives(b, j)' <=> Lives(b, j)
  BY <1>0, <1>1, <1>3, LivesSame
<1>11. Records'
  <2>1. ASSUME NEW c \in Requests
        PROVE  ReqOK(c)' /\ JoinOK(c)' /\ GotOK(c)'
    <3>1. CASE c # r
      BY <1>0, <1>3, <3>1, OthersOK
    <3>2. CASE c = r
      <4>1. ReqOK(r)'
        BY <1>1, <1>2, <1>4, <1>5 DEF ReqOK, Over, Leads, LeadPlaces, NoFlight
      <4>2. JoinOK(r)' /\ GotOK(r)'
        BY <1>2, <1>4 DEF JoinOK, GotOK
      <4> QED BY <3>2, <4>1, <4>2
    <3> QED BY <3>1, <3>2
  <2>2. ASSUME NEW c \in Requests
        PROVE  LifeOK(c)'
    <3>1. box[c].live => c # r
      BY <1>5 DEF NoBox
    <3> QED BY <1>0, <1>1, <1>4, <3>1 DEF LifeOK
  <2>3. ASSUME NEW j \in Keys
        PROVE  EntryOK(j)'
    <3>1. CASE j = k
      BY <1>2, <1>4, <1>6, <1>9, <3>1 DEF EntryOK
    <3>2. CASE j # k /\ flights'[j] # None
      <4>1. flights'[j] = flights[j] /\ flights[j] \in Requests \ {r}
        BY <1>0, <1>5, <1>6, <3>2, Typed
      <4>2. req'[flights[j]] = req[flights[j]]
        BY <1>4, <4>1
      <4> QED BY <1>0, <1>1, <3>2, <4>1, <4>2 DEF EntryOK, Leads
    <3>3. CASE flights'[j] = None
      BY <3>3 DEF EntryOK
    <3> QED BY <3>1, <3>2, <3>3
  <2>4. \A l \in Releasers : RelOK(l)'
    BY <1>0, <1>1 DEF RelOK
  <2> QED BY <1>0, <1>1, <2>1, <2>2, <2>3, <2>4 DEF Records
<1>12. Counted'
  BY <1>0, <1>1, <1>2, <1>3, NobodyComes DEF Counted
\* Completed flights stay, or have expired.
<1>13. ASSUME NEW j \in Completed'
       PROVE  j \in Completed /\ flights'[j] = flights[j] /\ flights[j] \in Requests \ {r}
  <2>1. j \in Keys /\ flights'[j] # None /\ flight[flights'[j]].completed
    BY <1>1, <1>13 DEF Completed, CompletedIn
  <2>2. j # k
    BY <1>5, <1>6, <2>1 DEF NoFlight
  <2>3. flights'[j] = flights[j]
    BY <1>6, <2>1, <2>2
  <2> QED BY <1>0, <1>5, <2>1, <2>3, Typed DEF Completed, CompletedIn
<1>14. Capped'
  <2>1. Completed' \subseteq Completed /\ Completed \subseteq Keys
    BY <1>13 DEF Completed, CompletedIn
  <2>2. IsFiniteSet(Completed)
    BY <2>1, Constants, FS_Subset
  <2>3. /\ Cardinality(Completed') <= Cardinality(Completed)
        /\ Cardinality(Completed') \in Nat /\ Cardinality(Completed) \in Nat
    BY <2>1, <2>2, FS_Subset, FS_CardinalityType
  <2>4. Cardinality(Completed') <= MaxCompleted
    BY <1>0, <2>3, Constants DEF Capped
  <2> QED BY <1>0, <1>1, <2>1, <2>4 DEF Capped
<1>15. ASSUME NEW j \in Keys
       PROVE  CachedOK(j)'
  <2> SUFFICES ASSUME j \in Completed'
               PROVE  Replayed(j, req[flights[j]].got)'
    BY DEF CachedOK
  <2>1. j \in Completed /\ flights'[j] = flights[j] /\ flights[j] \in Requests \ {r}
    BY <1>13
  <2>2. Replayed(j, req[flights[j]].got) /\ req'[flights[j]] = req[flights[j]]
    BY <1>4, <2>1, Before
  <2> QED BY <1>1, <2>1, <2>2 DEF Replayed
\* No live sandbox was kept by an expired entry.
<1>16. ASSUME NEW j \in Keys, NEW b \in Requests, Lives(b, j), Kept(b, j)
       PROVE  ~Expired(flights[j])
  <2>1. /\ clock \in Nat /\ box[b].exp \in Nat /\ clock < box[b].exp
        /\ flights[j] \in Requests /\ flight[flights[j]].until \in Nat
    <3>1. flights[j] \in Requests
      BY <1>0, <1>16, Typed DEF Kept
    <3>2. box[b] \in BoxRec /\ flight[flights[j]] \in FlightRec /\ clock \in Nat
      BY <1>0, <3>1, Typed
    <3>3. clock < box[b].exp
      BY <1>0, <1>16 DEF LifeOK, Lives
    <3> QED BY <3>1, <3>2, <3>3, Constants DEF BoxRec, FlightRec
  <2> QED BY <1>16, <2>1 DEF Kept, Expired
<1>17. ASSUME NEW j \in Keys \ doors, NEW b \in Requests
       PROVE  BoxOK(b, j)'
  <2> SUFFICES ASSUME Lives(b, j)
               PROVE  Backed(b, j)'
    BY <1>0, <1>1, <1>10 DEF BoxOK
  <2>1. Backed(b, j)
    BY <1>0 DEF BoxOK
  <2>2. CASE box[b].exp <= evictedUnexpiredUntil
    BY <1>1, <2>2 DEF Backed
  <2>3. CASE Unsettled(j)
    <3>1. PICK c \in Requests : req[c].key = j /\ req[c].at = "unknown"
      BY <2>3 DEF Unsettled
    <3>2. req'[c] = req[c]
      BY <1>1, <1>4, <3>1
    <3> QED BY <3>1, <3>2 DEF Backed, Unsettled
  <2>4. CASE Kept(b, j)
    <3>1. ~Expired(flights[j]) /\ flights[j] \in Requests \ {r}
      BY <1>0, <1>5, <1>16, <2>4, Typed DEF Kept
    <3>2. j # k
      BY <1>1, <2>4, <3>1 DEF Kept, Joinable
    <3>3. flights'[j] = flights[j] /\ req'[flights[j]] = req[flights[j]]
      BY <1>4, <1>6, <3>1, <3>2
    <3> QED BY <1>1, <2>4, <3>3 DEF Backed, Kept
  <2>5. CASE Ending(b, j)
    <3>1. PICK c \in Requests : /\ req[c].key = j
                                /\ \/ req[c].at = "lose"
                                   \/ req[c].at = "succeed" /\ req[c].got = b
      BY <2>5 DEF Ending
    <3>2. req'[c] = req[c]
      BY <1>1, <1>4, <3>1
    <3>3. Ending(b, j)'
      BY <3>1, <3>2 DEF Ending
    <3> QED BY <3>3 DEF Backed
  <2> QED BY <2>1, <2>2, <2>3, <2>4, <2>5 DEF Backed
\* Nobody else leads a flight of k, and an unknown outcome makes r look.
<1>18. ASSUME NEW c \in Requests, Leads(c), req[c].key = k, k \notin doors
       PROVE  FALSE
  <2>1. flights[k] = c /\ ~flight[c].completed /\ c # None
    BY <1>0, <1>18, Constants DEF LeaderOK, ReqOK
  <2> QED BY <1>1, <2>1 DEF Joinable, Expired
<1>19. ASSUME NEW j \in Keys \ doors, NEW c \in Requests
       PROVE  LeaderOK(c, j)'
  <2>1. CASE c # r
    <3> SUFFICES ASSUME Leads(c), req[c].key = j
                 PROVE  LeaderOK(c, j)'
      BY <1>4, <1>8, <2>1 DEF LeaderOK
    <3>1. LeaderOK(c, j) /\ flights[j] = c /\ ~flight[c].completed /\ j # k
      BY <1>0, <1>18 DEF LeaderOK, ReqOK
    <3>2. flights'[j] = c
      BY <1>6, <3>1 DEF Expired
    <3>3. req'[c] = req[c]
      BY <1>4, <2>1
    <3> QED BY <1>1, <1>10, <3>1, <3>2, <3>3 DEF LeaderOK, Leads
  <2>2. CASE c = r
    <3> SUFFICES ASSUME j = k
                 PROVE  LeaderOK(r, k)'
      BY <1>2, <1>4, <2>2 DEF LeaderOK
    <3>1. ASSUME NEW b \in Requests, Lives(b, k), ~retry
          PROVE  box[b].exp <= evictedUnexpiredUntil
      <4>1. Backed(b, k)
        BY <1>0, <3>1 DEF BoxOK
      <4>2. ~Unsettled(k)
        BY <3>1
      <4>3. ~Kept(b, k)
        BY <1>1, <1>16, <3>1 DEF Kept, Joinable
      <4>4. ~Ending(b, k)
        BY <1>18 DEF Ending, Leads, LeadPlaces
      <4> QED BY <4>1, <4>2, <4>3, <4>4 DEF Backed
    <3> QED BY <1>1, <1>2, <1>4, <1>6, <1>10, <3>1 DEF LeaderOK
  <2> QED BY <2>1, <2>2
<1>20. Single'
  BY <1>1, <1>17, <1>19 DEF Single
<1> QED BY <1>7, <1>11, <1>12, <1>14, <1>15, <1>20 DEF IInv

LEMMA ClaimOK ==
  ASSUME IInv, NEW r \in Requests, NEW p \in Providers, NEW lost \in BOOLEAN,
         Claim(r, p, lost)
  PROVE  IInv'
<1> DEFINE key   == req[r].key
           there == BoxesAt(p, key)
           fresh == [live |-> TRUE, prov |-> p, exp |-> clock + TTL]
           bx    == IF there = {} THEN [box EXCEPT ![r] = fresh] ELSE box
           mine  == IF there = {} THEN r ELSE CHOOSE b \in there : TRUE
           at    == IF lost THEN "lose"
                    ELSE IF req[mine].spec = req[r].spec THEN "succeed" ELSE "fail"
           got   == IF lost \/ req[mine].spec # req[r].spec THEN None ELSE mine
           q     == [req[r] EXCEPT !.at = at, !.got = got]
<1>0. /\ TypeOK /\ Records /\ Counted /\ Capped
      /\ \A c \in Requests : ReqOK(c) /\ JoinOK(c) /\ GotOK(c) /\ LifeOK(c)
      /\ \A j \in Keys : EntryOK(j) /\ CachedOK(j)
      /\ \A l \in Releasers : RelOK(l)
      /\ removing \notin targets
      /\ \A j \in Keys \ doors : \A c \in Requests : BoxOK(c, j) /\ LeaderOK(c, j)
      /\ req[r] \in ReqRec
  BY Parts, Typed
<1>1. /\ req[r].at = "claim" /\ p \in req[r].snap /\ req' = [req EXCEPT ![r] = q]
      /\ box' = bx /\ doors' = doors \cup Unreachable(bx, targets)
      /\ clock' = clock /\ targets' = targets /\ removing' = removing /\ flights' = flights
      /\ completedOrder' = completedOrder /\ evictedUnexpiredUntil' = evictedUnexpiredUntil
      /\ flight' = flight /\ rel' = rel /\ strays' = strays
  BY DEF Claim, cache
<1>2. /\ Leads(r) /\ box[r] = NoBox /\ key \in Keys /\ req[r].spec \in Specs
      /\ ~flight[r].done /\ ~flight[r].completed
  BY <1>0, <1>1 DEF ReqOK, Leads, LeadPlaces, Claimed, Over
<1>3. p # None /\ r # None /\ clock \in Nat /\ clock + TTL \in Time /\ TTL \in Nat /\ TTL > 0
  BY <1>0, Constants, Typed
<1>4. there # {} => mine \in Requests /\ Lives(mine, key) /\ mine # r
  <2>1. there # {} => mine \in there
    OBVIOUS
  <2> HIDE DEF mine
  <2> QED BY <1>2, <2>1 DEF BoxesAt, Lives, NoBox
<1>5. there = {} => mine = r /\ bx = [box EXCEPT ![r] = fresh]
  OBVIOUS
<1>6. there # {} => bx = box
  OBVIOUS
<1>7. \A b \in Requests : Lives(b, key) /\ box[b].prov = p => b \in there
  BY DEF BoxesAt, Lives
<1> HIDE DEF there, bx, mine, key
<1>8. mine \in Requests
  BY <1>4, <1>5
<1>9. /\ at \in {"lose", "succeed", "fail"}
      /\ at = "succeed" => got = mine /\ req[mine].spec = req[r].spec
      /\ at = "fail" => there # {}
      /\ at = "lose" \/ at = "fail" => got = None
      /\ got \in {None, mine}
      /\ there = {} => at = "lose" \/ at = "succeed"
  BY <1>5
<1> HIDE DEF at, got
<1>10. /\ q \in ReqRec /\ q.at = at /\ q.got = got /\ q.key = key /\ q.spec = req[r].spec
  <2>1. got \in Requests \cup {None}
    BY <1>8, <1>9
  <2> QED BY <1>0, <1>9, <2>1 DEF ReqRec, Places, key
<1> HIDE DEF q
\* The sandboxes afterwards.
<1>11. /\ \A c \in Requests \ {r} : box'[c] = box[c]
       /\ box'[r] = IF there = {} THEN fresh ELSE box[r]
       /\ box' \in [Requests -> BoxRec]
  <2>1. fresh \in BoxRec
    BY <1>3 DEF BoxRec
  <2>2. box \in [Requests -> BoxRec]
    BY <1>0 DEF TypeOK, BoxRec
  <2> HIDE DEF fresh
  <2> QED BY <1>1, <1>5, <1>6, <2>1, <2>2
<1>12. Moves(r, q)
  BY <1>1, <1>2, <1>9, <1>10, <1>11 DEF Moves, Over, LeadPlaces, key
<1>13. /\ req' \in [Requests -> ReqRec] /\ req'[r] = q
       /\ \A c \in Requests \ {r} : req'[c] = req[c]
       /\ \A c \in Requests : req'[c].key = req[c].key /\ req'[c].spec = req[c].spec
  <2>1. /\ req' \in [Requests -> ReqRec] /\ req'[r] = q
        /\ \A c \in Requests \ {r} : req'[c] = req[c]
    BY <1>0, <1>12, Moved
  <2> QED BY <1>10, <2>1 DEF key
<1>14. \A c \in Requests : box[c].prov # None => box'[c] = box[c] /\ (there # {} \/ c # r)
  BY <1>2, <1>11 DEF NoBox
<1>15. TypeOK'
  <2>1. doors' \subseteq Keys
    <3>1. \A b \in Requests : box'[b].live => req[b].key \in Keys
      BY <1>0, <1>2, <1>11 DEF LifeOK, key
    <3> QED BY <1>0, <1>1, <3>1 DEF Unreachable, TypeOK
  <2> QED BY <1>0, <1>1, <1>11, <1>13, <2>1 DEF TypeOK, ReqRec, BoxRec, Places
<1>16. Records'
  <2>1. ASSUME NEW c \in Requests
        PROVE  ReqOK(c)' /\ JoinOK(c)' /\ GotOK(c)'
    <3>1. CASE c # r
      BY <1>0, <1>12, <3>1, OthersOK
    <3>2. CASE c = r
      <4>1. ReqOK(r)'
        <5>1. q.at \notin Claimed => box'[r] = NoBox
          BY <1>2, <1>9, <1>10, <1>11 DEF Claimed
        <5> QED BY <1>1, <1>2, <1>9, <1>10, <1>13, <5>1 DEF ReqOK, Over, Leads, LeadPlaces, key
      <4>2. JoinOK(r)'
        BY <1>9, <1>10, <1>13 DEF JoinOK
      <4>3. GotOK(r)'
        <5>1. box'[mine].prov # None /\ req[mine].key = key
          <6>1. CASE there = {}
            BY <1>3, <1>5, <1>11, <6>1 DEF key
          <6>2. CASE there # {}
            BY <1>0, <1>4, <1>11, <6>2 DEF LifeOK, Lives
          <6> QED BY <6>1, <6>2
        <5>2. q.at # "ok" /\ mine # None
          BY <1>8, <1>9, <1>10, Constants
        <5> QED BY <1>8, <1>9, <1>10, <1>13, <5>1, <5>2 DEF GotOK
      <4> QED BY <3>2, <4>1, <4>2, <4>3
    <3> QED BY <3>1, <3>2
  <2>2. ASSUME NEW c \in Requests
        PROVE  LifeOK(c)'
    <3>1. CASE box'[c] = box[c]
      BY <1>0, <1>1, <1>13, <3>1 DEF LifeOK
    <3>2. CASE box'[c] # box[c]
      <4>1. c = r /\ box'[c] = fresh
        BY <1>11, <3>2
      <4>2. clock < clock + TTL /\ clock + TTL <= clock + TTL
        BY <1>3
      <4> QED BY <1>1, <1>2, <1>3, <1>13, <4>1, <4>2 DEF LifeOK, key
    <3> QED BY <3>1, <3>2
  <2>3. \A j \in Keys : EntryOK(j)'
    <3>1. \A c \in Requests : Leads(c)' <=> Leads(c)
      BY <1>2, <1>9, <1>10, <1>13 DEF Leads, LeadPlaces
    <3>2. \A j \in Keys : flights[j] # None => flights[j] \in Requests
      BY <1>0, Typed
    <3> QED BY <1>0, <1>1, <1>13, <3>1, <3>2 DEF EntryOK
  <2>4. ASSUME NEW l \in Releasers
        PROVE  RelOK(l)'
    <3>1. rel'[l] = rel[l] /\ RelOK(l)
      BY <1>0, <1>1
    <3> QED BY <1>14, <3>1 DEF RelOK
  <2> QED BY <1>0, <1>1, <2>1, <2>2, <2>3, <2>4 DEF Records
<1>17. Counted'
  BY <1>0, <1>1, <1>9, <1>10, <1>12, NobodyComes DEF Counted
<1>18. Completed' = Completed
  BY <1>1 DEF Completed, CompletedIn
<1>19. Capped'
  BY <1>0, <1>1, <1>18 DEF Capped
<1>20. ASSUME NEW j \in Keys
       PROVE  CachedOK(j)'
  <2> SUFFICES ASSUME j \in Completed
               PROVE  Replayed(j, req[flights[j]].got)'
    BY <1>18 DEF CachedOK
  <2>1. /\ Replayed(j, req[flights[j]].got) /\ flights[j] \in Requests
        /\ flight[flights[j]].completed
    BY Before DEF Completed, CompletedIn
  <2>2. flights[j] # r /\ req'[flights[j]] = req[flights[j]]
    BY <1>2, <1>13, <2>1
  <2>3. req[flights[j]].got \in Requests /\ box[req[flights[j]].got].prov # None
    BY <1>0, <2>1, Before, Constants DEF GotOK
  <2>4. box'[req[flights[j]].got] = box[req[flights[j]].got]
    BY <1>14, <2>3
  <2> QED BY <1>1, <2>1, <2>2, <2>4 DEF Replayed
\* Where the key is in care, the new sandbox is the only one.
<1>21. ASSUME NEW j \in Keys \ doors', NEW b \in Requests, Lives(b, j)'
       PROVE  /\ box'[b].prov \in targets'
              /\ IF there = {} /\ j = key THEN b = r ELSE box'[b] = box[b] /\ Lives(b, j)
  <2>1. box'[b].live /\ req[b].key = j /\ j \notin doors
    BY <1>1, <1>13, <1>21 DEF Lives
  <2>2. box'[b].prov \in targets'
    BY <1>1, <1>21, <2>1 DEF Unreachable
  <2>3. CASE there = {} /\ j = key
    <3> SUFFICES ASSUME b # r
                 PROVE  FALSE
      BY <2>2, <2>3
    <3>1. Lives(b, key)
      BY <1>11, <2>1, <2>3 DEF Lives
    <3>2. req[r].snap \subseteq {box[b].prov}
      BY <1>0, <1>1, <1>2, <2>1, <2>3, <3>1 DEF LeaderOK, key
    <3> QED BY <1>1, <1>7, <2>3, <3>1, <3>2
  <2>4. CASE ~(there = {} /\ j = key)
    <3>1. box'[b] = box[b]
      BY <1>11, <2>1, <2>4 DEF key
    <3> QED BY <2>1, <2>2, <2>4, <3>1 DEF Lives
  <2> QED BY <2>3, <2>4
<1>22. ASSUME NEW j \in Keys \ doors', NEW b \in Requests
       PROVE  BoxOK(b, j)'
  <2> SUFFICES ASSUME Lives(b, j)'
               PROVE  Backed(b, j)'
    <3>1. ASSUME NEW c \in Requests, Lives(c, j)', Lives(b, j)'
          PROVE  c = b
      <4>1. j \in Keys \ doors
        BY <1>1
      <4> QED BY <1>0, <1>21, <3>1, <4>1 DEF BoxOK
    <3>2. Lives(b, j)' => box'[b].prov \in targets'
      BY <1>21
    <3> QED BY <3>1, <3>2 DEF BoxOK
  <2>1. CASE there = {} /\ j = key
    <3>1. b = r /\ req'[r].key = j
      BY <1>10, <1>13, <1>21, <2>1
    <3>2. req'[r].at = "lose" \/ (req'[r].at = "succeed" /\ req'[r].got = r)
      BY <1>5, <1>9, <1>10, <1>13, <2>1
    <3>3. Ending(b, j)'
      BY <3>1, <3>2 DEF Ending
    <3> QED BY <3>3 DEF Backed
  <2>2. CASE ~(there = {} /\ j = key)
    <3>1. box'[b] = box[b] /\ Lives(b, j) /\ j \notin doors
      BY <1>1, <1>21, <2>2
    <3>2. Backed(b, j)
      BY <1>0, <3>1 DEF BoxOK
    <3>3. CASE box[b].exp <= evictedUnexpiredUntil
      BY <1>1, <3>1, <3>3 DEF Backed
    <3>4. CASE Unsettled(j)
      <4>1. PICK c \in Requests : req[c].key = j /\ req[c].at = "unknown"
        BY <3>4 DEF Unsettled
      <4>2. req'[c] = req[c]
        BY <1>1, <1>13, <4>1
      <4> QED BY <4>1, <4>2 DEF Backed, Unsettled
    <3>5. CASE Kept(b, j)
      <4>1. flights[j] \in Requests \ {r}
        BY <1>0, <1>2, <3>5, Typed DEF Kept
      <4>2. req'[flights[j]] = req[flights[j]]
        BY <1>13, <4>1
      <4> QED BY <1>1, <3>1, <3>5, <4>2 DEF Backed, Kept
    <3>6. CASE Ending(b, j)
      <4>1. PICK c \in Requests : /\ req[c].key = j
                                  /\ \/ req[c].at = "lose"
                                     \/ req[c].at = "succeed" /\ req[c].got = b
        BY <3>6 DEF Ending
      <4>2. req'[c] = req[c]
        BY <1>1, <1>13, <4>1
      <4>3. Ending(b, j)'
        BY <4>1, <4>2 DEF Ending
      <4> QED BY <4>3 DEF Backed
    <3> QED BY <3>2, <3>3, <3>4, <3>5, <3>6 DEF Backed
  <2> QED BY <2>1, <2>2
<1>23. ASSUME NEW j \in Keys \ doors', NEW c \in Requests
       PROVE  LeaderOK(c, j)'
  <2>1. j \in Keys \ doors
    BY <1>1
  <2>2. LeaderOK(c, j)
    BY <1>0, <2>1
  <2>3. CASE c = r
    BY <1>1, <1>2, <1>9, <1>10, <1>13, <2>2, <2>3 DEF LeaderOK, key
  <2>4. CASE c # r
    <3> SUFFICES ASSUME Leads(c), req[c].key = j
                 PROVE  LeaderOK(c, j)'
      BY <1>13, <2>4 DEF LeaderOK, Leads
    <3>1. flights[j] = c
      BY <2>2 DEF LeaderOK
    <3>2. j # key
      <4>1. LeaderOK(r, j)
        BY <1>0, <2>1
      <4> QED BY <1>2, <2>4, <3>1, <4>1 DEF LeaderOK, key
    <3>3. \A b \in Requests : Lives(b, j)' => box'[b] = box[b] /\ Lives(b, j)
      BY <1>21, <3>2
    <3>4. req'[c] = req[c]
      BY <1>13, <2>4
    <3> QED BY <1>1, <2>2, <3>1, <3>3, <3>4 DEF LeaderOK
  <2> QED BY <2>3, <2>4
<1>24. Single'
  BY <1>22, <1>23 DEF Single
<1> QED BY <1>15, <1>16, <1>17, <1>19, <1>20, <1>24 DEF IInv

LEMMA SucceedOK ==
  ASSUME IInv, NEW r \in Requests, Succeed(r)
  PROVE  IInv'
<1> DEFINE key   == req[r].key
           g     == req[r].got
           done  == [flight[r] EXCEPT !.done = TRUE, !.completed = TRUE, !.until = Until(g)]
           fl    == [flight EXCEPT ![r] = done]
           order == Append(completedOrder, key)
           e     == Enforced(flights, fl, order, evictedUnexpiredUntil)
           q     == [req[r] EXCEPT !.at = "ok", !.snap = {}]
<1>0. /\ TypeOK /\ Records /\ Counted /\ Capped
      /\ \A c \in Requests : ReqOK(c) /\ JoinOK(c) /\ GotOK(c) /\ LifeOK(c)
      /\ \A j \in Keys : EntryOK(j) /\ CachedOK(j)
      /\ \A l \in Releasers : RelOK(l)
      /\ removing \notin targets
      /\ \A j \in Keys \ doors : \A c \in Requests : BoxOK(c, j) /\ LeaderOK(c, j)
      /\ req[r] \in ReqRec
      /\ \A b \in Requests : box[b] \in BoxRec /\ flight[b] \in FlightRec
      /\ clock \in Nat /\ clock + TTL \in Time /\ evictedUnexpiredUntil \in Nat /\ TTL \in Nat
  BY Parts, Typed, Constants
<1>1. /\ req[r].at = "succeed" /\ req' = [req EXCEPT ![r] = q]
      /\ flight' = fl /\ flights' = e.flights /\ completedOrder' = e.order
      /\ evictedUnexpiredUntil' = e.until
      /\ strays' = (IF box[g].live THEN strays ELSE strays \cup {g})
      /\ clock' = clock /\ targets' = targets /\ removing' = removing
      /\ box' = box /\ rel' = rel /\ doors' = doors
  BY DEF Succeed
<1>2. /\ Leads(r) /\ key \in Keys /\ req[r].spec \in Specs
      /\ ~flight[r].done /\ ~flight[r].completed
  BY <1>0, <1>1 DEF ReqOK, Leads, LeadPlaces, Over
<1>3. /\ g \in Requests /\ box[g].prov # None
      /\ req[g].key = key /\ req[g].spec = req[r].spec
  BY <1>0, <1>1 DEF GotOK, ReqRec
<1>4. q \in ReqRec /\ q.at = "ok" /\ q.got = g /\ q.key = key /\ q.spec = req[r].spec
  BY <1>0 DEF ReqRec, Places, Over
\* How long the flight is replayed.
<1>5. Until(g) \in Time /\ (box[g].live => Until(g) = box[g].exp)
  <2>1. box[g].exp \in Time /\ box[g].exp \in Nat
    BY <1>0, <1>3, Constants DEF BoxRec
  <2>2. box[g].live => clock < box[g].exp
    BY <1>0, <1>3 DEF LifeOK
  <2>3. box[g].exp <= clock + TTL
    BY <1>0, <1>3 DEF LifeOK
  <2>4. CASE box[g].exp > clock /\ box[g].exp < clock + TTL
    BY <2>1, <2>4 DEF Until
  <2>5. CASE ~(box[g].exp > clock /\ box[g].exp < clock + TTL)
    <3>1. Until(g) = clock + TTL
      BY <2>5 DEF Until
    <3>2. box[g].live => box[g].exp = clock + TTL
      BY <1>0, <2>1, <2>2, <2>3, <2>5
    <3> QED BY <1>0, <3>1, <3>2
  <2> QED BY <2>4, <2>5
<1>6. /\ done \in FlightRec /\ done.done /\ done.completed /\ done.until = Until(g)
      /\ done.joiners = flight[r].joiners
  BY <1>0, <1>5 DEF FlightRec
<1> HIDE DEF done
<1>7. /\ fl \in [Requests -> FlightRec] /\ fl[r] = done
      /\ \A c \in Requests \ {r} : fl[c] = flight[c]
  BY <1>0, <1>6 DEF TypeOK, FlightRec
<1> HIDE DEF fl, q, g, key
\* The cap is enforced.
<1>8. order \in Seq(Keys) /\ ToSet(order) = ToSet(completedOrder) \cup {key}
  <2>1. completedOrder \in Seq(Keys)
    BY <1>0 DEF TypeOK
  <2>2. order \in Seq(Keys) /\ Len(order) = Len(completedOrder) + 1
    BY <1>2, <2>1
  <2>3. \A i \in 1..Len(order) :
          order[i] = IF i <= Len(completedOrder) THEN completedOrder[i] ELSE key
    BY <1>2, <2>1
  <2>4. ToSet(order) = {order[i] : i \in 1..Len(order)}
    BY <2>2 DEF ToSet
  <2>5. ToSet(completedOrder) = {completedOrder[i] : i \in 1..Len(completedOrder)}
    BY <2>1 DEF ToSet
  <2>6. Len(completedOrder) \in Nat
    BY <2>1
  <2> HIDE DEF order
  <2>7. order[Len(order)] = key /\ Len(order) \in 1..Len(order)
    BY <2>2, <2>3, <2>6
  <2>8. \A i \in 1..Len(completedOrder) : i \in 1..Len(order) /\ order[i] = completedOrder[i]
    BY <2>2, <2>3, <2>6
  <2>9. \A i \in 1..Len(order) :
          order[i] = key \/ (i \in 1..Len(completedOrder) /\ order[i] = completedOrder[i])
    BY <2>2, <2>3, <2>6
  <2> QED BY <2>2, <2>4, <2>5, <2>7, <2>8, <2>9
<1> HIDE DEF order
<1>9. CompletedIn(flights, fl, Keys) \subseteq ToSet(order)
  <2> SUFFICES ASSUME NEW j \in CompletedIn(flights, fl, Keys)
               PROVE  j \in ToSet(order)
    OBVIOUS
  <2>1. j \in Keys /\ flights[j] # None /\ fl[flights[j]].completed /\ flights[j] \in Requests
    BY <1>0, Typed DEF CompletedIn
  <2>2. CASE flights[j] = r
    <3>1. j = key
      BY <1>0, <2>1, <2>2 DEF EntryOK, key
    <3> QED BY <1>8, <3>1
  <2>3. CASE flights[j] # r
    <3>1. j \in Completed
      BY <1>7, <2>1, <2>3 DEF Completed, CompletedIn
    <3> QED BY <1>0, <1>8, <3>1 DEF Capped
  <2> QED BY <2>2, <2>3
<1>10. /\ e.flights \in [Keys -> Requests \cup {None}]
       /\ e.order \in Seq(Keys) /\ e.until \in Time /\ evictedUnexpiredUntil <= e.until
       /\ \A j \in Keys : \/ e.flights[j] = flights[j]
                          \/ /\ e.flights[j] = None
                             /\ flights[j] # None /\ fl[flights[j]].completed
                             /\ \/ fl[flights[j]].until <= clock
                                \/ fl[flights[j]].until <= e.until
       /\ CompletedIn(e.flights, fl, Keys) \subseteq ToSet(e.order)
       /\ Cardinality(CompletedIn(e.flights, fl, Keys)) <= MaxCompleted
  <2>1. /\ flights \in [Keys -> Requests \cup {None}] /\ evictedUnexpiredUntil \in Time
        /\ \A c \in Requests : fl[c] \in FlightRec
    BY <1>0, <1>7 DEF TypeOK
  <2> QED BY <1>0, <1>8, <1>9, <2>1, EnforcedOK
<1> HIDE DEF e
<1>11. e.until \in Nat
  BY <1>10, Constants
<1>12. Moves(r, q)
  BY <1>1, <1>4, <1>6, <1>7 DEF Moves, Over, key
<1>13. /\ req' \in [Requests -> ReqRec] /\ req'[r] = q
       /\ \A c \in Requests \ {r} : req'[c] = req[c]
       /\ \A c \in Requests : req'[c].key = req[c].key /\ req'[c].spec = req[c].spec
  <2>1. /\ req' \in [Requests -> ReqRec] /\ req'[r] = q
        /\ \A c \in Requests \ {r} : req'[c] = req[c]
    BY <1>0, <1>12, Moved
  <2> QED BY <1>4, <2>1 DEF key
<1>14. TypeOK'
  <2>1. strays' \subseteq Requests
    BY <1>0, <1>1, <1>3 DEF TypeOK
  <2> QED BY <1>0, <1>1, <1>7, <1>10, <1>13, <2>1 DEF TypeOK, FlightRec, ReqRec, Places
<1>15. Records'
  <2>1. ASSUME NEW c \in Requests
        PROVE  ReqOK(c)' /\ JoinOK(c)' /\ GotOK(c)'
    <3>1. CASE c # r
      BY <1>0, <1>12, <3>1, OthersOK
    <3>2. CASE c = r
      <4>1. ReqOK(r)'
        BY <1>1, <1>4, <1>6, <1>7, <1>13 DEF ReqOK, Over, Leads, LeadPlaces, Claimed
      <4>2. JoinOK(r)'
        BY <1>4, <1>13 DEF JoinOK
      <4>3. GotOK(r)'
        BY <1>1, <1>3, <1>4, <1>13, Constants DEF GotOK
      <4> QED BY <3>2, <4>1, <4>2, <4>3
    <3> QED BY <3>1, <3>2
  <2>2. \A c \in Requests : LifeOK(c)'
    BY <1>0, <1>1, <1>13 DEF LifeOK
  <2>3. ASSUME NEW j \in Keys
        PROVE  EntryOK(j)'
    <3> SUFFICES ASSUME flights'[j] # None
                 PROVE  EntryOK(j)'
      BY DEF EntryOK
    <3>1. flights'[j] = flights[j] /\ flights[j] \in Requests
      BY <1>0, <1>1, <1>10, Typed
    <3>2. req[flights[j]].key = j /\ (Leads(flights[j]) \/ flight[flights[j]].completed)
      BY <1>0, <3>1, Constants DEF EntryOK
    <3>3. CASE flights[j] = r
      BY <1>1, <1>6, <1>7, <1>13, <3>1, <3>2, <3>3 DEF EntryOK
    <3>4. CASE flights[j] # r
      BY <1>1, <1>7, <1>13, <3>1, <3>2, <3>4 DEF EntryOK, Leads
    <3> QED BY <3>3, <3>4
  <2>4. \A l \in Releasers : RelOK(l)'
    BY <1>0, <1>1 DEF RelOK
  <2> QED BY <1>0, <1>1, <2>1, <2>2, <2>3, <2>4 DEF Records
<1>16. Counted'
  <2>1. \A f \in Requests : Waiting(f)' = Waiting(f)
    BY <1>0, <1>1, <1>4, <1>12, NobodyComes
  <2>2. \A f \in Requests : flight'[f].joiners = flight[f].joiners
    BY <1>1, <1>6, <1>7
  <2> QED BY <1>0, <2>1, <2>2 DEF Counted
<1>17. Capped'
  <2>1. Completed' = CompletedIn(e.flights, fl, Keys)
    BY <1>1 DEF Completed, CompletedIn
  <2> QED BY <1>1, <1>10, <2>1 DEF Capped
<1>18. ASSUME NEW j \in Keys
       PROVE  CachedOK(j)'
  <2> SUFFICES ASSUME j \in Completed'
               PROVE  Replayed(j, req[flights[j]].got)'
    BY DEF CachedOK
  <2>1. /\ flights'[j] = flights[j] /\ flights[j] \in Requests /\ flights[j] # None
        /\ fl[flights[j]].completed
    BY <1>0, <1>1, <1>10, Typed DEF Completed, CompletedIn
  <2>2. CASE flights[j] = r
    <3>1. req'[flights'[j]].got = g /\ flight'[flights'[j]].until = Until(g)
      BY <1>1, <1>4, <1>6, <1>7, <1>13, <2>1, <2>2
    <3>2. g \in strays' \/ (box'[g].live /\ Until(g) <= box'[g].exp)
      BY <1>0, <1>1, <1>3, <1>5, Constants DEF BoxRec
    <3> QED BY <3>1, <3>2 DEF Replayed
  <2>3. CASE flights[j] # r
    <3>1. j \in Completed
      BY <1>7, <2>1, <2>3 DEF Completed, CompletedIn
    <3>2. Replayed(j, req[flights[j]].got)
      BY <3>1, Before
    <3>3. /\ req'[flights[j]] = req[flights[j]] /\ flight'[flights[j]] = flight[flights[j]]
          /\ strays \subseteq strays'
      BY <1>1, <1>7, <1>13, <2>1, <2>3
    <3> QED BY <1>1, <2>1, <3>2, <3>3 DEF Replayed
  <2> QED BY <2>2, <2>3
<1>19. \A b \in Requests, j \in Keys : Lives(b, j)' <=> Lives(b, j)
  BY <1>1, <1>13 DEF Lives
\* What the entry f of j covered is covered still.
<1>20. ASSUME NEW j \in Keys, NEW b \in Requests, box[b].live, flights[j] \in Requests,
              fl[flights[j]].completed, req'[flights[j]].got = b,
              box[b].exp <= fl[flights[j]].until
       PROVE  Backed(b, j)'
  <2>1. /\ box[b].exp \in Nat /\ fl[flights[j]].until \in Nat /\ clock < box[b].exp
    BY <1>0, <1>7, <1>20, Constants DEF BoxRec, FlightRec, LifeOK
  <2>2. CASE e.flights[j] = flights[j]
    <3>1. Kept(b, j)'
      BY <1>1, <1>20, <2>2, Constants DEF Kept
    <3> QED BY <3>1 DEF Backed
  <2>3. CASE e.flights[j] # flights[j]
    <3>1. fl[flights[j]].until <= clock \/ fl[flights[j]].until <= e.until
      BY <1>10, <2>3
    <3>2. box[b].exp <= e.until
      BY <1>0, <1>11, <1>20, <2>1, <3>1
    <3> QED BY <1>1, <3>2 DEF Backed
  <2> QED BY <2>2, <2>3
<1>21. ASSUME NEW j \in Keys \ doors, NEW b \in Requests
       PROVE  BoxOK(b, j)'
  <2> SUFFICES ASSUME Lives(b, j)
               PROVE  Backed(b, j)'
    BY <1>0, <1>1, <1>19 DEF BoxOK
  <2>1. Backed(b, j) /\ box[b].live /\ box[b].exp \in Nat
    BY <1>0, Constants DEF BoxOK, Lives, BoxRec
  <2>2. CASE box[b].exp <= evictedUnexpiredUntil
    <3>1. box[b].exp <= e.until
      BY <1>0, <1>10, <1>11, <2>1, <2>2
    <3> QED BY <1>1, <3>1 DEF Backed
  <2>3. CASE Unsettled(j)
    <3>1. PICK c \in Requests : req[c].key = j /\ req[c].at = "unknown"
      BY <2>3 DEF Unsettled
    <3>2. req'[c] = req[c]
      BY <1>1, <1>13, <3>1
    <3> QED BY <3>1, <3>2 DEF Backed, Unsettled
  <2>4. CASE Kept(b, j)
    <3>1. flights[j] \in Requests \ {r} /\ flight[flights[j]].completed
      BY <1>0, <1>2, <2>4, Typed DEF Kept
    <3>2. fl[flights[j]] = flight[flights[j]] /\ req'[flights[j]] = req[flights[j]]
      BY <1>7, <1>13, <3>1
    <3> QED BY <1>20, <2>1, <2>4, <3>1, <3>2 DEF Kept
  <2>5. CASE Ending(b, j)
    <3>1. PICK c \in Requests : /\ req[c].key = j
                                /\ \/ req[c].at = "lose"
                                   \/ req[c].at = "succeed" /\ req[c].got = b
      BY <2>5 DEF Ending
    <3>2. CASE c # r
      <4>1. req'[c] = req[c]
        BY <1>13, <3>2
      <4>2. Ending(b, j)'
        BY <3>1, <4>1 DEF Ending
      <4> QED BY <4>2 DEF Backed
    <3>3. CASE c = r
      <4>1. b = g
        BY <1>1, <3>1, <3>3 DEF g
      <4>2. flights[j] = r
        BY <1>0, <1>2, <3>1, <3>3 DEF LeaderOK
      <4>3. fl[r].completed /\ req'[r].got = g /\ fl[r].until = box[g].exp
        BY <1>4, <1>5, <1>6, <1>7, <1>13, <2>1, <4>1
      <4>4. box[b].exp <= fl[flights[j]].until
        BY <2>1, <4>1, <4>2, <4>3
      <4> QED BY <1>20, <2>1, <4>1, <4>2, <4>3, <4>4
    <3> QED BY <3>2, <3>3
  <2> QED BY <2>1, <2>2, <2>3, <2>4, <2>5 DEF Backed
<1>22. ASSUME NEW j \in Keys \ doors, NEW c \in Requests
       PROVE  LeaderOK(c, j)'
  <2>1. CASE c = r
    BY <1>4, <1>13, <2>1 DEF LeaderOK, Leads, LeadPlaces
  <2>2. CASE c # r
    <3>1. req'[c] = req[c]
      BY <1>13, <2>2
    <3> SUFFICES ASSUME Leads(c), req[c].key = j
                 PROVE  LeaderOK(c, j)'
      BY <3>1 DEF LeaderOK, Leads
    <3>2. LeaderOK(c, j) /\ flights[j] = c /\ ~flight[c].completed
      BY <1>0 DEF LeaderOK, ReqOK
    <3>3. flights'[j] = c
      BY <1>1, <1>7, <1>10, <2>2, <3>2
    <3>4. \A b \in Requests : box[b].exp <= evictedUnexpiredUntil
                                => box'[b].exp <= evictedUnexpiredUntil'
      <4> SUFFICES ASSUME NEW b \in Requests, box[b].exp <= evictedUnexpiredUntil
                   PROVE  box[b].exp <= e.until
        BY <1>1
      <4>1. box[b].exp \in Nat
        BY <1>0, Constants DEF BoxRec
      <4> QED BY <1>0, <1>10, <1>11, <4>1
    <3> QED BY <1>1, <1>19, <3>1, <3>2, <3>3, <3>4 DEF LeaderOK, Leads
  <2> QED BY <2>1, <2>2
<1>23. Single'
  BY <1>1, <1>21, <1>22 DEF Single
<1> QED BY <1>14, <1>15, <1>16, <1>17, <1>18, <1>23 DEF IInv

LEMMA FailOK ==
  ASSUME IInv, NEW r \in Requests, Fail(r)
  PROVE  IInv'
<1> DEFINE key == req[r].key
           at  == IF req[r].at = "lose" THEN "unknown" ELSE "failed"
           fl  == [flight[r] EXCEPT !.done = TRUE]
           q   == [req[r] EXCEPT !.at = at, !.snap = {}, !.todo = {}]
<1>0. /\ TypeOK /\ Records /\ Counted /\ Capped
      /\ \A c \in Requests : ReqOK(c) /\ JoinOK(c) /\ GotOK(c) /\ LifeOK(c)
      /\ \A j \in Keys : EntryOK(j) /\ CachedOK(j)
      /\ \A l \in Releasers : RelOK(l)
      /\ removing \notin targets
      /\ \A j \in Keys \ doors : \A c \in Requests : BoxOK(c, j) /\ LeaderOK(c, j)
      /\ req[r] \in ReqRec /\ flight[r] \in FlightRec
  BY Parts, Typed
<1>1. /\ req[r].at \in {"fail", "lose"} /\ req' = [req EXCEPT ![r] = q]
      /\ flight' = [flight EXCEPT ![r] = fl]
      /\ flights' = (IF flights[key] = r THEN Without(flights, {key}) ELSE flights)
      /\ clock' = clock /\ targets' = targets /\ removing' = removing
      /\ completedOrder' = completedOrder /\ evictedUnexpiredUntil' = evictedUnexpiredUntil
      /\ box' = box /\ rel' = rel /\ doors' = doors /\ strays' = strays
  BY DEF Fail, hist
<1>2. /\ Leads(r) /\ key \in Keys /\ req[r].spec \in Specs
      /\ ~flight[r].done /\ ~flight[r].completed
  BY <1>0, <1>1 DEF ReqOK, Leads, LeadPlaces, Over
<1>3. /\ at \in {"unknown", "failed"} /\ (req[r].at = "lose" => at = "unknown")
      /\ (req[r].at = "fail" => at = "failed")
  OBVIOUS
<1> HIDE DEF at
<1>4. q \in ReqRec /\ q.at = at /\ q.got = req[r].got /\ q.key = key /\ q.spec = req[r].spec
  BY <1>0, <1>3 DEF ReqRec, Places, Over
<1>5. /\ fl \in FlightRec /\ fl.done /\ ~fl.completed /\ fl.until = flight[r].until
      /\ fl.joiners = flight[r].joiners
  BY <1>0, <1>2 DEF FlightRec
<1> HIDE DEF fl, q
<1>6. /\ flight' \in [Requests -> FlightRec] /\ flight'[r] = fl
      /\ \A c \in Requests \ {r} : flight'[c] = flight[c]
  BY <1>0, <1>1, <1>5 DEF TypeOK, FlightRec
<1>7. Moves(r, q)
  BY <1>1, <1>3, <1>4, <1>5, <1>6 DEF Moves, Over, key
<1>8. /\ req' \in [Requests -> ReqRec] /\ req'[r] = q
      /\ \A c \in Requests \ {r} : req'[c] = req[c]
      /\ \A c \in Requests : req'[c].key = req[c].key /\ req'[c].spec = req[c].spec
  <2>1. /\ req' \in [Requests -> ReqRec] /\ req'[r] = q
        /\ \A c \in Requests \ {r} : req'[c] = req[c]
    BY <1>0, <1>7, Moved
  <2> QED BY <1>4, <2>1 DEF key
\* Only the entry of r goes.
<1>9. /\ flights' \in [Keys -> Requests \cup {None}]
      /\ \A j \in Keys : /\ flights[j] = r => flights'[j] = None
                         /\ flights[j] # r => flights'[j] = flights[j]
  <2>1. \A j \in Keys : flights[j] = r => j = key
    BY <1>0, Constants DEF EntryOK, key
  <2>2. /\ Without(flights, {key}) \in [Keys -> Requests \cup {None}]
        /\ \A j \in Keys : Without(flights, {key})[j] = IF j \in {key} THEN None ELSE flights[j]
    BY <1>0, WithoutOK
  <2>3. flights \in [Keys -> Requests \cup {None}]
    BY <1>0 DEF TypeOK
  <2> HIDE DEF key
  <2> QED BY <1>1, <1>2, <2>1, <2>2, <2>3
<1> HIDE DEF key
<1>10. TypeOK'
  BY <1>0, <1>1, <1>6, <1>8, <1>9 DEF TypeOK, FlightRec, ReqRec, Places
<1>11. Records'
  <2>1. ASSUME NEW c \in Requests
        PROVE  ReqOK(c)' /\ JoinOK(c)' /\ GotOK(c)'
    <3>1. CASE c # r
      BY <1>0, <1>7, <3>1, OthersOK
    <3>2. CASE c = r
      <4>1. ReqOK(r)'
        <5>1. q.at \notin Claimed => box[r] = NoBox
          BY <1>0, <1>1, <1>3, <1>4 DEF ReqOK, Claimed
        <5> QED BY <1>1, <1>3, <1>4, <1>5, <1>6, <1>8, <5>1 DEF ReqOK, Over, Leads, LeadPlaces
      <4>2. JoinOK(r)'
        BY <1>3, <1>4, <1>8 DEF JoinOK
      <4>3. GotOK(r)'
        <5>1. req[r].got \in Requests \cup {None}
          BY <1>0 DEF ReqRec
        <5> QED BY <1>0, <1>1, <1>3, <1>4, <1>8, <5>1 DEF GotOK, key
      <4> QED BY <3>2, <4>1, <4>2, <4>3
    <3> QED BY <3>1, <3>2
  <2>2. \A c \in Requests : LifeOK(c)'
    BY <1>0, <1>1, <1>8 DEF LifeOK
  <2>3. ASSUME NEW j \in Keys
        PROVE  EntryOK(j)'
    <3> SUFFICES ASSUME flights'[j] # None
                 PROVE  EntryOK(j)'
      BY DEF EntryOK
    <3>1. flights'[j] = flights[j] /\ flights[j] \in Requests \ {r}
      BY <1>0, <1>9, Typed
    <3>2. req[flights[j]].key = j /\ (Leads(flights[j]) \/ flight[flights[j]].completed)
      BY <1>0, <3>1, Constants DEF EntryOK
    <3> QED BY <1>6, <1>8, <3>1, <3>2 DEF EntryOK, Leads
  <2>4. \A l \in Releasers : RelOK(l)'
    BY <1>0, <1>1 DEF RelOK
  <2> QED BY <1>0, <1>1, <2>1, <2>2, <2>3, <2>4 DEF Records
<1>12. Counted'
  <2>1. \A f \in Requests : Waiting(f)' = Waiting(f)
    BY <1>0, <1>1, <1>3, <1>4, <1>7, NobodyComes
  <2>2. \A f \in Requests : flight'[f].joiners = flight[f].joiners
    BY <1>5, <1>6
  <2> QED BY <1>0, <2>1, <2>2 DEF Counted
<1>13. /\ Completed' = Completed
       /\ \A j \in Completed : flights'[j] = flights[j] /\ flights[j] \in Requests \ {r}
  <2>1. \A j \in Keys : flights[j] # None => flights[j] \in Requests
    BY <1>0, Typed
  <2>2. \A j \in Completed : flights'[j] = flights[j] /\ flights[j] \in Requests \ {r}
    BY <1>2, <1>9, <2>1 DEF Completed, CompletedIn
  <2>3. Completed \subseteq Completed'
    BY <1>6, <2>2 DEF Completed, CompletedIn
  <2>4. Completed' \subseteq Completed
    BY <1>6, <1>9, <2>1 DEF Completed, CompletedIn
  <2> QED BY <2>2, <2>3, <2>4
<1>14. Capped'
  BY <1>0, <1>1, <1>13 DEF Capped
<1>15. ASSUME NEW j \in Keys
       PROVE  CachedOK(j)'
  <2> SUFFICES ASSUME j \in Completed
               PROVE  Replayed(j, req[flights[j]].got)'
    BY <1>13 DEF CachedOK
  <2>1. /\ Replayed(j, req[flights[j]].got) /\ flights'[j] = flights[j]
        /\ req'[flights[j]] = req[flights[j]] /\ flight'[flights[j]] = flight[flights[j]]
    BY <1>6, <1>8, <1>13, Before
  <2>2. clock' = clock /\ strays' = strays /\ box' = box /\ rel' = rel
    BY <1>1
  <2> QED BY <2>1, <2>2 DEF Replayed
<1>16. \A b \in Requests, j \in Keys : Lives(b, j)' <=> Lives(b, j)
  BY <1>1, <1>8 DEF Lives
<1>17. ASSUME NEW j \in Keys \ doors, NEW b \in Requests
       PROVE  BoxOK(b, j)'
  <2> SUFFICES ASSUME Lives(b, j)
               PROVE  Backed(b, j)'
    BY <1>0, <1>1, <1>16 DEF BoxOK
  <2>1. Backed(b, j)
    BY <1>0 DEF BoxOK
  <2>2. CASE box[b].exp <= evictedUnexpiredUntil
    BY <1>1, <2>2 DEF Backed
  <2>3. CASE Unsettled(j)
    <3>1. PICK c \in Requests : req[c].key = j /\ req[c].at = "unknown"
      BY <2>3 DEF Unsettled
    <3>2. req'[c] = req[c]
      BY <1>1, <1>8, <3>1
    <3> QED BY <3>1, <3>2 DEF Backed, Unsettled
  <2>4. CASE Kept(b, j)
    <3>1. j \in Completed
      BY <2>4 DEF Kept, Completed, CompletedIn
    <3>2. /\ flights'[j] = flights[j] /\ req'[flights[j]] = req[flights[j]]
          /\ flight'[flights[j]] = flight[flights[j]]
      BY <1>6, <1>8, <1>13, <3>1
    <3> QED BY <1>1, <2>4, <3>2 DEF Backed, Kept
  <2>5. CASE Ending(b, j)
    <3>1. PICK c \in Requests : /\ req[c].key = j
                                /\ \/ req[c].at = "lose"
                                   \/ req[c].at = "succeed" /\ req[c].got = b
      BY <2>5 DEF Ending
    <3>2. CASE c # r
      <4>1. req'[c] = req[c]
        BY <1>8, <3>2
      <4>2. Ending(b, j)'
        BY <3>1, <4>1 DEF Ending
      <4> QED BY <4>2 DEF Backed
    <3>3. CASE c = r
      <4>1. req'[r].key = j /\ req'[r].at = "unknown"
        BY <1>1, <1>3, <1>4, <1>8, <3>1, <3>3
      <4> QED BY <4>1 DEF Backed, Unsettled
    <3> QED BY <3>2, <3>3
  <2> QED BY <2>1, <2>2, <2>3, <2>4, <2>5 DEF Backed
<1>18. ASSUME NEW j \in Keys \ doors, NEW c \in Requests
       PROVE  LeaderOK(c, j)'
  <2>1. CASE c = r
    BY <1>3, <1>4, <1>8, <2>1 DEF LeaderOK, Leads, LeadPlaces
  <2>2. CASE c # r
    <3>1. req'[c] = req[c] /\ LeaderOK(c, j)
      BY <1>0, <1>8, <2>2
    <3>2. flights[j] = c => flights'[j] = c
      BY <1>9, <2>2
    <3> QED BY <1>1, <1>16, <3>1, <3>2 DEF LeaderOK, Leads
  <2> QED BY <2>1, <2>2
<1>19. Single'
  BY <1>1, <1>17, <1>18 DEF Single
<1> QED BY <1>10, <1>11, <1>12, <1>14, <1>15, <1>19 DEF IInv

-----------------------------------------------------------------------------
(* The invariant, and what follows from it.                                *)

LEMMA InitOK ==
  ASSUME Init
  PROVE  IInv
<1>1. /\ clock = 0 /\ targets = Providers /\ removing = None
      /\ flights = [k \in Keys |-> None] /\ completedOrder = <<>>
      /\ evictedUnexpiredUntil = 0
      /\ flight = [r \in Requests |-> NoFlight]
      /\ req = [r \in Requests |-> NewReq]
      /\ box = [r \in Requests |-> NoBox]
      /\ rel = [l \in Releasers |-> IdleRel]
      /\ doors = {} /\ strays = {}
  BY DEF Init
<1>2. NewReq \in ReqRec /\ NoFlight \in FlightRec /\ NoBox \in BoxRec /\ IdleRel \in RelRec
  BY Constants DEF NewReq, ReqRec, Places, NoFlight, FlightRec, NoBox, BoxRec, IdleRel, RelRec
<1>3. TypeOK
  <2>1. clock \in 0..MaxTime /\ evictedUnexpiredUntil \in Time
    BY <1>1, Constants
  <2>2. completedOrder \in Seq(Keys)
    BY <1>1
  <2>3. /\ flight \in [Requests -> FlightRec] /\ req \in [Requests -> ReqRec]
        /\ box \in [Requests -> BoxRec] /\ rel \in [Releasers -> RelRec]
    BY <1>1, <1>2
  <2> QED BY <1>1, <2>1, <2>2, <2>3
          DEF TypeOK, FlightRec, ReqRec, Places, BoxRec, RelRec
<1>4. \A r \in Requests : /\ req[r].at = "new" /\ req[r].got = None
                          /\ flight[r] = NoFlight /\ ~flight[r].completed /\ ~flight[r].done
                          /\ flight[r].joiners = 0
                          /\ box[r] = NoBox /\ ~box[r].live /\ box[r].exp = 0
  BY <1>1 DEF NewReq, NoFlight, NoBox
<1>5. \A l \in Releasers : rel[l].at = "idle" /\ ~rel[l].byKey
  BY <1>1 DEF IdleRel
<1>6. Records
  <2>1. \A r \in Requests : ReqOK(r) /\ JoinOK(r) /\ GotOK(r)
    BY <1>4 DEF ReqOK, JoinOK, GotOK, Leads, LeadPlaces, Claimed, Over
  <2>2. \A r \in Requests : LifeOK(r)
    BY <1>1, <1>4, Constants DEF LifeOK
  <2>3. \A k \in Keys : EntryOK(k)
    BY <1>1 DEF EntryOK
  <2>4. \A l \in Releasers : RelOK(l)
    BY <1>5 DEF RelOK
  <2> QED BY <1>1, <2>1, <2>2, <2>3, <2>4, Constants DEF Records
<1>7. Counted
  <2>1. \A f \in Requests : Waiting(f) = {}
    BY <1>4 DEF Waiting
  <2> QED BY <1>4, <2>1, FS_EmptySet DEF Counted
<1>8. Completed = {}
  BY <1>1 DEF Completed, CompletedIn
<1>9. Capped
  <2>1. Cardinality(Completed) = 0
    BY <1>8, FS_EmptySet
  <2> QED BY <1>8, <2>1, Constants DEF Capped
<1>10. \A k \in Keys : CachedOK(k)
  BY <1>8 DEF CachedOK
<1>11. Single
  BY <1>4 DEF Single, BoxOK, Lives, LeaderOK, Leads, LeadPlaces
<1> QED BY <1>3, <1>6, <1>7, <1>9, <1>10, <1>11 DEF IInv

LEMMA ProceedsOK ==
  ASSUME IInv, NEW r \in Requests, Proceeds(r)
  PROVE  IInv'
<1>1. CASE JoinRefused(r)
  BY <1>1, JoinRefusedOK
<1>2. CASE JoinAccepted(r)
  BY <1>2, JoinAcceptedOK
<1>3. CASE \E excluded \in BOOLEAN : JoinDone(r, excluded)
  BY <1>3, JoinDoneOK
<1>4. CASE ExecuteFlight(r)
  BY <1>4, ExecuteFlightOK
<1>5. CASE Probed(r)
  BY <1>5, ProbedOK
<1>6. CASE ProbeFails(r)
  BY <1>6, ProbeFailsOK
<1>7. CASE ClaimFails(r)
  BY <1>7, ClaimFailsOK
<1>8. CASE \E p \in Providers : Probe(r, p)
  BY <1>8, ProbeOK
<1>9. CASE \E p \in Providers : ProbeDark(r, p)
  BY <1>9, ProbeDarkOK
<1>10. CASE \E p \in Providers : \E lost \in BOOLEAN : Claim(r, p, lost)
  BY <1>10, ClaimOK
<1>11. CASE Succeed(r)
  BY <1>11, SucceedOK
<1>12. CASE Fail(r)
  BY <1>12, FailOK
<1> QED BY <1>1, <1>2, <1>3, <1>4, <1>5, <1>6, <1>7, <1>8, <1>9, <1>10, <1>11, <1>12
        DEF Proceeds

LEMMA ReleasesOK ==
  ASSUME IInv, NEW l \in Releasers, Releases(l)
  PROVE  IInv'
<1>1. CASE \E lost \in BOOLEAN : Drop(l, lost)
  BY <1>1, DropOK
<1>2. CASE EvictCompletedFlight(l)
  BY <1>2, EvictCompletedFlightOK
<1>3. CASE Awaited(l)
  BY <1>3, AwaitedOK
<1>4. CASE Cached(l)
  BY <1>4, CachedStepOK
<1>5. CASE Forget(l)
  BY <1>5, ForgetOK
<1>6. CASE \E p \in Providers : Search(l, p)
  BY <1>6, SearchOK
<1> QED BY <1>1, <1>2, <1>3, <1>4, <1>5, <1>6 DEF Releases

LEMMA StutterOK ==
  ASSUME IInv, UNCHANGED vars
  PROVE  IInv'
<1>1. /\ clock' = clock /\ targets' = targets /\ removing' = removing /\ flights' = flights
      /\ completedOrder' = completedOrder /\ evictedUnexpiredUntil' = evictedUnexpiredUntil
      /\ flight' = flight /\ req' = req /\ box' = box /\ rel' = rel
      /\ doors' = doors /\ strays' = strays
  BY DEF vars, cache
<1>2. TypeOK'
  BY <1>1, Before DEF TypeOK
<1>3. removing' \notin targets'
  BY <1>1, Before
<1>4. Withdraws
  BY <1>1, Before DEF Withdraws, Lives
<1>5. \A m \in Releasers : RelOK(m)'
  BY <1>1, Parts DEF RelOK
<1>6. \A k \in Keys : CachedOK(k)'
  BY <1>1, Parts DEF CachedOK, Completed, CompletedIn, Replayed
<1> QED BY <1>2, <1>3, <1>4, <1>5, <1>6, WithdrawStep

LEMMA NextOK ==
  ASSUME IInv, [Next]_vars
  PROVE  IInv'
<1>1. CASE \E r \in Requests : Enters(r) \/ Proceeds(r) \/ JoinCancelled(r)
  <2>1. PICK r \in Requests : Enters(r) \/ Proceeds(r) \/ JoinCancelled(r)
    BY <1>1
  <2>2. CASE TooManyRequests(r)
    BY <2>2, TooManyRequestsOK
  <2>3. CASE \E k \in Keys, s \in Specs, retry \in BOOLEAN :
                /\ Unsettled(k) => retry
                /\ JoinFlight(r, k, s, retry) \/ LeadFlight(r, k, s, retry)
    BY <2>3, JoinFlightOK, LeadFlightOK
  <2>4. CASE Proceeds(r)
    BY <2>4, ProceedsOK
  <2>5. CASE JoinCancelled(r)
    BY <2>5, JoinCancelledOK
  <2> QED BY <2>1, <2>2, <2>3, <2>4, <2>5 DEF Enters
<1>2. CASE \E l \in Releasers : \/ \E b \in Requests : Release(l, b)
                                \/ \E k \in Keys : ReleaseByKey(l, k)
                                \/ Releases(l) \/ GiveUp(l)
  BY <1>2, ReleaseOK, ReleaseByKeyOK, ReleasesOK, GiveUpOK
<1>3. CASE \E p \in Removable : SetTarget(p) \/ RemoveTarget(p)
  BY <1>3, SetTargetOK, RemoveTargetOK, Constants
<1>4. CASE EvictTarget
  BY <1>4, EvictTargetOK
<1>5. CASE Tick
  BY <1>5, TickOK
<1>6. CASE UNCHANGED vars
  BY <1>6, StutterOK
<1> QED BY <1>1, <1>2, <1>3, <1>4, <1>5, <1>6 DEF Next

\* The invariant holds in every state that the binder reaches: the flights, their
\* joiners, the cache, the sandboxes and the releases agree with each other.
THEOREM Invariance == Spec => []IInv
<1>1. Init => IInv
  BY InitOK
<1>2. IInv /\ [Next]_vars => IInv'
  BY NextOK
<1> QED BY <1>1, <1>2, PTL DEF Spec

\* At most one thing has a property that no two things share.
LEMMA AtMostOne ==
  ASSUME NEW S \in SUBSET Requests, \A x \in S, y \in S : x = y
  PROVE  Cardinality(S) <= 1
<1>1. CASE S = {}
  BY <1>1, FS_EmptySet
<1>2. CASE S # {}
  <2>1. PICK x \in S : S = {x}
    BY <1>2
  <2> QED BY <2>1, FS_Singleton
<1> QED BY <1>1, <1>2

\* One key never has two sandboxes and never two flights at work (binder.go:5-8),
\* as long as ReleaseByKey deletes no entry that counts and no sandbox of the key is
\* on a provider that is gone: for any number of requests, releases, removals,
\* evictions and lost answers.
THEOREM OneSandboxAlways == Spec => []OneSandbox
<1>1. IInv => OneSandbox
  <2> SUFFICES ASSUME IInv, NEW k \in Keys, k \notin doors
               PROVE  Cardinality(Live(k)) <= 1 /\ Cardinality(Leading(k)) <= 1
    BY DEF OneSandbox
  <2>1. \A r \in Requests : BoxOK(r, k) /\ LeaderOK(r, k)
    BY Parts
  <2>2. Live(k) \subseteq Requests /\ \A b \in Live(k), c \in Live(k) : b = c
    BY <2>1 DEF Live, BoxOK, Lives
  <2>3. Leading(k) \subseteq Requests /\ \A b \in Leading(k), c \in Leading(k) : b = c
    BY <2>1 DEF Leading, LeaderOK, Leads, LeadPlaces
  <2> QED BY <2>2, <2>3, AtMostOne
<1> QED BY <1>1, Invariance, PTL

\* No request is given a sandbox that was claimed with another spec: not by the
\* flight it joins, by the cache, by a lookup or by a claim (pluggable-claims.md:334-338).
THEOREM SpecHonouredAlways == Spec => []SpecHonoured
<1>1. IInv => SpecHonoured
  BY Parts DEF SpecHonoured, GotOK
<1> QED BY <1>1, Invariance, PTL

\* After every step no more completed flights are kept than the cap, each of them can
\* still be found and evicted, and joiners are within their bound (binder.go:609-613).
THEOREM CacheBoundedAlways == Spec => []CacheBounded
<1>1. IInv => CacheBounded
  BY Parts DEF CacheBounded, Capped, Completed
<1> QED BY <1>1, Invariance, PTL

\* What the cache replays is there, or its release is about to reach the cache, for any
\* interleaving of releases, expiries, evictions and removals (binder.go:2016-2018).
THEOREM CachedIsLiveAlways == Spec => []CachedIsLive
<1>1. IInv => CachedIsLive
  <2> SUFFICES ASSUME IInv, NEW k \in Keys, flights[k] # None,
                      flight[flights[k]].completed, ~Expired(flights[k])
               PROVE  \/ box[req[flights[k]].got].live \/ req[flights[k]].got \in strays
                      \/ \E l \in Releasers : rel[l].at = "evict"
                                              /\ rel[l].box = req[flights[k]].got
    BY DEF CachedIsLive
  <2>1. k \in Completed
    BY DEF Completed, CompletedIn
  <2>2. Replayed(k, req[flights[k]].got)
    BY <2>1, Before
  <2>3. ~(clock >= flight[flights[k]].until)
    BY DEF Expired
  <2> QED BY <2>2, <2>3 DEF Replayed
<1> QED BY <1>1, Invariance, PTL
=============================================================================
