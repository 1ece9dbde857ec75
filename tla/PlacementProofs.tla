---------------------------- MODULE PlacementProofs ----------------------------
(***************************************************************************)
(* Proofs about placing a request: module Slots, whose calls carry it out, *)
(* and module Schedule in the last part, which decides where it goes, for  *)
(* every value of the constants they allow.                                *)
(*                                                                         *)
(* About Slots: for every number of callers, batch size, slot limit and    *)
(* health window the variables keep their types, every caller gets one     *)
(* answer, and once the binder's shutdown is over nothing calls the        *)
(* provider any more.                                                      *)
(*                                                                         *)
(* activeAttempts has to cover all calls together: claims, probes and the  *)
(* batches at their call.                                                  *)
(***************************************************************************)
EXTENDS Slots, Schedule, TLAPS, FiniteSetTheorems, SequenceTheorems, WellFoundedInduction

InCall == {b \in batches : b.at = "call"}

\* Each call is counted, and holds a slot.
CallsCounted ==
    /\ IsFiniteSet(batches)
    /\ inUse = active
    /\ claims + probes + Cardinality(InCall) <= active

\* The channel is closed at most once, when the last attempt has ended after
\* the door was shut.
ClosedLast == closes = 0 \/ (closes = 1 /\ closing /\ active = 0)

IInv == TypeOK /\ CallsCounted /\ ClosedLast

-----------------------------------------------------------------------------
(* The counters.                                                           *)

\* The number of batches at their call is a number.
LEMMA InCallFinite ==
    ASSUME IsFiniteSet(batches)
    PROVE  IsFiniteSet(InCall) /\ Cardinality(InCall) \in Nat
<1>1. InCall \in SUBSET batches
  BY DEF InCall
<1> QED BY <1>1, FS_Subset, FS_CardinalityType

\* If no batch joins those at their call, they do not become more.
LEMMA InCallShrinks ==
    ASSUME IsFiniteSet(batches), InCall' \subseteq InCall
    PROVE  IsFiniteSet(InCall') /\ Cardinality(InCall') \in Nat /\
           Cardinality(InCall') <= Cardinality(InCall)
<1>1. IsFiniteSet(InCall)
  BY InCallFinite
<1>2. InCall' \in SUBSET InCall
  OBVIOUS
<1> QED BY <1>1, <1>2, FS_Subset, FS_CardinalityType

\* Enter counts one more attempt and one more slot, before the shutdown.
LEMMA EnterCounts ==
    ASSUME TypeOK, CallsCounted, ClosedLast, Enter
    PROVE  /\ inUse' = inUse + 1 /\ active' = active + 1
           /\ {inUse', active', closes'} \subseteq Nat /\ closing' \in BOOLEAN
           /\ ClosedLast'
  BY DEF Enter, Open, TypeOK, CallsCounted, ClosedLast, shutdown

\* Leave, of an attempt that was counted, uncounts it; the last one closes.
LEMMA LeaveCounts ==
    ASSUME TypeOK, CallsCounted, ClosedLast, Leave, active > 0
    PROVE  /\ inUse' = inUse - 1 /\ active' = active - 1
           /\ {inUse', active', closes'} \subseteq Nat /\ closing' \in BOOLEAN
           /\ ClosedLast'
  BY DEF Leave, TypeOK, CallsCounted, ClosedLast

-----------------------------------------------------------------------------
(* The data.                                                               *)

\* What flush leaves and what it takes are both parts of the queue.
LEMMA TakenAndRest ==
    ASSUME TypeOK
    PROVE  Taken \in Seq(Callers) /\ Rest \in Seq(Callers)
<1> DEFINE n == Min({MaxBatch, Len(pending)})
<1>1. MaxBatch \in Nat /\ Len(pending) \in Nat /\ pending \in Seq(Callers)
  BY SlotsAssumption DEF TypeOK
<1>2. n \in {MaxBatch, Len(pending)} /\ n <= Len(pending)
  <2>1. \E x \in {MaxBatch, Len(pending)} :
          \A y \in {MaxBatch, Len(pending)} : x <= y
    BY <1>1
  <2> QED BY <2>1 DEF Min
<1> HIDE DEF n
<1>3. n \in Nat /\ \A i \in 1..n : pending[i] \in Callers
  BY <1>1, <1>2
<1>4. SubSeq(pending, 1, n) \in Seq(Callers) /\ Len(SubSeq(pending, 1, n)) \in Nat
  BY <1>3, SubSeqProperties
<1>5. Taken \in Seq(Callers) /\ Len(Taken) \in Nat
  BY <1>4 DEF Taken, n
<1>6. Len(Taken) + 1 \in Int /\ \A i \in (Len(Taken) + 1)..Len(pending) : pending[i] \in Callers
  BY <1>1, <1>5
<1>7. Rest \in Seq(Callers)
  BY <1>1, <1>6, SubSeqProperties DEF Rest
<1> QED BY <1>5, <1>7

\* A batch that is told leaves every caller with a phase or an answer.
LEMMA ToldKeepsType ==
    ASSUME TypeOK, NEW b \in batches, NEW answer \in [DOMAIN b.items -> Answers],
           Told(b, answer)
    PROVE  caller' \in [Callers -> Phases \cup Answers] /\ batches' = batches \ {b}
<1>1. ASSUME NEW c \in Callers, \E i \in DOMAIN b.items : b.items[i] = c
      PROVE  answer[CHOOSE i \in DOMAIN b.items : b.items[i] = c] \in Answers
  BY <1>1
<1> QED BY <1>1 DEF Told, TypeOK

\* The window keeps its type and its length.
LEMMA PushedKeepsType ==
    ASSUME NEW w \in Seq(BOOLEAN), Len(w) <= Window, NEW bad \in BOOLEAN
    PROVE  Pushed(w, bad) \in Seq(BOOLEAN) /\ Len(Pushed(w, bad)) <= Window
<1> DEFINE all == Append(w, bad)
<1>1. all \in Seq(BOOLEAN) /\ Len(all) = Len(w) + 1 /\ Len(w) \in Nat /\ Window \in Nat
  BY SlotsAssumption
<1>2. CASE Len(all) > Window
  <2>1. all # <<>>
    BY <1>1
  <2>2. Tail(all) \in Seq(BOOLEAN) /\ Len(Tail(all)) = Len(all) - 1
    BY <1>1, <2>1
  <2> HIDE DEF all
  <2>3. Pushed(w, bad) = Tail(all)
    BY <1>2 DEF Pushed, all
  <2> QED BY <1>1, <2>2, <2>3
<1>3. CASE ~(Len(all) > Window)
  BY <1>1, <1>3 DEF Pushed
<1> QED BY <1>2, <1>3

HealthOK ==
    /\ health \in [window : Seq(BOOLEAN), demoted : BOOLEAN, probing : BOOLEAN,
                   due : BOOLEAN]
    /\ Len(health.window) <= Window

\* What recordClaim and the probe do to the tracker keeps its type.
LEMMA HealthKeepsType ==
    ASSUME HealthOK,
           \/ recordSuccess \/ recordUnavailable \/ probeSucceeded
           \/ \E due \in BOOLEAN : probeFailed(due)
           \/ UNCHANGED health
    PROVE  HealthOK'
<1>1. Window \in Nat
  BY SlotsAssumption
<1>2. health.window \in Seq(BOOLEAN) /\ Len(health.window) <= Window
  BY DEF HealthOK
<1>3. \A bad \in BOOLEAN : Pushed(health.window, bad) \in Seq(BOOLEAN) /\
                           Len(Pushed(health.window, bad)) <= Window
  BY <1>2, PushedKeepsType
<1>4. CASE recordSuccess
  BY <1>3, <1>4 DEF recordSuccess, HealthOK
<1>5. CASE recordUnavailable
  BY <1>3, <1>5 DEF recordUnavailable, HealthOK
<1>6. CASE probeSucceeded
  BY <1>1, <1>6 DEF probeSucceeded, Fresh, HealthOK
<1>7. CASE \E due \in BOOLEAN : probeFailed(due)
  BY <1>7 DEF probeFailed, HealthOK
<1>8. CASE UNCHANGED health
  BY <1>8 DEF HealthOK
<1> QED BY <1>4, <1>5, <1>6, <1>7, <1>8

-----------------------------------------------------------------------------
(* The steps.                                                              *)

\* A step that makes no call and ends none.
LEMMA QuietStep ==
    ASSUME IInv, TypeOK', IsFiniteSet(batches'), InCall' \subseteq InCall,
           UNCHANGED <<calls, shared>>
    PROVE  IInv'
<1>1. Cardinality(InCall') \in Nat /\ Cardinality(InCall') <= Cardinality(InCall)
  BY InCallShrinks DEF IInv, CallsCounted
<1>2. Cardinality(InCall) \in Nat
  BY InCallFinite DEF IInv, CallsCounted
<1>3. CallsCounted'
  BY <1>1, <1>2 DEF IInv, CallsCounted, calls, shared, shutdown, TypeOK
<1>4. ClosedLast'
  BY DEF IInv, ClosedLast, shared, shutdown
<1> QED BY <1>3, <1>4 DEF IInv

\* A claim or a probe begins.
LEMMA BeginStep ==
    ASSUME IInv, TypeOK', Enter, UNCHANGED batches,
           {claims', probes'} \subseteq Nat, claims' + probes' = claims + probes + 1
    PROVE  IInv'
<1>1. Cardinality(InCall) \in Nat /\ InCall' = InCall
  BY InCallFinite DEF IInv, CallsCounted, InCall
<1>2. inUse' = inUse + 1 /\ active' = active + 1 /\ ClosedLast'
  BY EnterCounts DEF IInv
<1>3. {claims, probes, inUse, active} \subseteq Nat
  BY DEF IInv, TypeOK
<1>4. CallsCounted
  BY DEF IInv
<1>5. CallsCounted'
  BY <1>1, <1>2, <1>3, <1>4 DEF CallsCounted
<1> QED BY <1>2, <1>5 DEF IInv

\* A claim or a probe ends.
LEMMA EndStep ==
    ASSUME IInv, TypeOK', Leave, active > 0, UNCHANGED batches,
           {claims', probes'} \subseteq Nat, claims' + probes' = claims + probes - 1
    PROVE  IInv'
<1>1. Cardinality(InCall) \in Nat /\ InCall' = InCall
  BY InCallFinite DEF IInv, CallsCounted, InCall
<1>2. inUse' = inUse - 1 /\ active' = active - 1 /\ ClosedLast'
  BY LeaveCounts DEF IInv
<1>3. {claims, probes, inUse, active} \subseteq Nat
  BY DEF IInv, TypeOK
<1>4. CallsCounted
  BY DEF IInv
<1>5. CallsCounted'
  BY <1>1, <1>2, <1>3, <1>4 DEF CallsCounted
<1> QED BY <1>2, <1>5 DEF IInv

\* Claims and probes are counted.
LEMMA SomeActive ==
    ASSUME IInv, claims > 0 \/ probes > 0 \/ InCall # {}
    PROVE  active > 0
<1>1. IsFiniteSet(InCall) /\ Cardinality(InCall) \in Nat
  BY InCallFinite DEF IInv, CallsCounted
<1>2. InCall # {} => Cardinality(InCall) # 0
  BY <1>1, FS_EmptySet
<1> QED BY <1>1, <1>2 DEF IInv, CallsCounted, TypeOK

\* What an action leaves alone.
LEMMA Untouched ==
    /\ UNCHANGED shared => UNCHANGED <<inUse, active, closing, closes>>
    /\ UNCHANGED calls => UNCHANGED <<claims, probes>>
    /\ UNCHANGED queue => UNCHANGED <<pending, timer, flushes>>
    /\ UNCHANGED lookups => UNCHANGED <<caller, pending, timer, flushes, batches>>
  BY DEF shared, shutdown, calls, queue, lookups

\* Retries queue up, give up, and are gathered into batches.
LEMMA GatherInv ==
    ASSUME IInv,
           \/ \E c \in Callers : lookup(c) \/ GivesUp(c)
           \/ WindowEnds \/ flush
    PROVE  IInv'
<1>1. IsFiniteSet(batches) /\ TypeOK
  BY DEF IInv, CallsCounted
<1>2. ASSUME NEW c \in Callers, lookup(c) PROVE IInv'
  <2>1. TypeOK'
    BY <1>1, <1>2, Untouched DEF lookup, TypeOK, Phases
  <2>2. UNCHANGED <<batches, calls, shared>>
    BY <1>2 DEF lookup
  <2> QED BY <1>1, <2>1, <2>2, QuietStep DEF InCall
<1>3. ASSUME NEW c \in Callers, GivesUp(c) PROVE IInv'
  <2>1. TypeOK'
    BY <1>1, <1>3, Untouched DEF GivesUp, TypeOK, Answers
  <2>2. UNCHANGED <<batches, calls, shared>>
    BY <1>3 DEF GivesUp
  <2> QED BY <1>1, <2>1, <2>2, QuietStep DEF InCall
<1>4. CASE WindowEnds
  <2>1. TypeOK'
    BY <1>1, <1>4, Untouched DEF WindowEnds, TypeOK
  <2>2. UNCHANGED <<batches, calls, shared>>
    BY <1>4 DEF WindowEnds
  <2> QED BY <1>1, <2>1, <2>2, QuietStep DEF InCall
<1>5. CASE flush
  <2> DEFINE new == [items |-> Taken, at |-> "token"]
  <2>1. new \in [items : Seq(Callers), at : {"token", "call"}] /\ new.at # "call"
    BY <1>1, TakenAndRest
  <2>2. batches' = batches \/ batches' = batches \cup {new}
    BY <1>5 DEF flush
  <2>3. IsFiniteSet(batches')
    BY <1>1, <2>2, FS_AddElement
  <2>4. pending' \in Seq(Callers)
    BY <1>1, <1>5, TakenAndRest DEF flush
  <2>5. flushes' \in Nat /\ timer' \in {"none", "armed", "fired"}
    BY <1>1, <1>5 DEF flush, NextTimer, TypeOK
  <2>6. UNCHANGED <<caller, calls, health, api, shared>>
    BY <1>5 DEF flush
  <2>7. batches' \subseteq [items : Seq(Callers), at : {"token", "call"}]
    BY <1>1, <2>1, <2>2 DEF TypeOK
  <2>8. TypeOK'
    BY <1>1, <2>4, <2>5, <2>6, <2>7, Untouched DEF TypeOK
  <2>9. InCall' \subseteq InCall
    BY <2>1, <2>2 DEF InCall
  <2> QED BY <2>3, <2>6, <2>8, <2>9, QuietStep
<1> QED BY <1>2, <1>3, <1>4, <1>5

\* A batch is told that it finds no token, slot or open door.
LEMMA FailBatchInv ==
    ASSUME IInv, NEW b \in batches, failBatch(b, "unsure"),
           UNCHANGED <<queue, calls, health, api, shared>>
    PROVE  IInv'
<1> DEFINE answer == [i \in DOMAIN b.items |-> "unsure"]
<1>1. answer \in [DOMAIN b.items -> Answers]
  BY DEF Answers
<1>2. Told(b, answer)
  BY DEF failBatch
<1>3. TypeOK /\ IsFiniteSet(batches)
  BY DEF IInv, CallsCounted
<1> HIDE DEF answer
<1>4. caller' \in [Callers -> Phases \cup Answers] /\ batches' = batches \ {b}
  BY <1>1, <1>2, <1>3, ToldKeepsType
<1>5. TypeOK'
  BY <1>3, <1>4, Untouched DEF TypeOK
<1>6. IsFiniteSet(batches') /\ InCall' \subseteq InCall
  BY <1>3, <1>4, FS_RemoveElement DEF InCall
<1> QED BY <1>5, <1>6, QuietStep

\* A batch calls the provider.
LEMMA CallBatchInv ==
    ASSUME IInv, NEW b \in batches, CallBatch(b)
    PROVE  IInv'
<1> DEFINE new == [b EXCEPT !.at = "call"]
<1>1. TypeOK /\ IsFiniteSet(batches) /\ CallsCounted /\ ClosedLast
  BY DEF IInv, CallsCounted
<1>2. new \in [items : Seq(Callers), at : {"token", "call"}]
  BY <1>1 DEF TypeOK
<1>3. batches' = (batches \ {b}) \cup {new} /\ UNCHANGED <<caller, queue, calls, health, api>>
  BY DEF CallBatch
<1> HIDE DEF new
<1>4. IsFiniteSet(batches')
  BY <1>1, <1>3, FS_RemoveElement, FS_AddElement
<1>5. /\ inUse' = inUse + 1 /\ active' = active + 1 /\ ClosedLast'
      /\ {inUse', active', closes'} \subseteq Nat /\ closing' \in BOOLEAN
  BY <1>1, EnterCounts DEF CallBatch
<1>6. TypeOK'
  BY <1>1, <1>2, <1>3, <1>5, Untouched DEF TypeOK
<1>7. InCall' \in SUBSET (InCall \cup {new})
  BY <1>3 DEF InCall
<1>8. IsFiniteSet(InCall) /\ Cardinality(InCall) \in Nat
  BY <1>1, InCallFinite
<1>9. IsFiniteSet(InCall \cup {new}) /\ Cardinality(InCall \cup {new}) <= Cardinality(InCall) + 1
  <2>1. /\ IsFiniteSet(InCall \cup {new})
        /\ Cardinality(InCall \cup {new}) =
             IF new \in InCall THEN Cardinality(InCall) ELSE Cardinality(InCall) + 1
    BY <1>8, FS_AddElement
  <2> QED BY <1>8, <2>1
<1>10. Cardinality(InCall') <= Cardinality(InCall) + 1 /\ Cardinality(InCall') \in Nat
  BY <1>7, <1>8, <1>9, FS_Subset, FS_CardinalityType
<1>11. CallsCounted'
  BY <1>1, <1>3, <1>4, <1>5, <1>8, <1>10, Untouched DEF CallsCounted, TypeOK
<1> QED BY <1>5, <1>6, <1>11 DEF IInv

\* A batch gets its answers.
LEMMA BatchReturnsInv ==
    ASSUME IInv, NEW b \in batches, BatchReturns(b)
    PROVE  IInv'
<1>1. TypeOK /\ IsFiniteSet(batches) /\ CallsCounted /\ ClosedLast
  BY DEF IInv, CallsCounted
<1>2. LookupMany(b) \subseteq [DOMAIN b.items -> Answers]
  BY DEF LookupMany, Answers, Omitted
<1>3. caller' \in [Callers -> Phases \cup Answers] /\ batches' = batches \ {b}
  BY <1>1, <1>2, ToldKeepsType DEF BatchReturns
<1>4. b \in InCall /\ InCall' = InCall \ {b}
  BY <1>3 DEF BatchReturns, InCall
<1>5. active > 0
  BY <1>4, SomeActive
<1>6. /\ inUse' = inUse - 1 /\ active' = active - 1 /\ ClosedLast'
      /\ {inUse', active', closes'} \subseteq Nat /\ closing' \in BOOLEAN
  BY <1>1, <1>5, LeaveCounts DEF BatchReturns
<1>7. UNCHANGED <<queue, calls, health, api>>
  BY DEF BatchReturns
<1>8. TypeOK'
  BY <1>1, <1>3, <1>6, <1>7, Untouched DEF TypeOK
<1>9. IsFiniteSet(InCall) /\ Cardinality(InCall) \in Nat
  BY <1>1, InCallFinite
<1>10. Cardinality(InCall') = Cardinality(InCall) - 1 /\ IsFiniteSet(batches')
  BY <1>1, <1>3, <1>4, <1>9, FS_RemoveElement
<1>11. CallsCounted'
  BY <1>1, <1>6, <1>7, <1>9, <1>10, Untouched DEF CallsCounted, TypeOK
<1> QED BY <1>6, <1>8, <1>11 DEF IInv

\* A change of the tracker alone.
LEMMA TrackerStep ==
    ASSUME IInv, HealthOK', api' \in BOOLEAN, UNCHANGED <<lookups, calls, shared>>
    PROVE  IInv'
<1>1. TypeOK'
  BY Untouched DEF IInv, TypeOK, HealthOK
<1>2. UNCHANGED batches
  BY Untouched
<1> QED BY <1>1, <1>2, QuietStep DEF IInv, CallsCounted, InCall

\* Claims begin, are shut out and end.
LEMMA ClaimInv ==
    ASSUME IInv, Claim \/ ClaimShutOut \/ ClaimReturns
    PROVE  IInv'
<1>1. TypeOK /\ CallsCounted /\ ClosedLast /\ HealthOK
  BY DEF IInv, TypeOK, HealthOK
<1>2. CASE Claim
  <2>1. {inUse', active', closes'} \subseteq Nat /\ closing' \in BOOLEAN
    BY <1>1, <1>2, EnterCounts DEF Claim
  <2>2. claims' = claims + 1 /\ UNCHANGED <<lookups, probes, health, api>>
    BY <1>2 DEF Claim
  <2>3. TypeOK'
    BY <1>1, <2>1, <2>2, Untouched DEF TypeOK
  <2>4. {claims', probes'} \subseteq Nat /\ claims' + probes' = claims + probes + 1
    <3>1. {claims, probes} \subseteq Nat
      BY <1>1 DEF TypeOK
    <3> QED BY <2>2, <3>1
  <2> QED BY <1>2, <2>2, <2>3, <2>4, Untouched, BeginStep DEF Claim
<1>3. CASE ClaimShutOut
  <2>1. HealthOK'
    BY <1>1, <1>3, HealthKeepsType DEF ClaimShutOut
  <2>2. api' \in BOOLEAN /\ UNCHANGED <<lookups, calls, shared>>
    BY <1>1, <1>3 DEF ClaimShutOut, TypeOK
  <2> QED BY <2>1, <2>2, TrackerStep
<1>4. CASE ClaimReturns
  <2>1. active > 0
    BY <1>4, SomeActive DEF ClaimReturns
  <2>2. {inUse', active', closes'} \subseteq Nat /\ closing' \in BOOLEAN
    BY <1>1, <1>4, <2>1, LeaveCounts DEF ClaimReturns
  <2>3. HealthOK'
    BY <1>1, <1>4, HealthKeepsType DEF ClaimReturns
  <2>4. claims > 0 /\ claims' = claims - 1 /\ UNCHANGED <<lookups, probes, api>>
    BY <1>4 DEF ClaimReturns
  <2>5. TypeOK'
    BY <1>1, <2>2, <2>3, <2>4, Untouched DEF TypeOK, HealthOK
  <2>6. {claims', probes'} \subseteq Nat /\ claims' + probes' = claims + probes - 1
    BY <1>1, <2>4 DEF TypeOK
  <2> QED BY <1>4, <2>1, <2>4, <2>5, <2>6, Untouched, EndStep DEF ClaimReturns
<1> QED BY <1>2, <1>3, <1>4

\* Half-open probes begin, find no slot and end; their time comes.
LEMMA ProbeInv ==
    ASSUME IInv, nextProbeAt \/ Probe \/ ProbeFindsNoSlot \/ runHalfOpenProbe
    PROVE  IInv'
<1>1. TypeOK /\ CallsCounted /\ ClosedLast /\ HealthOK
  BY DEF IInv, TypeOK, HealthOK
<1>2. CASE nextProbeAt
  <2>1. HealthOK'
    BY <1>1, <1>2 DEF nextProbeAt, HealthOK
  <2>2. api' \in BOOLEAN /\ UNCHANGED <<lookups, calls, shared>>
    BY <1>1, <1>2 DEF nextProbeAt, TypeOK
  <2> QED BY <2>1, <2>2, TrackerStep
<1>3. CASE Probe
  <2>1. {inUse', active', closes'} \subseteq Nat /\ closing' \in BOOLEAN
    BY <1>1, <1>3, EnterCounts DEF Probe
  <2>2. HealthOK'
    BY <1>1, <1>3 DEF Probe, HealthOK
  <2>3. probes' = probes + 1 /\ UNCHANGED <<lookups, claims, api>>
    BY <1>3 DEF Probe
  <2>4. TypeOK'
    BY <1>1, <2>1, <2>2, <2>3, Untouched DEF TypeOK, HealthOK
  <2>5. {claims', probes'} \subseteq Nat /\ claims' + probes' = claims + probes + 1
    <3>1. {claims, probes} \subseteq Nat
      BY <1>1 DEF TypeOK
    <3> QED BY <2>3, <3>1
  <2> QED BY <1>3, <2>3, <2>4, <2>5, Untouched, BeginStep DEF Probe
<1>4. CASE ProbeFindsNoSlot
  <2>1. UNCHANGED <<lookups, calls, health, api, shared>>
    BY <1>4 DEF ProbeFindsNoSlot, FullUp
  <2> QED BY <1>1, <2>1, TrackerStep DEF HealthOK, TypeOK
<1>5. CASE runHalfOpenProbe
  <2>1. active > 0
    BY <1>5, SomeActive DEF runHalfOpenProbe
  <2>2. {inUse', active', closes'} \subseteq Nat /\ closing' \in BOOLEAN
    BY <1>1, <1>5, <2>1, LeaveCounts DEF runHalfOpenProbe
  <2>3. HealthOK'
    BY <1>1, <1>5, HealthKeepsType DEF runHalfOpenProbe
  <2>4. probes > 0 /\ probes' = probes - 1 /\ UNCHANGED <<lookups, claims, api>>
    BY <1>5 DEF runHalfOpenProbe
  <2>5. TypeOK'
    BY <1>1, <2>2, <2>3, <2>4, Untouched DEF TypeOK, HealthOK
  <2>6. {claims', probes'} \subseteq Nat /\ claims' + probes' = claims + probes - 1
    BY <1>1, <2>4 DEF TypeOK
  <2> QED BY <1>5, <2>1, <2>4, <2>5, <2>6, Untouched, EndStep DEF runHalfOpenProbe
<1> QED BY <1>2, <1>3, <1>4, <1>5

\* The shutdown begins.
LEMMA ShutdownInv ==
    ASSUME IInv, Shutdown
    PROVE  IInv'
<1>1. UNCHANGED <<lookups, calls, health, api, inUse, active>>
  BY DEF Shutdown
<1>2. closing' = TRUE /\ closes' \in Nat /\ ClosedLast'
  BY DEF IInv, TypeOK, ClosedLast, Shutdown
<1>3. TypeOK'
  BY <1>1, <1>2, Untouched DEF IInv, TypeOK
<1>4. CallsCounted'
  BY <1>1, Untouched DEF IInv, CallsCounted, InCall
<1> QED BY <1>2, <1>3, <1>4 DEF IInv

-----------------------------------------------------------------------------
LEMMA InitInv == Init => IInv
<1> SUFFICES ASSUME Init PROVE IInv
  OBVIOUS
<1>1. InCall = {} /\ IsFiniteSet(batches) /\ Cardinality(InCall) = 0
  BY FS_EmptySet DEF Init, InCall
<1>2. pending \in Seq(Callers) /\ Fresh.window \in Seq(BOOLEAN) /\ Len(Fresh.window) = 0
  BY DEF Init, Fresh
<1>3. health \in [window : Seq(BOOLEAN), demoted : BOOLEAN, probing : BOOLEAN,
                 due : BOOLEAN] /\ Len(health.window) <= Window
  BY <1>2, SlotsAssumption DEF Init, Fresh
<1>4. TypeOK
  <2>1. caller \in [Callers -> Phases \cup Answers]
    BY DEF Init, Phases
  <2>2. batches \subseteq [items : Seq(Callers), at : {"token", "call"}]
    BY DEF Init
  <2>3. flushes \in Nat /\ timer \in {"none", "armed", "fired"}
    BY DEF Init
  <2>4. {claims, probes, inUse, active, closes} \subseteq Nat
    BY DEF Init
  <2>5. {api, closing} \subseteq BOOLEAN
    BY Zenon DEF Init
  <2> QED BY <1>2, <1>3, <2>1, <2>2, <2>3, <2>4, <2>5 DEF TypeOK
<1> QED BY <1>1, <1>4 DEF Init, IInv, CallsCounted, ClosedLast

LEMMA NextInv ==
    ASSUME IInv, [Next]_vars
    PROVE  IInv'
<1>1. CASE UNCHANGED vars
  <2>1. UNCHANGED <<lookups, calls, health, api, shared>>
    BY <1>1 DEF vars, lookups, queue, calls, shared, shutdown
  <2> QED BY <2>1, TrackerStep DEF IInv, TypeOK, HealthOK
<1>2. ASSUME NEW b \in batches,
             \/ CallBatch(b) \/ BatchShutOut(b) \/ BatchFindsNoSlot(b)
             \/ RateLimited(b) \/ BatchReturns(b)
      PROVE  IInv'
  <2>1. CASE CallBatch(b)
    BY <2>1, CallBatchInv
  <2>2. CASE BatchReturns(b)
    BY <2>2, BatchReturnsInv
  <2>3. CASE BatchShutOut(b) \/ BatchFindsNoSlot(b) \/ RateLimited(b)
    <3>1. failBatch(b, "unsure") /\ UNCHANGED <<queue, calls, health, api, shared>>
      BY <2>3 DEF BatchShutOut, BatchFindsNoSlot, RateLimited, FullUp
    <3> QED BY <3>1, FailBatchInv
  <2> QED BY <1>2, <2>1, <2>2, <2>3
<1>3. CASE Provider
  <2>1. api' \in BOOLEAN /\ UNCHANGED <<lookups, calls, health, shared>>
    BY <1>3 DEF Provider
  <2> QED BY <2>1, TrackerStep DEF IInv, TypeOK, HealthOK
<1> QED BY <1>1, <1>2, <1>3, GatherInv, ClaimInv, ProbeInv, ShutdownInv DEF Next, Batch

LEMMA AlwaysIInv == Spec => []IInv
  BY InitInv, NextInv, PTL DEF Spec

\* slots.go, binder.go: queue, batches, calls, health window and counters keep their
\* types; no counter of slots or attempts drops below zero.
THEOREM TypeCorrect == Spec => []TypeOK
  BY AlwaysIInv, PTL DEF IInv

\* binder.go:457-475: once shutdownDone is closed, which happens once, no claim, no
\* probe and no batch is at the provider, for every number of slots and callers.
THEOREM ShutdownWaitsAlways == Spec => []ShutdownWaits
<1>1. IInv => ShutdownWaits
  <2> SUFFICES ASSUME IInv, closes > 0 PROVE ShutdownWaits
    BY DEF ShutdownWaits
  <2>1. closes = 1 /\ ~(active > 0)
    BY DEF IInv, ClosedLast, TypeOK
  <2>2. ~(claims > 0) /\ ~(probes > 0) /\ InCall = {}
    BY <2>1, SomeActive
  <2>3. claims = 0 /\ probes = 0
    BY <2>2 DEF IInv, TypeOK
  <2> QED BY <2>1, <2>2, <2>3 DEF ShutdownWaits, InCall
<1> QED BY <1>1, AlwaysIInv, PTL

-----------------------------------------------------------------------------
(* One answer for each caller.                                             *)

In(c, s) == \E i \in DOMAIN s : s[i] = c

\* A caller stands in one place at most: once in the queue, or in one batch.
OnePlace ==
    /\ \A i, j \in DOMAIN pending : pending[i] = pending[j] => i = j
    /\ \A c \in Callers, b \in batches :
          In(c, b.items) => ~In(c, pending) /\ \A d \in batches : In(c, d.items) => d = b

Placed(c) == In(c, pending) \/ \E b \in batches : In(c, b.items)

\* Who waits stands somewhere, who has not asked or has the provider's word nowhere.
AnswerOK(c) ==
    /\ caller[c] = "waiting" => Placed(c)
    /\ caller[c] \in {"new", "found", "notfound"} => ~Placed(c)
    /\ caller[c] = "found" => c \in Held
    /\ caller[c] = "notfound" => c \notin Held

Lined == OnePlace /\ \A c \in Callers : AnswerOK(c)

\* What flush takes and what it leaves are the queue, and nobody is in both.
LEMMA FlushSplits ==
    ASSUME TypeOK, OnePlace
    PROVE  /\ \A c \in Callers : In(c, pending) <=> In(c, Taken) \/ In(c, Rest)
           /\ \A c \in Callers : ~(In(c, Taken) /\ In(c, Rest))
           /\ \A i, j \in DOMAIN Rest : Rest[i] = Rest[j] => i = j
<1> DEFINE n == Min({MaxBatch, Len(pending)})
<1>1. MaxBatch \in Nat /\ Len(pending) \in Nat /\ pending \in Seq(Callers)
  BY SlotsAssumption DEF TypeOK
<1>2. n \in Nat /\ n <= Len(pending)
  <2>1. \E x \in {MaxBatch, Len(pending)} :
          \A y \in {MaxBatch, Len(pending)} : x <= y
    BY <1>1
  <2>2. n \in {MaxBatch, Len(pending)} /\ n <= Len(pending)
    BY <2>1 DEF Min
  <2> QED BY <1>1, <2>2
<1> HIDE DEF n
<1> DEFINE L == Len(pending)
<1>3. \A i \in 1..n : pending[i] \in Callers
  BY <1>1, <1>2
<1>4. Taken = SubSeq(pending, 1, n)
  BY DEF Taken, n
<1>5. DOMAIN Taken = 1..n /\ Len(Taken) = n /\ \A i \in 1..n : Taken[i] = pending[i]
  BY <1>1, <1>2, <1>3, <1>4, SubSeqProperties
<1>6. Rest = SubSeq(pending, n + 1, L)
  BY <1>5 DEF Rest
<1>7. \A i \in (n + 1)..L : pending[i] \in Callers
  BY <1>1, <1>2
<1>8. /\ DOMAIN Rest = 1..(L - n)
      /\ \A i \in 1..(L - n) : Rest[i] = pending[n + i]
  BY <1>1, <1>2, <1>6, <1>7, SubSeqProperties
<1>9. DOMAIN pending = 1..L /\ L \in Nat
  BY <1>1
<1>10. \A i \in 1..L : i \in 1..n \/ (i - n \in 1..(L - n) /\ n + (i - n) = i)
  BY <1>2, <1>9
<1>11. \A i \in 1..(L - n) : n + i \in 1..L /\ n + i \notin 1..n
  BY <1>2, <1>9
<1>12. \A i \in 1..n : i \in 1..L
  BY <1>2, <1>9
<1> HIDE DEF L
<1>13. \A i, j \in 1..L : pending[i] = pending[j] => i = j
  BY <1>9 DEF OnePlace
<1>14. ASSUME NEW c \in Callers
       PROVE  /\ In(c, pending) <=> In(c, Taken) \/ In(c, Rest)
              /\ ~(In(c, Taken) /\ In(c, Rest))
  <2>1. In(c, pending) <=> \E i \in 1..L : pending[i] = c
    BY <1>9 DEF In
  <2>2. In(c, Taken) <=> \E i \in 1..n : pending[i] = c
    BY <1>5 DEF In
  <2>3. In(c, Rest) <=> \E i \in 1..(L - n) : pending[n + i] = c
    BY <1>8 DEF In
  <2> QED BY <2>1, <2>2, <2>3, <1>10, <1>11, <1>12, <1>13
<1>15. ASSUME NEW i \in DOMAIN Rest, NEW j \in DOMAIN Rest, Rest[i] = Rest[j]
       PROVE  i = j
  <2>1. pending[n + i] = pending[n + j] /\ n + i \in 1..L /\ n + j \in 1..L
    BY <1>8, <1>11, <1>15
  <2>2. n + i = n + j
    BY <1>13, <2>1
  <2> QED BY <1>2, <1>8, <2>2, <1>9
<1> QED BY <1>14, <1>15

\* A caller joins the end of the queue.
LEMMA LookupLined ==
    ASSUME TypeOK, Lined, NEW c \in Callers, lookup(c)
    PROVE  Lined'
<1>1. /\ caller[c] = "new" /\ caller' = [caller EXCEPT ![c] = "waiting"]
      /\ pending' = Append(pending, c) /\ batches' = batches
  BY DEF lookup
<1>2. caller \in [Callers -> Phases \cup Answers] /\ pending \in Seq(Callers)
  BY DEF TypeOK
<1>3. /\ DOMAIN pending = 1..Len(pending) /\ Len(pending) \in Nat
      /\ DOMAIN pending' = 1..(Len(pending) + 1)
      /\ \A i \in 1..Len(pending) : pending'[i] = pending[i]
      /\ pending'[Len(pending) + 1] = c
  BY <1>1, <1>2
<1>4. \A d \in Callers : In(d, pending') <=> In(d, pending) \/ d = c
  BY <1>3 DEF In
<1>5. ~Placed(c)
  BY <1>1 DEF Lined, AnswerOK
<1>6. OnePlace
  BY DEF Lined
<1>7. \A i, j \in DOMAIN pending' : pending'[i] = pending'[j] => i = j
  <2>1. \A i \in 1..Len(pending) : pending[i] # c
    BY <1>3, <1>5 DEF Placed, In
  <2> QED BY <1>3, <1>6, <2>1 DEF OnePlace
<1>8. OnePlace'
  BY <1>1, <1>4, <1>5, <1>6, <1>7 DEF OnePlace, Placed
<1>9. \A d \in Callers : Placed(d)' <=> Placed(d) \/ d = c
  BY <1>1, <1>4 DEF Placed
<1>10. ASSUME NEW d \in Callers PROVE AnswerOK(d)'
  <2>1. CASE d = c
    BY <1>1, <1>2, <1>9, <2>1 DEF AnswerOK
  <2>2. CASE d # c
    BY <1>1, <1>2, <1>9, <2>2 DEF AnswerOK, Lined
  <2> QED BY <2>1, <2>2
<1> QED BY <1>8, <1>10 DEF Lined

\* A caller that gives up may stand where it stood.
LEMMA GivesUpLined ==
    ASSUME TypeOK, Lined, NEW c \in Callers, GivesUp(c)
    PROVE  Lined'
<1>1. caller' = [caller EXCEPT ![c] = "unsure"] /\ UNCHANGED <<pending, batches>>
  BY Untouched DEF GivesUp
<1>2. caller \in [Callers -> Phases \cup Answers]
  BY DEF TypeOK
<1>3. OnePlace' /\ \A d \in Callers : Placed(d)' <=> Placed(d)
  BY <1>1 DEF Lined, OnePlace, Placed
<1>4. ASSUME NEW d \in Callers PROVE AnswerOK(d)'
  BY <1>1, <1>2, <1>3 DEF AnswerOK, Lined
<1> QED BY <1>3, <1>4 DEF Lined

\* flush moves the front of the queue to a batch of its own.
LEMMA FlushLined ==
    ASSUME TypeOK, Lined, flush
    PROVE  Lined'
<1> DEFINE new == [items |-> Taken, at |-> "token"]
<1>1. /\ pending' = Rest /\ UNCHANGED caller
      /\ \/ Taken = <<>> /\ batches' = batches
         \/ Taken # <<>> /\ batches' = batches \cup {new}
  BY DEF flush
<1>2. OnePlace /\ \A c \in Callers : AnswerOK(c)
  BY DEF Lined
<1>3. /\ \A c \in Callers : In(c, pending) <=> In(c, Taken) \/ In(c, Rest)
      /\ \A c \in Callers : ~(In(c, Taken) /\ In(c, Rest))
      /\ \A i, j \in DOMAIN Rest : Rest[i] = Rest[j] => i = j
  BY <1>2, FlushSplits
<1>4. \A c \in Callers : Taken = <<>> => ~In(c, Taken)
  BY DEF In
<1>5. new.items = Taken
  OBVIOUS
<1> HIDE DEF new
<1>6. ASSUME NEW c \in Callers, NEW b \in batches', In(c, b.items)
      PROVE  ~In(c, pending') /\ \A d \in batches' : In(c, d.items) => d = b
  <2>1. CASE b \in batches /\ b # new
    <3>1. ~In(c, pending) /\ \A d \in batches : In(c, d.items) => d = b
      BY <1>2, <1>6, <2>1 DEF OnePlace
    <3> QED BY <1>1, <1>3, <1>5, <3>1
  <2>2. CASE b = new /\ Taken # <<>>
    <3>1. In(c, Taken)
      BY <1>5, <1>6, <2>2
    <3>2. In(c, pending) /\ ~In(c, Rest)
      BY <1>3, <3>1
    <3>3. \A d \in batches : ~In(c, d.items)
      BY <1>2, <3>2 DEF OnePlace
    <3> QED BY <1>1, <2>2, <3>2, <3>3
  <2>3. CASE b = new /\ Taken = <<>>
    BY <1>4, <1>5, <1>6, <2>3
  <2> QED BY <1>1, <2>1, <2>2, <2>3
<1>7. OnePlace'
  BY <1>1, <1>3, <1>6 DEF OnePlace
<1>8. ASSUME NEW c \in Callers PROVE Placed(c)' <=> Placed(c)
  BY <1>1, <1>3, <1>4, <1>5 DEF Placed
<1> QED BY <1>1, <1>2, <1>7, <1>8 DEF Lined, AnswerOK

\* A batch gets its token and slot: it is the same batch, at its call.
LEMMA CallBatchLined ==
    ASSUME TypeOK, Lined, NEW b \in batches, CallBatch(b)
    PROVE  Lined'
<1> DEFINE new == [b EXCEPT !.at = "call"]
<1>1. batches' = (batches \ {b}) \cup {new} /\ UNCHANGED <<caller, pending>>
  BY Untouched DEF CallBatch
<1>2. new.items = b.items
  BY DEF TypeOK
<1> HIDE DEF new
<1>3. OnePlace'
  <2> SUFFICES ASSUME NEW c \in Callers, NEW e \in batches', In(c, e.items)
               PROVE  ~In(c, pending) /\ \A d \in batches' : In(c, d.items) => d = e
    BY <1>1 DEF OnePlace, Lined
  <2>1. CASE e = new
    BY <1>1, <1>2, <2>1 DEF OnePlace, Lined
  <2>2. CASE e # new
    BY <1>1, <1>2, <2>2 DEF OnePlace, Lined
  <2> QED BY <2>1, <2>2
<1>4. ASSUME NEW c \in Callers PROVE Placed(c)' <=> Placed(c)
  BY <1>1, <1>2 DEF Placed
<1> QED BY <1>1, <1>3, <1>4 DEF Lined, AnswerOK

\* Answers to the items of b that are true of the provider.
True(b, answer) ==
    \A i \in DOMAIN b.items : /\ answer[i] \in Answers
                              /\ answer[i] = "found" => b.items[i] \in Held
                              /\ answer[i] = "notfound" => b.items[i] \notin Held

\* A batch that is told is gone, and its callers stand nowhere else.
LEMMA ToldLined ==
    ASSUME TypeOK, Lined, NEW b \in batches, NEW answer, Told(b, answer), True(b, answer),
           UNCHANGED pending
    PROVE  Lined'
<1>1. batches' = batches \ {b}
  BY DEF Told
<1>2. OnePlace /\ OnePlace'
  BY <1>1 DEF Lined, OnePlace
<1>3. \A c \in Callers : Placed(c)' => Placed(c)
  BY <1>1 DEF Placed
<1>4. \A c \in Callers : In(c, b.items) => ~Placed(c)'
  BY <1>1, <1>2 DEF OnePlace, Placed
<1>5. \A c \in Callers : ~In(c, b.items) /\ Placed(c) => Placed(c)'
  BY <1>1 DEF Placed
<1>6. ASSUME NEW c \in Callers PROVE AnswerOK(c)'
  <2>1. CASE caller[c] = "waiting" /\ In(c, b.items)
    <3>1. PICK i \in DOMAIN b.items : b.items[i] = c /\ caller'[c] = answer[i]
      BY <2>1 DEF Told, In
    <3>2. /\ caller'[c] \in Answers
          /\ caller'[c] = "found" => c \in Held
          /\ caller'[c] = "notfound" => c \notin Held
      BY <3>1 DEF True
    <3>3. ~Placed(c)'
      BY <1>4, <2>1
    <3> QED BY <3>2, <3>3 DEF AnswerOK, Answers
  <2>2. CASE ~(caller[c] = "waiting" /\ In(c, b.items))
    <3>1. caller'[c] = caller[c]
      BY <2>2 DEF Told, In
    <3> QED BY <1>3, <1>5, <2>2, <3>1 DEF AnswerOK, Lined
  <2> QED BY <2>1, <2>2
<1> QED BY <1>2, <1>6 DEF Lined

\* A batch that fails says nothing, one that returns what the provider says.
LEMMA BatchLined ==
    ASSUME TypeOK, Lined, NEW b \in batches,
           RateLimited(b) \/ BatchShutOut(b) \/ BatchFindsNoSlot(b) \/ BatchReturns(b)
    PROVE  Lined'
<1>1. UNCHANGED pending
  BY Untouched DEF RateLimited, BatchShutOut, BatchFindsNoSlot, BatchReturns
<1>2. CASE RateLimited(b) \/ BatchShutOut(b) \/ BatchFindsNoSlot(b)
  <2> DEFINE answer == [i \in DOMAIN b.items |-> "unsure"]
  <2>1. Told(b, answer)
    BY <1>2 DEF RateLimited, BatchShutOut, BatchFindsNoSlot, failBatch
  <2>2. True(b, answer)
    BY DEF True, Answers
  <2> QED BY <1>1, <2>1, <2>2, ToldLined
<1>3. CASE BatchReturns(b)
  <2>1. PICK answer \in LookupMany(b) : Told(b, answer)
    BY <1>3 DEF BatchReturns
  <2>2. True(b, answer)
    <3>1. PICK n \in 0..Len(b.items), lost \in SUBSET DOMAIN b.items :
            answer = [i \in DOMAIN b.items |->
                        IF i > n THEN Omitted
                        ELSE IF i \in lost THEN "unsure"
                        ELSE IF b.items[i] \in Held THEN "found" ELSE "notfound"]
      BY DEF LookupMany
    <3> QED BY <3>1, Zenon DEF True, Answers, Omitted
  <2> QED BY <1>1, <2>1, <2>2, ToldLined
<1> QED BY <1>2, <1>3

LEMMA InitLined == Init => Lined
  BY DEF Init, Lined, OnePlace, AnswerOK, Placed, In

LEMMA NextLined ==
    ASSUME TypeOK, Lined, [Next]_vars
    PROVE  Lined'
<1>1. CASE UNCHANGED <<caller, pending, batches>>
  BY <1>1 DEF Lined, OnePlace, AnswerOK, Placed
<1>2. CASE \E c \in Callers : lookup(c) \/ GivesUp(c)
  BY <1>2, LookupLined, GivesUpLined
<1>3. CASE flush
  BY <1>3, FlushLined
<1>4. CASE Batch \/ \E b \in batches : RateLimited(b) \/ BatchReturns(b)
  BY <1>4, CallBatchLined, BatchLined DEF Batch
<1>5. \/ WindowEnds \/ Claim \/ ClaimShutOut \/ ClaimReturns
      \/ nextProbeAt \/ Probe \/ ProbeFindsNoSlot \/ runHalfOpenProbe
      \/ Provider \/ Shutdown \/ UNCHANGED vars
      => UNCHANGED <<caller, pending, batches>>
  BY Untouched DEF WindowEnds, Claim, ClaimShutOut, ClaimReturns, nextProbeAt, Probe,
       ProbeFindsNoSlot, runHalfOpenProbe, Provider, Shutdown, vars
<1> QED BY <1>1, <1>2, <1>3, <1>4, <1>5 DEF Next

\* slots.go:160-224, 280-287: every lookup gets one answer, a true one, whatever the
\* timers do, for every number of callers and every batch size.
THEOREM OneAnswerAlways == Spec => []OneAnswer
<1>1. TypeOK /\ Lined => OneAnswer
  <2> SUFFICES ASSUME TypeOK, Lined, NEW c \in Callers
               PROVE  LET places == Cardinality({i \in DOMAIN pending : pending[i] = c}) +
                            Cardinality({b \in batches :
                                           \E i \in DOMAIN b.items : b.items[i] = c})
                      IN  /\ places <= 1
                          /\ caller[c] = "waiting" => places = 1
                          /\ caller[c] \in {"new", "found", "notfound"} => places = 0
                          /\ caller[c] = "found" => c \in Held
                          /\ caller[c] = "notfound" => c \notin Held
    BY DEF OneAnswer
  <2> DEFINE Q == {i \in DOMAIN pending : pending[i] = c}
             B == {b \in batches : \E i \in DOMAIN b.items : b.items[i] = c}
  <2>1. OnePlace /\ AnswerOK(c)
    BY DEF Lined
  <2>2. In(c, pending) => \E i : Q = {i}
    BY <2>1 DEF In, OnePlace
  <2>3. ~In(c, pending) => Q = {}
    BY DEF In
  <2>4. \A b \in batches : In(c, b.items) => B = {b} /\ ~In(c, pending)
    BY <2>1 DEF In, OnePlace
  <2>5. (\A b \in batches : ~In(c, b.items)) => B = {}
    BY DEF In
  <2> HIDE DEF Q, B
  <2>6. Cardinality(Q) + Cardinality(B) = IF Placed(c) THEN 1 ELSE 0
    <3>1. \A S : (\E x : S = {x}) => Cardinality(S) = 1
      BY FS_Singleton
    <3>2. \A S : S = {} => Cardinality(S) = 0
      BY FS_EmptySet
    <3>3. CASE In(c, pending)
      <4>1. B = {} /\ Placed(c)
        BY <2>4, <2>5, <3>3 DEF Placed
      <4>2. Cardinality(Q) = 1 /\ Cardinality(B) = 0
        BY <2>2, <3>1, <3>2, <3>3, <4>1
      <4> QED BY <4>1, <4>2
    <3>4. CASE ~In(c, pending)
      <4>1. Cardinality(Q) = 0
        BY <2>3, <3>2, <3>4
      <4>2. CASE \E b \in batches : In(c, b.items)
        <5>1. Cardinality(B) = 1 /\ Placed(c)
          BY <2>4, <3>1, <4>2 DEF Placed
        <5> QED BY <4>1, <5>1
      <4>3. CASE \A b \in batches : ~In(c, b.items)
        <5>1. Cardinality(B) = 0 /\ ~Placed(c)
          BY <2>5, <3>2, <3>4, <4>3 DEF Placed
        <5> QED BY <4>1, <5>1
      <4> QED BY <4>2, <4>3
    <3> QED BY <3>3, <3>4
  <2> QED BY <2>1, <2>6 DEF AnswerOK, Q, B
<1>2. TypeOK /\ Lined /\ [Next]_vars => Lined'
  BY NextLined
<1> QED BY <1>1, <1>2, InitLined, TypeCorrect, PTL DEF Spec

-----------------------------------------------------------------------------
(* Before the call: the placement of a request.                            *)

AllPolicies == Policies \cup {DefaultPolicy}

\* What the assumption says, one by one.
LEMMA ScheduleConstants ==
    /\ Providers \subseteq Nat /\ IsFiniteSet(Providers) /\ IsFiniteSet(Requests)
    /\ MaxWarm \in Nat /\ MaxPolls \in Nat
    /\ \A f \in Fleets, p \in Providers :
          f[p].cost \in Int /\ f[p].elasticScore \in Int
    /\ \A o \in AllPolicies : \A s \in DOMAIN o.weights : o.weights[s] \in Int
  BY ScheduleAssumption DEF AllPolicies

-----------------------------------------------------------------------------
(* The best of the providers.                                              *)

\* A finite set with a transitive relation has an element that none exceeds: of
\* those the one that fewest exceed.
LEMMA Unexceeded ==
    ASSUME NEW T, IsFiniteSet(T), T # {}, NEW G,
           \A x, y, z \in T : <<x, y>> \in G /\ <<y, z>> \in G => <<x, z>> \in G,
           \A x \in T : <<x, x>> \notin G
    PROVE  \E b \in T : \A x \in T : <<x, b>> \notin G
<1> DEFINE Above(b) == {x \in T : <<x, b>> \in G}
           Count == {Cardinality(Above(b)) : b \in T}
<1>1. \A b \in T : IsFiniteSet(Above(b)) /\ Cardinality(Above(b)) \in Nat
  <2> TAKE b \in T
  <2>1. Above(b) \in SUBSET T
    OBVIOUS
  <2> HIDE DEF Above
  <2> QED BY <2>1, FS_Subset, FS_CardinalityType
<1>2. Count \subseteq Nat /\ Count # {}
  <2>1. PICK b \in T : TRUE
    OBVIOUS
  <2>2. Cardinality(Above(b)) \in Count
    OBVIOUS
  <2> HIDE DEF Above
  <2> QED BY <1>1, <2>2
<1>3. PICK m \in Count : \A k \in Count : <<k, m>> \notin OpToRel(<, Nat)
  <2> HIDE DEF Count
  <2> QED BY <1>2, WFMin, NatLessThanWellFounded, Zenon
<1>4. PICK b \in T : m = Cardinality(Above(b))
  OBVIOUS
<1>5. ASSUME NEW x \in T, <<x, b>> \in G PROVE FALSE
  <2>1. Above(x) \in SUBSET Above(b)
    BY <1>5
  <2>2. x \in Above(b) /\ x \notin Above(x)
    BY <1>5
  <2>3. Cardinality(Above(x)) <= Cardinality(Above(b)) /\
        Cardinality(Above(x)) # Cardinality(Above(b))
    <3> HIDE DEF Above
    <3> QED BY <1>1, <2>1, <2>2, FS_Subset
  <2>4. Cardinality(Above(x)) < m
    BY <1>1, <1>4, <2>3
  <2>5. Cardinality(Above(x)) \in Count
    OBVIOUS
  <2>6. <<Cardinality(Above(x)), m>> \in OpToRel(<, Nat)
    BY <1>1, <1>2, <2>4 DEF OpToRel
  <2> QED BY <1>3, <2>5, <2>6
<1> QED BY <1>5

\* The greatest cost is a number, and not negative.
LEMMA MaxCostIs ==
    ASSUME fleet \in Fleets
    PROVE  MaxCost \in Int /\ MaxCost >= 0
<1> DEFINE cost == [p \in Providers |-> fleet[p].cost]
           C    == {fleet[p].cost : p \in Providers}
           T    == {0} \cup C
           G    == {xy \in T \X T : xy[1] > xy[2]}
<1>1. IsFiniteSet(Providers) /\ \A p \in Providers : fleet[p].cost \in Int
  BY ScheduleConstants
<1>2. IsFiniteSet(C)
  <2>1. cost \in Surjection(Providers, C)
    BY DEF Surjection
  <2> HIDE DEF cost, C
  <2> QED BY <1>1, <2>1, FS_Surjection
<1>3. IsFiniteSet(T) /\ T # {}
  <2> HIDE DEF C
  <2>1. IsFiniteSet({0})
    BY FS_Singleton
  <2> QED BY <1>2, <2>1, FS_Union
<1>4. T \subseteq Int /\ 0 \in T
  BY <1>1
<1>5. PICK b \in T : \A x \in T : <<x, b>> \notin G
  <2> HIDE DEF T
  <2>1. \A x, y, z \in T : <<x, y>> \in G /\ <<y, z>> \in G => <<x, z>> \in G
    BY <1>4
  <2>2. \A x \in T : <<x, x>> \notin G
    BY <1>4
  <2> HIDE DEF G
  <2> QED BY <1>3, <2>1, <2>2, Unexceeded
<1>6. \A x \in T : b >= x
  <2> HIDE DEF T
  <2>1. \A x \in T : ~(x > b)
    BY <1>5
  <2> QED BY <1>4, <2>1
<1>7. MaxCost = CHOOSE x \in T : \A y \in T : x >= y
  BY DEF MaxCost, Max
<1>8. MaxCost \in T /\ \A y \in T : MaxCost >= y
  <2> HIDE DEF T
  <2> QED BY <1>5, <1>6, <1>7, Zenon
<1> HIDE DEF T
<1> QED BY <1>4, <1>8

\* Scores and totals are numbers.
LEMMA TotalsAreNumbers ==
    ASSUME fleet \in Fleets, NEW q, q.policy \in AllPolicies,
           NEW p \in Providers, NEW w \in Nat
    PROVE  Total(q, p, w) \in Int
<1>1. WarmCapacity(p, w) \in Int
  <2>1. (w * 100) \div 5 \in Int
    OBVIOUS
  <2>2. fleet[p].elasticScore \in Int
    BY ScheduleConstants
  <2> QED BY <2>1, <2>2 DEF WarmCapacity, Least, MaxScore, Saturation, ElasticScore
<1>2. Cost(p) \in Int
  <2>1. MaxCost \in Int /\ MaxCost >= 0 /\ fleet[p].cost \in Int
    BY MaxCostIs, ScheduleConstants
  <2>2. CASE MaxCost > 0
    <3>1. (MaxCost - fleet[p].cost) * 100 \in Int
      BY <2>1
    <3>2. ((MaxCost - fleet[p].cost) * 100) \div MaxCost \in Int
      BY <2>1, <2>2, <3>1
    <3> QED BY <3>2 DEF Cost, MaxScore
  <2>3. CASE MaxCost = 0
    BY <2>3 DEF Cost, MaxScore
  <2> QED BY <2>1, <2>2, <2>3
<1>3. \A s : s \in DOMAIN q.policy.weights => Weight(q, s) \in Int
  BY ScheduleConstants DEF Weight
<1>4. \A s \in {"WarmCapacity", "Cost", "Reachability", "Affinity"} :
         Score(s, q, p, w) \in Int
  BY <1>1, <1>2 DEF Score, MaxScore
<1>5. \A s \in {"WarmCapacity", "Cost", "Reachability", "Affinity"} :
         Term(s, q, p, w) \in Int
  BY <1>3, <1>4 DEF Term
<1> QED BY <1>5 DEF Total

\* Nothing that a request could use scores more than p.
Unbeaten(q, p) == p \in Feasible(q) /\ \A o \in Feasible(q) : Points(q, o) <= Points(q, p)

\* A request whose copy of the snapshot is one of numbers.
Scorable(q) == q.policy \in AllPolicies /\ q.warm \in [Providers -> Nat]

LEMMA PointsAreNumbers ==
    ASSUME fleet \in Fleets, NEW q, Scorable(q), NEW p \in Providers
    PROVE  Points(q, p) \in Int
<1>1. q.policy \in AllPolicies /\ q.warm[p] \in Nat
  BY DEF Scorable
<1> QED BY <1>1, TotalsAreNumbers DEF Points

\* One provider beats all others.
LEMMA BestIsUnbeaten ==
    ASSUME fleet \in Fleets, NEW q, Scorable(q), Feasible(q) # {}
    PROVE  Unbeaten(q, BestOf(q))
<1> DEFINE T == Feasible(q)
           G == {xy \in T \X T : xy[1] # xy[2] /\ Beats(q, xy[1], xy[2])}
<1>1. T \subseteq Providers
  BY DEF Feasible
<1>2. T \subseteq Nat /\ IsFiniteSet(T)
  <2>1. T \in SUBSET Providers
    BY <1>1
  <2> HIDE DEF T
  <2> QED BY <2>1, ScheduleConstants, FS_Subset
<1>3. \A x \in T : Points(q, x) \in Int
  BY <1>1, PointsAreNumbers
<1> HIDE DEF T
<1>4. \A x, y \in T : <<x, y>> \in G <=> x # y /\ Beats(q, x, y)
  OBVIOUS
<1> HIDE DEF G
<1>5. \A x, y, z \in T : <<x, y>> \in G /\ <<y, z>> \in G => <<x, z>> \in G
  BY <1>2, <1>3, <1>4 DEF Beats
<1>6. \A x \in T : <<x, x>> \notin G
  BY <1>4
<1>7. T # {}
  BY DEF T
<1>8. PICK b \in T : \A x \in T : <<x, b>> \notin G
  BY <1>2, <1>5, <1>6, <1>7, Unexceeded
<1>9. \A p \in T \ {b} : Beats(q, b, p)
  <2> TAKE p \in T \ {b}
  <2>1. ~Beats(q, p, b)
    BY <1>4, <1>8
  <2>2. p \in Nat /\ b \in Nat /\ Points(q, p) \in Int /\ Points(q, b) \in Int
    BY <1>2, <1>3
  <2> QED BY <2>1, <2>2 DEF Beats
<1>10. BestOf(q) = CHOOSE c \in T : \A p \in T \ {c} : Beats(q, c, p)
  BY DEF BestOf, T
<1>11. BestOf(q) \in T /\ \A p \in T \ {BestOf(q)} : Beats(q, BestOf(q), p)
  BY <1>9, <1>10, Zenon
<1>12. \A p \in T : Points(q, p) <= Points(q, BestOf(q))
  BY <1>3, <1>11 DEF Beats
<1> QED BY <1>11, <1>12 DEF T, Unbeaten

\* Those that tie with the best are unbeaten too.
LEMMA TiedAreUnbeaten ==
    ASSUME fleet \in Fleets, NEW q, Scorable(q), Feasible(q) # {},
           NEW p \in Tied(q)
    PROVE  Unbeaten(q, p)
  BY BestIsUnbeaten DEF Tied, Unbeaten

\* Both indices that are drawn lie in the list.
LEMMA SampledAreTied ==
    ASSUME NEW q, NEW ab \in Samples(q)
    PROVE  ab[1] \in Tied(q) /\ ab[2] \in Tied(q)
<1> DEFINE n == Cardinality(Tied(q))
<1>1. IsFiniteSet(Tied(q))
  <2>1. Tied(q) \in SUBSET Providers
    BY DEF Tied, Feasible
  <2> QED BY <2>1, ScheduleConstants, FS_Subset
<1>2. n \in Nat /\ Cardinality(Tied(q)) = n
  BY <1>1, FS_CardinalityType
<1> HIDE DEF n
<1>3. PICK list \in InOrder(Tied(q)), ij \in IF n = 2 THEN {<<1, 2>>} ELSE Pairs(n) :
         ab = <<list[ij[1]], list[ij[2]]>>
  BY <1>2 DEF Samples
<1>4. list \in [1..n -> Tied(q)]
  BY <1>2 DEF InOrder
<1>5. ij[1] \in 1..n /\ ij[2] \in 1..n
  BY <1>2 DEF Pairs
<1> QED BY <1>3, <1>4, <1>5

\* Whatever is picked is unbeaten.
LEMMA PickIsUnbeaten ==
    ASSUME fleet \in Fleets, NEW q, Scorable(q), Feasible(q) # {},
           NEW p \in Pick(q)
    PROVE  Unbeaten(q, p)
<1>1. CASE p = BestOf(q)
  BY <1>1, BestIsUnbeaten
<1>2. ASSUME NEW ab \in Samples(q), p \in Lighter(q, ab[1], ab[2]) PROVE Unbeaten(q, p)
  <2>1. p \in Tied(q)
    BY <1>2, SampledAreTied DEF Lighter
  <2> QED BY <2>1, TiedAreUnbeaten
<1>3. p = BestOf(q) \/ \E ab \in Samples(q) : p \in Lighter(q, ab[1], ab[2])
  BY DEF Pick
<1> QED BY <1>1, <1>2, <1>3

-----------------------------------------------------------------------------
(* The invariant.                                                          *)
(*                                                                         *)
(* A request's copy of the snapshot is the snapshot without the providers  *)
(* it found empty, one for each race it lost, and each was warm.  Where it *)
(* is about to reserve, or has reserved, nothing it could use is better.   *)

Where == {"read", "govern", "decide", "take", "done"}

Request == [at : Where, ask : Asks, policy : AllPolicies, left : SUBSET Providers,
            warm : [Providers -> 0..MaxWarm], cold : [Providers -> Nat],
            first : [Providers -> 0..MaxWarm], empty : SUBSET Providers, tries : Nat,
            on : Nat, answer : {"pending", "warm", "cold", "none", "invalid"}]

\* The providers that were warm in the snapshot.
WarmAtFirst(q) == {p \in Providers : q.first[p] > 0}

RacesLost(q) ==
    /\ q.tries = Cardinality(q.empty)
    /\ q.empty \subseteq WarmAtFirst(q)
    /\ \A p \in Providers : q.warm[p] = IF p \in q.empty THEN 0 ELSE q.first[p]
    /\ q.at \in {"read", "govern"} => q.empty = {}

\* The request has a provider.
HasChosen(q) == q.at = "take" \/ q.answer \in {"warm", "cold"}

InPlace(q) ==
    /\ q.answer # "pending" => q.at = "done"
    /\ q.at = "decide" \/ HasChosen(q) => Valid(q.policy)
    /\ q.answer = "cold" => q.warm[q.on] = 0

Chosen(q) ==
    /\ HasChosen(q) => Unbeaten(q, q.on)
    /\ q.answer = "none" => Feasible(q) = {}

RequestOK(q) == q \in Request /\ RacesLost(q) /\ InPlace(q)

Answered == {r \in Requests : req[r].at = "done"}

Counted ==
    /\ fleet \in Fleets
    /\ pool \in [Providers -> 0..MaxWarm]
    /\ polls \in 0..MaxPolls
    /\ cold \in [Providers -> Nat]
    /\ \A p \in Providers : cold[p] <= Cardinality(Answered)
    /\ req \in [Requests -> Request]

ScheduleInv == Counted /\ \A r \in Requests : RequestOK(req[r]) /\ Chosen(req[r])

\* What a request could use, and what it is worth, depends on its ask, its policy and
\* its copy of the snapshot, and on nothing that changes.
LEMMA SameNeeds ==
    ASSUME NEW q, NEW z, z.ask = q.ask, z.policy = q.policy, z.warm = q.warm
    PROVE  /\ Feasible(z) = Feasible(q)
           /\ \A p, w : Total(z, p, w) = Total(q, p, w)
<1>1. \A f, p : Passes(f, z, p) = Passes(f, q, p)
  BY DEF Passes, Required
<1>2. FiltersOf(z) = FiltersOf(q)
  BY DEF FiltersOf, FiltersOfPolicy
<1>3. Feasible(z) = Feasible(q)
  BY <1>1, <1>2 DEF Feasible
<1>4. \A s, p, w : Term(s, z, p, w) = Term(s, q, p, w)
  BY DEF Term, Weight, Score
<1> QED BY <1>3, <1>4 DEF Total

LEMMA SamePoints ==
    ASSUME NEW q, NEW z, z.ask = q.ask, z.policy = q.policy, z.warm = q.warm
    PROVE  Feasible(z) = Feasible(q) /\ \A p : Points(z, p) = Points(q, p)
  BY SameNeeds DEF Points

\* And the fleet does not change.
LEMMA FleetStays ==
    ASSUME UNCHANGED fleet
    PROVE  /\ \A q : Feasible(q)' = Feasible(q)
           /\ \A q, p, w : Total(q, p, w)' = Total(q, p, w)
<1>1. \A f, q, p : Passes(f, q, p)' = Passes(f, q, p)
  BY DEF Passes, Required
<1>2. \A q : Feasible(q)' = Feasible(q)
  BY <1>1 DEF Feasible, FiltersOf, FiltersOfPolicy
<1>3. MaxCost' = MaxCost
  BY DEF MaxCost
<1>4. \A s, q, p, w : Term(s, q, p, w)' = Term(s, q, p, w)
  BY <1>3 DEF Term, Weight, Score, WarmCapacity, Cost
<1> QED BY <1>2, <1>4 DEF Total

\* A request with the same needs that has no provider yet, or the same one as before.
LEMMA ChosenStays ==
    ASSUME NEW q, NEW z, Chosen(q), z.ask = q.ask, z.policy = q.policy, z.warm = q.warm,
           HasChosen(z) => HasChosen(q) /\ z.on = q.on,
           z.answer = "none" => Feasible(q) = {}
    PROVE  Chosen(z)
<1>1. Feasible(z) = Feasible(q) /\ \A p : Points(z, p) = Points(q, p)
  BY SamePoints
<1> QED BY <1>1 DEF Chosen, Unbeaten

\* A request that is answered counts.
LEMMA AnsweredGrows ==
    ASSUME Counted, NEW r \in Requests, req[r].at # "done", NEW z,
           Become(r, z)
    PROVE  /\ Cardinality(Answered) \in Nat /\ Cardinality(Answered') \in Nat
           /\ Cardinality(Answered') >= Cardinality(Answered)
           /\ z.at = "done" => Cardinality(Answered') = Cardinality(Answered) + 1
<1>1. Answered \in SUBSET Requests /\ Answered' \in SUBSET Requests /\ r \notin Answered
  BY DEF Answered
<1>2. IsFiniteSet(Answered) /\ IsFiniteSet(Answered')
  BY <1>1, ScheduleConstants, FS_Subset
<1>3. Answered' = IF z.at = "done" THEN Answered \cup {r} ELSE Answered
  BY DEF Answered, Become, Counted
<1>4. Cardinality(Answered \cup {r}) = Cardinality(Answered) + 1
  BY <1>1, <1>2, FS_AddElement
<1> QED BY <1>2, <1>3, <1>4, FS_CardinalityType

\* A step of one request leaves the others, and the counts are right.
LEMMA RequestStep ==
    ASSUME ScheduleInv, NEW r \in Requests, req[r].at # "done", NEW z,
           Become(r, z), RequestOK(z), Chosen(z), UNCHANGED <<fleet, polls>>,
           pool' \in [Providers -> 0..MaxWarm],
           \/ UNCHANGED cold
           \/ \E p \in Providers : cold' = [cold EXCEPT ![p] = @ + 1] /\ z.at = "done"
    PROVE  ScheduleInv'
<1>1. req' \in [Requests -> Request] /\ \A s \in Requests : req'[s] = IF s = r THEN z ELSE req[s]
  BY DEF Become, ScheduleInv, Counted, RequestOK
<1>2. Counted'
  <2>1. /\ Cardinality(Answered) \in Nat /\ Cardinality(Answered') \in Nat
        /\ Cardinality(Answered') >= Cardinality(Answered)
        /\ z.at = "done" => Cardinality(Answered') = Cardinality(Answered) + 1
    BY AnsweredGrows DEF ScheduleInv
  <2>2. cold \in [Providers -> Nat] /\ \A p \in Providers : cold[p] <= Cardinality(Answered)
    BY DEF ScheduleInv, Counted
  <2>3. cold' \in [Providers -> Nat] /\ \A p \in Providers : cold'[p] <= Cardinality(Answered')
    BY <2>1, <2>2
  <2> QED BY <1>1, <2>3 DEF ScheduleInv, Counted
<1>3. ASSUME NEW s \in Requests PROVE RequestOK(req'[s]) /\ Chosen(req'[s])
  BY <1>1, <1>3 DEF ScheduleInv
<1>4. ASSUME NEW s \in Requests PROVE RequestOK(req[s])' /\ Chosen(req[s])'
  BY <1>3, <1>4, FleetStays DEF Chosen, Unbeaten, Points
<1> QED BY <1>2, <1>4 DEF ScheduleInv

\* What holds of a request at work.
LEMMA AtWork ==
    ASSUME ScheduleInv, NEW r \in Requests, req[r].at # "done"
    PROVE  /\ req[r] \in Request /\ RacesLost(req[r]) /\ InPlace(req[r]) /\ Chosen(req[r])
           /\ req[r].answer = "pending"
  BY DEF ScheduleInv, RequestOK, InPlace

\* The snapshot takes in one more provider.
LEMMA ReadStep ==
    ASSUME ScheduleInv, NEW r \in Requests, NEW p \in Providers, Read(r, p)
    PROVE  ScheduleInv'
<1> DEFINE q == req[r]
           z == [q EXCEPT !.warm[p] = pool[p], !.first[p] = pool[p], !.cold[p] = cold[p],
                          !.left = @ \ {p},
                          !.at = IF q.left = {p} THEN "govern" ELSE "read"]
<1>1. q.at = "read" /\ Become(r, z)
  BY DEF Read, At
<1>2. q \in Request /\ RacesLost(q) /\ q.answer = "pending"
  BY <1>1, AtWork
<1>3. pool[p] \in 0..MaxWarm /\ cold[p] \in Nat
  BY DEF ScheduleInv, Counted
<1> HIDE DEF q
<1>4. /\ z \in Request /\ z.at \in {"read", "govern"} /\ z.answer = q.answer
      /\ z.empty = q.empty /\ z.tries = q.tries
      /\ z.warm = [q.warm EXCEPT ![p] = pool[p]] /\ z.first = [q.first EXCEPT ![p] = pool[p]]
  <2>1. /\ [q.warm EXCEPT ![p] = pool[p]] \in [Providers -> 0..MaxWarm]
        /\ [q.first EXCEPT ![p] = pool[p]] \in [Providers -> 0..MaxWarm]
        /\ [q.cold EXCEPT ![p] = cold[p]] \in [Providers -> Nat]
        /\ q.left \ {p} \in SUBSET Providers
    BY <1>2, <1>3 DEF Request
  <2>2. z = [q EXCEPT !.warm = [q.warm EXCEPT ![p] = pool[p]],
                      !.first = [q.first EXCEPT ![p] = pool[p]],
                      !.cold = [q.cold EXCEPT ![p] = cold[p]], !.left = q.left \ {p},
                      !.at = IF q.left = {p} THEN "govern" ELSE "read"]
    OBVIOUS
  <2> HIDE DEF z
  <2>3. (IF q.left = {p} THEN "govern" ELSE "read") \in {"read", "govern"}
    OBVIOUS
  <2> QED BY <1>2, <2>1, <2>2, <2>3 DEF Request, Where
<1> HIDE DEF z
<1>5. z \in Request
  BY <1>4
<1>6. z.empty = {} /\ z.tries = q.tries /\ q.empty = {} /\ z.at \in {"read", "govern"} /\
      z.answer = "pending"
  BY <1>1, <1>2, <1>4 DEF RacesLost
<1>7. RacesLost(z)
  BY <1>2, <1>4, <1>6 DEF RacesLost, WarmAtFirst, Request
<1>8. InPlace(z) /\ Chosen(z)
  BY <1>6 DEF InPlace, Chosen, HasChosen
<1>9. UNCHANGED <<fleet, pool, cold, polls>> /\ pool \in [Providers -> 0..MaxWarm]
  BY DEF Read, ScheduleInv, Counted
<1> QED BY <1>1, <1>5, <1>7, <1>8, <1>9, RequestStep DEF RequestOK, q

\* The policy is one that can be executed, or the request is refused.
LEMMA GovernStep ==
    ASSUME ScheduleInv, NEW r \in Requests, Govern(r)
    PROVE  ScheduleInv'
<1> DEFINE q == req[r]
<1>1. q.at = "govern" /\ UNCHANGED <<fleet, pool, cold, polls>>
  BY DEF Govern, At
<1>2. q \in Request /\ RacesLost(q) /\ q.answer = "pending"
  BY <1>1, AtWork
<1>3. PICK policy \in SelectPolicy(q.ask.label) :
         Become(r, IF Valid(policy)
                     THEN [[q EXCEPT !.policy = policy] EXCEPT !.at = "decide"]
                     ELSE Answer([q EXCEPT !.policy = policy], "invalid"))
  BY DEF Govern
<1>4. policy \in AllPolicies
  BY <1>3 DEF SelectPolicy, AllPolicies
<1> DEFINE z == IF Valid(policy) THEN [[q EXCEPT !.policy = policy] EXCEPT !.at = "decide"]
                                   ELSE Answer([q EXCEPT !.policy = policy], "invalid")
<1> HIDE DEF q
<1>5. z = [at |-> IF Valid(policy) THEN "decide" ELSE "done", ask |-> q.ask,
           policy |-> policy, left |-> q.left, warm |-> q.warm, cold |-> q.cold,
           first |-> q.first, empty |-> q.empty, tries |-> q.tries, on |-> q.on,
           answer |-> IF Valid(policy) THEN "pending" ELSE "invalid"]
  BY <1>2 DEF Request, Answer
<1>6. Become(r, z)
  BY <1>3
<1> HIDE DEF z
<1>7. z \in Request
  BY <1>2, <1>4, <1>5 DEF Request, Where
<1>8. RacesLost(z)
  BY <1>1, <1>2, <1>5 DEF RacesLost, WarmAtFirst
<1>9. InPlace(z) /\ Chosen(z)
  BY <1>5 DEF InPlace, Chosen, HasChosen
<1>10. pool \in [Providers -> 0..MaxWarm]
  BY DEF ScheduleInv, Counted
<1> QED BY <1>1, <1>6, <1>7, <1>8, <1>9, <1>10, RequestStep DEF RequestOK, q

\* The request goes away, or to a provider that none it could use beats.
LEMMA DecideStep ==
    ASSUME ScheduleInv, NEW r \in Requests, Decide(r)
    PROVE  ScheduleInv'
<1> DEFINE q == req[r]
<1>1. q.at = "decide" /\ UNCHANGED <<fleet, pool, cold, polls>>
  BY DEF Decide, At
<1>2. q \in Request /\ RacesLost(q) /\ InPlace(q) /\ Chosen(q) /\ q.answer = "pending"
  BY <1>1, AtWork
<1>3. fleet \in Fleets /\ pool \in [Providers -> 0..MaxWarm]
  BY DEF ScheduleInv, Counted
<1>4. CASE Feasible(q) = {} /\ Become(r, Answer(q, "none"))
  <2> DEFINE z == Answer(q, "none")
  <2> HIDE DEF q
  <2>1. z = [q EXCEPT !.at = "done", !.answer = "none"]
    BY DEF Answer
  <2> HIDE DEF z
  <2>2. z \in Request /\ z.at = "done" /\ z.answer = "none" /\ z.ask = q.ask /\
        z.policy = q.policy /\ z.warm = q.warm /\ z.first = q.first /\ z.empty = q.empty /\
        z.tries = q.tries /\ z.on = q.on
    BY <1>2, <2>1 DEF Request, Where
  <2>3. RacesLost(z) /\ InPlace(z)
    BY <1>1, <1>2, <2>2 DEF RacesLost, WarmAtFirst, InPlace, HasChosen
  <2>4. Chosen(z)
    BY <1>2, <1>4, <2>2, ChosenStays DEF HasChosen
  <2> QED BY <1>1, <1>3, <1>4, <2>2, <2>3, <2>4, RequestStep DEF RequestOK, q, z
<1>5. ASSUME Feasible(q) # {}, NEW p \in Pick(q),
             Become(r, [q EXCEPT !.at = "take", !.on = p])
      PROVE  ScheduleInv'
  <2> DEFINE z == [q EXCEPT !.at = "take", !.on = p]
  <2> HIDE DEF q
  <2>1. Scorable(q)
    <3>1. q.warm \in [Providers -> 0..MaxWarm] /\ q.policy \in AllPolicies
      BY <1>2 DEF Request
    <3>2. 0..MaxWarm \subseteq Nat
      BY ScheduleConstants
    <3> QED BY <3>1, <3>2 DEF Scorable
  <2>2. Unbeaten(q, p)
    BY <1>3, <1>5, <2>1, PickIsUnbeaten
  <2>3. p \in Nat
    BY <2>2, ScheduleConstants DEF Unbeaten, Feasible
  <2>4. z \in Request /\ z.at = "take" /\ z.answer = "pending" /\ z.ask = q.ask /\
        z.policy = q.policy /\ z.warm = q.warm /\ z.first = q.first /\ z.empty = q.empty /\
        z.tries = q.tries /\ z.on = p
    BY <1>2, <2>3 DEF Request, Where
  <2> HIDE DEF z
  <2>5. RacesLost(z) /\ InPlace(z)
    BY <1>1, <1>2, <2>4 DEF RacesLost, WarmAtFirst, InPlace, HasChosen
  <2>6. Chosen(z)
    <3>1. Feasible(z) = Feasible(q) /\ \A o : Points(z, o) = Points(q, o)
      BY <2>4, SamePoints
    <3>2. Unbeaten(z, p)
      BY <2>2, <3>1 DEF Unbeaten
    <3> QED BY <2>4, <3>2 DEF Chosen
  <2> QED BY <1>1, <1>3, <1>5, <2>4, <2>5, <2>6, RequestStep DEF RequestOK, q, z
<1> QED BY <1>4, <1>5 DEF Decide

\* The warm sandbox is taken where the request had chosen.
LEMMA TakeWarmStep ==
    ASSUME ScheduleInv, NEW r \in Requests, TakeWarm(r)
    PROVE  ScheduleInv'
<1> DEFINE q == req[r]
           z == Answer(q, "warm")
<1>1. /\ q.at = "take" /\ pool[q.on] > 0 /\ Become(r, z)
      /\ pool' = [pool EXCEPT ![q.on] = pool[q.on] - 1] /\ UNCHANGED <<fleet, cold, polls>>
  BY DEF TakeWarm, At
<1>2. q \in Request /\ RacesLost(q) /\ InPlace(q) /\ Chosen(q) /\ q.answer = "pending"
  BY <1>1, AtWork
<1>3. pool \in [Providers -> 0..MaxWarm] /\ q.on \in Providers
  BY <1>1, <1>2 DEF ScheduleInv, Counted, Chosen, HasChosen, Unbeaten, Feasible
<1>4. pool' \in [Providers -> 0..MaxWarm]
  <2>1. pool[q.on] - 1 \in 0..MaxWarm
    BY <1>1, <1>3, ScheduleConstants
  <2> QED BY <1>1, <1>3, <2>1
<1> HIDE DEF q
<1>5. z \in Request /\ z.at = "done" /\ z.answer = "warm" /\ z.ask = q.ask /\
      z.policy = q.policy /\ z.warm = q.warm /\ z.first = q.first /\ z.empty = q.empty /\
      z.tries = q.tries /\ z.on = q.on
  BY <1>2 DEF Request, Where, Answer
<1> HIDE DEF z
<1>6. RacesLost(z) /\ InPlace(z)
  BY <1>1, <1>2, <1>5 DEF RacesLost, WarmAtFirst, InPlace, HasChosen
<1>7. Chosen(z)
  BY <1>1, <1>2, <1>5, ChosenStays DEF HasChosen
<1> QED BY <1>1, <1>4, <1>5, <1>6, <1>7, RequestStep DEF RequestOK, q

\* So is the cold placement.
LEMMA GoColdStep ==
    ASSUME ScheduleInv, NEW r \in Requests, GoCold(r)
    PROVE  ScheduleInv'
<1> DEFINE q == req[r]
           z == Answer(q, "cold")
<1>1. /\ q.at = "take" /\ q.warm[q.on] = 0 /\ Become(r, z)
      /\ cold' = [cold EXCEPT ![q.on] = @ + 1] /\ UNCHANGED <<fleet, pool, polls>>
  BY DEF GoCold, At
<1>2. q \in Request /\ RacesLost(q) /\ InPlace(q) /\ Chosen(q) /\ q.answer = "pending"
  BY <1>1, AtWork
<1>3. pool' \in [Providers -> 0..MaxWarm] /\ q.on \in Providers
  BY <1>1, <1>2 DEF ScheduleInv, Counted, Chosen, HasChosen, Unbeaten, Feasible
<1> HIDE DEF q
<1>4. z \in Request /\ z.at = "done" /\ z.answer = "cold" /\ z.ask = q.ask /\
      z.policy = q.policy /\ z.warm = q.warm /\ z.first = q.first /\ z.empty = q.empty /\
      z.tries = q.tries /\ z.on = q.on
  BY <1>2 DEF Request, Where, Answer
<1> HIDE DEF z
<1>5. RacesLost(z) /\ InPlace(z)
  BY <1>1, <1>2, <1>4 DEF RacesLost, WarmAtFirst, InPlace, HasChosen
<1>6. Chosen(z)
  BY <1>1, <1>2, <1>4, ChosenStays DEF HasChosen
<1> QED BY <1>1, <1>3, <1>4, <1>5, <1>6, RequestStep DEF RequestOK, q

\* A race is lost at a provider that was warm in the copy, which then forgets it.
LEMMA LostRaceStep ==
    ASSUME ScheduleInv, NEW r \in Requests, LostRace(r)
    PROVE  ScheduleInv'
<1> DEFINE q == req[r]
           p == q.on
           z == [q EXCEPT !.at = "decide", !.warm = Emptied(q.warm, p),
                          !.tries = q.tries + 1, !.empty = q.empty \cup {p}]
<1>1. /\ q.at = "take" /\ q.warm[p] > 0 /\ Become(r, z)
      /\ UNCHANGED <<fleet, pool, cold, polls>>
  BY DEF LostRace, At
<1>2. q \in Request /\ RacesLost(q) /\ InPlace(q) /\ Chosen(q) /\ q.answer = "pending"
  BY <1>1, AtWork
<1>3. pool' \in [Providers -> 0..MaxWarm] /\ p \in Providers
  BY <1>1, <1>2 DEF ScheduleInv, Counted, Chosen, HasChosen, Unbeaten, Feasible
<1> HIDE DEF q, p
<1>4. [q.warm EXCEPT ![p] = 0] \in [Providers -> 0..MaxWarm] /\ q.tries + 1 \in Nat
  <2>1. q.warm \in [Providers -> 0..MaxWarm] /\ q.tries \in Nat
    BY <1>2 DEF Request
  <2> DEFINE Warm == 0..MaxWarm
  <2>2. 0 \in Warm
    BY ScheduleConstants
  <2> HIDE DEF Warm
  <2>3. q.warm \in [Providers -> Warm]
    BY <2>1 DEF Warm
  <2>4. [q.warm EXCEPT ![p] = 0] \in [Providers -> Warm]
    <3> DEFINE w == q.warm
    <3>1. w \in [Providers -> Warm]
      BY <2>3
    <3> HIDE DEF w
    <3>2. [w EXCEPT ![p] = 0] \in [Providers -> Warm]
      BY <2>2, <3>1
    <3> QED BY <3>2 DEF w
  <2>5. q.tries + 1 \in Nat
    BY <2>1
  <2> QED BY <2>4, <2>5 DEF Warm
<1>5. z \in Request /\ z.at = "decide" /\ z.answer = "pending" /\ z.policy = q.policy /\
      z.warm = [q.warm EXCEPT ![p] = 0] /\ z.first = q.first /\
      z.empty = q.empty \cup {p} /\ z.tries = q.tries + 1
  BY <1>2, <1>3, <1>4 DEF Request, Where, Emptied
<1> HIDE DEF z
<1>6. RacesLost(z)
  <2>1. p \notin q.empty /\ q.first[p] > 0
    <3>1. q.warm[p] = IF p \in q.empty THEN 0 ELSE q.first[p]
      BY <1>2, <1>3 DEF RacesLost
    <3> QED BY <1>1, <3>1
  <2>2. Cardinality(q.empty \cup {p}) = q.tries + 1
    <3>1. IsFiniteSet(q.empty)
      BY <1>2, ScheduleConstants, FS_Subset DEF Request
    <3> QED BY <1>2, <2>1, <3>1, FS_AddElement DEF RacesLost
  <2>3. z.empty \subseteq WarmAtFirst(z)
    BY <1>2, <1>3, <1>5, <2>1 DEF RacesLost, WarmAtFirst
  <2>4. \A o \in Providers : z.warm[o] = IF o \in z.empty THEN 0 ELSE z.first[o]
    BY <1>2, <1>5 DEF RacesLost, Request
  <2> QED BY <1>5, <2>2, <2>3, <2>4 DEF RacesLost
<1>7. InPlace(z) /\ Chosen(z)
  BY <1>1, <1>2, <1>5 DEF InPlace, Chosen, HasChosen
<1> QED BY <1>1, <1>3, <1>5, <1>6, <1>7, RequestStep DEF RequestOK, q, p

\* Polls change the pools, time the cold starts in flight, and neither a request.
LEMMA AroundStep ==
    ASSUME ScheduleInv,
           \/ \E p \in Providers : Poll(p) \/ ColdAges(p)
           \/ UNCHANGED scheduleVars
    PROVE  ScheduleInv'
<1>1. UNCHANGED <<fleet, req>>
  BY DEF Poll, ColdAges, scheduleVars
<1>2. pool' \in [Providers -> 0..MaxWarm] /\ polls' \in 0..MaxPolls
  BY ScheduleConstants DEF Poll, ColdAges, scheduleVars, ScheduleInv, Counted
<1>3. cold' \in [Providers -> Nat] /\ \A p \in Providers : cold'[p] <= cold[p]
  BY DEF Poll, ColdAges, scheduleVars, ScheduleInv, Counted
<1>4. Counted'
  <2>1. Answered' = Answered
    BY <1>1 DEF Answered
  <2>2. Cardinality(Answered) \in Nat
    <3>1. Answered \in SUBSET Requests
      BY DEF Answered
    <3> QED BY <3>1, ScheduleConstants, FS_Subset, FS_CardinalityType
  <2>3. cold \in [Providers -> Nat] /\ \A p \in Providers : cold[p] <= Cardinality(Answered)
    BY DEF ScheduleInv, Counted
  <2>4. \A p \in Providers : cold'[p] <= Cardinality(Answered')
    BY <1>3, <2>1, <2>2, <2>3
  <2> QED BY <1>1, <1>2, <1>3, <2>4 DEF ScheduleInv, Counted
<1>5. ASSUME NEW s \in Requests PROVE RequestOK(req[s])' /\ Chosen(req[s])'
  BY <1>1, <1>5, FleetStays DEF ScheduleInv, Chosen, Unbeaten, Points
<1> QED BY <1>4, <1>5 DEF ScheduleInv

\* Every step keeps the invariant.
LEMMA ScheduleGoesOn ==
    ASSUME ScheduleInv, [ScheduleNext]_scheduleVars
    PROVE  ScheduleInv'
<1>1. ASSUME NEW r \in Requests, Govern(r) \/ Decide(r) PROVE ScheduleInv'
  BY <1>1, GovernStep, DecideStep
<1>2. ASSUME NEW r \in Requests, TakeWarm(r) \/ LostRace(r) \/ GoCold(r) PROVE ScheduleInv'
  BY <1>2, TakeWarmStep, LostRaceStep, GoColdStep
<1>3. ASSUME NEW r \in Requests, NEW p \in Providers, Read(r, p) PROVE ScheduleInv'
  BY <1>3, ReadStep
<1>4. CASE (\E p \in Providers : Poll(p) \/ ColdAges(p)) \/ UNCHANGED scheduleVars
  BY <1>4, AroundStep
<1> QED BY <1>1, <1>2, <1>3, <1>4 DEF ScheduleNext

\* A request begins with nothing tried and nothing chosen.
LEMMA ScheduleBegins ==
    ASSUME ScheduleInit
    PROVE  ScheduleInv
<1>1. PICK asks \in [Requests -> Asks] : req = [r \in Requests |-> NewReq(asks[r])]
  BY DEF ScheduleInit
<1>2. Zero \in [Providers -> 0..MaxWarm] /\ Zero \in [Providers -> Nat] /\
      \A p \in Providers : Zero[p] = 0
  BY ScheduleConstants DEF Zero
<1>3. ASSUME NEW r \in Requests PROVE RequestOK(req[r]) /\ Chosen(req[r])
  <2>1. req[r] = NewReq(asks[r]) /\ asks[r] \in Asks
    BY <1>1
  <2>2. req[r] \in Request
    BY <1>2, <2>1 DEF NewReq, Request, Where, AllPolicies
  <2>3. Cardinality({}) = 0
    BY FS_EmptySet
  <2>4. RacesLost(req[r])
    BY <1>2, <2>1, <2>3 DEF RacesLost, NewReq, WarmAtFirst
  <2>5. InPlace(req[r]) /\ Chosen(req[r])
    BY <2>1 DEF InPlace, Chosen, HasChosen, NewReq
  <2> QED BY <2>2, <2>4, <2>5 DEF RequestOK
<1>4. Counted
  <2>1. Cardinality(Answered) \in Nat
    <3>1. Answered \in SUBSET Requests
      BY DEF Answered
    <3> QED BY <3>1, ScheduleConstants, FS_Subset, FS_CardinalityType
  <2>2. \A p \in Providers : cold[p] <= Cardinality(Answered)
    BY <1>2, <2>1 DEF ScheduleInit
  <2>3. req \in [Requests -> Request]
    BY <1>1, <1>3 DEF RequestOK
  <2>4. 0 \in 0..MaxPolls
    BY ScheduleConstants
  <2> QED BY <1>2, <2>2, <2>3, <2>4 DEF ScheduleInit, Counted
<1> QED BY <1>3, <1>4 DEF ScheduleInv

\* Every reachable state has the invariant.
LEMMA ScheduleAlways ==
    ScheduleSpec => []ScheduleInv
<1>1. ScheduleInit => ScheduleInv
  BY ScheduleBegins
<1>2. ScheduleInv /\ [ScheduleNext]_scheduleVars => ScheduleInv'
  BY ScheduleGoesOn
<1> QED BY <1>1, <1>2, PTL DEF ScheduleSpec

-----------------------------------------------------------------------------
(* What it promises.                                                       *)

\* The variables keep their types.
LEMMA ScheduleTypes == ASSUME ScheduleInv PROVE ScheduleTypeOK
<1>1. cold \in [Providers -> 0..Cardinality(Requests)]
  <2>1. Answered \in SUBSET Requests
    BY DEF Answered
  <2>2. Cardinality(Answered) \in Nat /\ Cardinality(Requests) \in Nat /\
        Cardinality(Answered) <= Cardinality(Requests)
    BY <2>1, ScheduleConstants, FS_Subset, FS_CardinalityType
  <2>3. cold \in [Providers -> Nat] /\ \A p \in Providers : cold[p] <= Cardinality(Answered)
    BY DEF ScheduleInv, Counted
  <2>4. \A p \in Providers : cold[p] \in 0..Cardinality(Requests)
    BY <2>2, <2>3
  <2> QED BY <2>3, <2>4
<1>2. ASSUME NEW r \in Requests
      PROVE  LET q == req[r] IN
             /\ q.at \in {"read", "govern", "decide", "take", "done"}
             /\ q.answer \in {"pending", "warm", "cold", "none", "invalid"}
             /\ q.left \cup q.empty \subseteq Providers
             /\ q.policy \in Policies \cup {DefaultPolicy}
             /\ \A p \in Providers : q.warm[p] \in {0, q.first[p]}
             /\ q.at = "take" => q.on \in Feasible(q)
  <2>1. req[r] \in Request /\ RacesLost(req[r]) /\ Chosen(req[r])
    BY DEF ScheduleInv, RequestOK
  <2> QED BY <2>1 DEF Request, Where, AllPolicies, RacesLost, Chosen, HasChosen, Unbeaten
<1> QED BY <1>1, <1>2 DEF ScheduleTypeOK, ScheduleInv, Counted

\* service.go:356-360: the loop of every request ends within one pass for each provider
\* that was warm in its snapshot, however many requests and providers there are.
THEOREM EndsInTimeAlways ==
    ScheduleSpec => []EndsInTime
<1>1. ASSUME ScheduleInv PROVE EndsInTime
  <2>1. ASSUME NEW r \in Requests
        PROVE  req[r].tries + Cardinality({p \in Providers : req[r].warm[p] > 0})
                  <= Cardinality({p \in Providers : req[r].first[p] > 0})
    <3> DEFINE q == req[r]
               W == {p \in Providers : q.warm[p] > 0}
               F == {p \in Providers : q.first[p] > 0}
    <3>1. q \in Request /\ RacesLost(q)
      BY <1>1 DEF ScheduleInv, RequestOK
    <3> HIDE DEF q
    <3>2. W \cup q.empty \subseteq F /\ W \cap q.empty = {} /\ F \in SUBSET Providers
      BY <3>1 DEF RacesLost, WarmAtFirst
    <3> HIDE DEF W, F
    <3>3. IsFiniteSet(F) /\ IsFiniteSet(W) /\ IsFiniteSet(q.empty)
      BY <3>2, ScheduleConstants, FS_Subset
    <3>4. Cardinality(W \cup q.empty) = Cardinality(W) + Cardinality(q.empty)
      <4>1. Cardinality(W \cap q.empty) = 0
        BY <3>2, FS_EmptySet
      <4>2. Cardinality(W) \in Nat /\ Cardinality(q.empty) \in Nat
        BY <3>3, FS_CardinalityType
      <4> DEFINE E == q.empty
      <4>3. IsFiniteSet(W) /\ IsFiniteSet(E)
        BY <3>3
      <4> HIDE DEF E
      <4>4. Cardinality(W \cup E) =
              Cardinality(W) + Cardinality(E) - Cardinality(W \cap E)
        BY <4>3, FS_Union
      <4> QED BY <4>1, <4>2, <4>4 DEF E
    <3>5. Cardinality(W \cup q.empty) <= Cardinality(F)
      BY <3>2, <3>3, FS_Subset
    <3>6. q.tries + Cardinality(W) <= Cardinality(F)
      <4>1. Cardinality(W) \in Nat /\ Cardinality(q.empty) \in Nat
        BY <3>3, FS_CardinalityType
      <4> QED BY <3>1, <3>4, <3>5, <4>1 DEF RacesLost
    <3> QED BY <3>6 DEF q, W, F
  <2> QED BY <1>1, <2>1, ScheduleTypes DEF EndsInTime
<1> QED BY <1>1, ScheduleAlways, PTL

\* service.go:359-360: a request goes cold, or away, only if each warm provider of its
\* snapshot that it could use was found empty when it was tried, or was worth no more
\* than the cold one.
THEOREM NoNeedlessColdAlways ==
    ScheduleSpec => []NoNeedlessCold
<1>1. ASSUME ScheduleInv, NEW r \in Requests, req[r].answer \in {"cold", "none"},
             NEW p \in Feasible([req[r] EXCEPT !.warm = req[r].first]),
             req[r].first[p] # 0, p \notin req[r].empty
      PROVE  req[r].answer = "cold" /\
             Total(req[r], p, req[r].first[p]) <= Total(req[r], req[r].on, 0)
  <2> DEFINE q == req[r]
             f == [q EXCEPT !.warm = q.first]
  <2>1. q \in Request /\ RacesLost(q) /\ InPlace(q) /\ Chosen(q)
    BY <1>1 DEF ScheduleInv, RequestOK
  <2> HIDE DEF q
  <2>2. p \in Providers /\ q.warm[p] = q.first[p]
    BY <1>1, <2>1 DEF Feasible, RacesLost, q
  <2>3. f.ask = q.ask /\ f.policy = q.policy /\ f.warm = q.first
    BY <2>1 DEF Request
  <2> HIDE DEF f
  <2>4. FiltersOf(f) = FiltersOf(q)
    BY <2>3 DEF FiltersOf, FiltersOfPolicy
  <2>5. \A g : Passes(g, f, p) = Passes(g, q, p)
    BY <2>2, <2>3 DEF Passes, Required
  <2>6. p \in Feasible(q)
    BY <1>1, <2>4, <2>5 DEF Feasible, f, q
  <2>7. q.answer = "cold"
    BY <1>1, <2>1, <2>6 DEF Chosen, q
  <2>8. Points(q, p) <= Points(q, q.on) /\ q.warm[q.on] = 0
    BY <2>1, <2>6, <2>7 DEF Chosen, HasChosen, Unbeaten, InPlace
  <2> QED BY <2>2, <2>7, <2>8 DEF Points, q
<1>2. ASSUME ScheduleInv PROVE NoNeedlessCold
  BY <1>1, <1>2 DEF NoNeedlessCold
<1> QED BY <1>2, ScheduleAlways, PTL

\* convert.go:56-81, service.go:311-316: a request for a warm sandbox or for a template
\* gets one, and what a policy requires holds, whatever filters the policy lists.
THEOREM AskedIsGivenAlways ==
    ScheduleSpec => []AskedIsGiven
<1>1. ASSUME ScheduleInv, NEW r \in Requests, req[r].answer \in {"warm", "cold"}
      PROVE  LET q == req[r] IN
             /\ q.ask.warmOnly => q.answer = "warm"
             /\ q.ask.template \in {""} \cup fleet[q.on].templates
             /\ q.policy.requires \in {"", fleet[q.on].attr}
  <2> DEFINE q == req[r]
  <2>1. InPlace(q) /\ Chosen(q) /\ HasChosen(q)
    BY <1>1 DEF ScheduleInv, RequestOK, HasChosen
  <2>2. Valid(q.policy) /\ \A g \in FiltersOf(q) : Passes(g, q, q.on)
    BY <2>1 DEF InPlace, Chosen, Unbeaten, Feasible
  <2>3. q.ask.warmOnly => q.answer = "warm"
    <3> SUFFICES ASSUME q.ask.warmOnly PROVE q.answer = "warm"
      OBVIOUS
    <3>1. "WarmOnly" \in FiltersOf(q)
      BY DEF FiltersOf
    <3>2. q.warm[q.on] > 0
      BY <2>2, <3>1 DEF Passes
    <3>3. q.answer = "cold" => q.warm[q.on] = 0
      BY <2>1 DEF InPlace
    <3> QED BY <1>1, <3>2, <3>3
  <2>4. q.ask.template \in {""} \cup fleet[q.on].templates
    <3> SUFFICES ASSUME q.ask.template # "" PROVE q.ask.template \in {""} \cup fleet[q.on].templates
      OBVIOUS
    <3>1. "TemplateAvailable" \in FiltersOf(q)
      BY DEF FiltersOf, FiltersOfPolicy
    <3> QED BY <2>2, <3>1 DEF Passes
  <2>5. q.policy.requires \in {"", fleet[q.on].attr}
    <3> SUFFICES ASSUME q.policy.requires # "" PROVE q.policy.requires = fleet[q.on].attr
      OBVIOUS
    <3>1. "RequiredAttributes" \in FiltersOf(q)
      BY <2>2 DEF Valid, FiltersOf, FiltersOfPolicy
    <3> QED BY <2>2, <3>1 DEF Passes, Required
  <2> QED BY <2>3, <2>4, <2>5
<1>2. ASSUME ScheduleInv PROVE AskedIsGiven
  BY <1>1, <1>2 DEF AskedIsGiven
<1> QED BY <1>2, ScheduleAlways, PTL
=============================================================================
