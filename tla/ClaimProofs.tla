------------------------------ MODULE ClaimProofs ------------------------------
(***************************************************************************)
(* Proofs about Claim for every set of flights and providers, limit, spill *)
(* bound and state of the keys: slots, attempts and reservations balance,  *)
(* a flight leaves at most one sandbox, and its answer is true of it.      *)
(*                                                                         *)
(* FlightOK says for each place of the loop what the flight's variables    *)
(* and its boxes may be; the counters are sums of what each flight holds,  *)
(* so a step of one flight changes them by the difference it makes there.  *)
(***************************************************************************)
EXTENDS Claim, TLAPS, FiniteSetTheorems

Record == [at : Places, on : Providers \cup {"nowhere"},
           mode : {"first", "busy", "probe", "last"}, ticket : BOOLEAN,
           tried : SUBSET Providers, full : SUBSET Providers, waited : BOOLEAN,
           left : SUBSET Providers, woken : BOOLEAN, kept : SUBSET Providers,
           told : SUBSET Providers, answer : Answers \cup {"none"}]

NoMine(b)      == \A p \in Providers : b[p] # "mine"
MineOnly(b, q) == \A p \in Providers : b[p] = "mine" => p = q

Deciding   == {"decide", "check", "subscribe", "parked"}
Attempting == {"reserve", "busy", "call", "claiming", "recover", "looking"}
Calls      == {"claiming", "looking"}

\* What is so while the flight looks for a provider.
DecidingOK(c, b) ==
    /\ c.mode = "first" /\ ~c.ticket /\ c.answer = "none" /\ c.told = {}
    /\ NoMine(b) /\ c.kept \subseteq c.tried

\* What is so of an attempt: nothing was created elsewhere, and here only if the
\* outcome is unknown.
AttemptOK(f, c, b) ==
    /\ c.on \in Providers /\ c.on \notin c.tried /\ c.kept \subseteq c.tried
    /\ Cardinality(c.tried) < MaxSpill
    /\ MineOnly(b, c.on) /\ c.told \subseteq {c.on}
    /\ c.at = "reserve" => c.mode = "first"
    /\ c.at = "busy" => c.mode = "busy"
    /\ c.at \in {"reserve", "busy"} => ~c.ticket
    /\ c.at \notin {"recover", "looking"} => NoMine(b)
    /\ c.at \notin {"reserve", "busy"} /\ f \in WarmOnly => c.ticket

\* What is so of a flight whose attempt is over.
LeavingOK(f, c, b) ==
    /\ c.on \in Providers /\ c.told \subseteq {c.on} /\ MineOnly(b, c.on)
    /\ c.answer \in {"none", "failed"} => ~c.ticket /\ NoMine(b)
    /\ c.answer = "none" => c.told = {} /\ c.kept \subseteq c.tried
    /\ c.answer = "ok" => b[c.on] = "mine" /\ (f \in WarmOnly => c.ticket)

DoneOK(f, c, b) ==
    /\ c.told = {} /\ c.answer # "none" /\ MineOnly(b, c.on)
    /\ c.answer = "failed" => NoMine(b)
    /\ c.answer = "ok" => b[c.on] = "mine" /\ (f \in WarmOnly => c.ticket)

FlightOK(f, c, b) ==
    /\ c.at \in Deciding => DecidingOK(c, b)
    /\ c.at \in Attempting => AttemptOK(f, c, b)
    /\ c.at \in {"leave", "notify"} => LeavingOK(f, c, b)
    /\ c.at = "done" => DoneOK(f, c, b)
    /\ c.mode \in {"first", "probe"} => c.told = {}
    /\ IsFiniteSet(c.tried) /\ Cardinality(c.tried) <= MaxSpill

FlightsOK == \A f \in Flights : FlightOK(f, flight[f], box[f])

\* The counters, each with the flights it counts.
InSlot(p)   == {f \in Flights : Claiming(f, p)}
Holders(p)  == {f \in Flights : Held(f, p)}
Keepers(p)  == {f \in Flights : p \in flight[f].kept}

Finite ==
    /\ IsFiniteSet(Calling)
    /\ \A p \in Providers : /\ IsFiniteSet(InSlot(p))
                            /\ IsFiniteSet(Holders(p)) /\ IsFiniteSet(Keepers(p))

Slots    == \A p \in Providers : inUse[p] = Cardinality(InSlot(p)) /\ inUse[p] <= Limit
Tickets  == \A p \in Providers :
                reserved[p] = Cardinality(Holders(p)) + Cardinality(Keepers(p))
Attempts == active = Cardinality(Calling)
Closes   == closes = IF closing /\ Calling = {} THEN 1 ELSE 0

IInv == TypeOK /\ FlightsOK /\ Finite /\ Slots /\ Tickets /\ Attempts /\ Closes

-----------------------------------------------------------------------------
(* Counting.                                                               *)

Bit(P) == IF P THEN 1 ELSE 0

\* A set that changes in one element only grows or shrinks by that element.
LEMMA CountStep ==
    ASSUME NEW S, NEW T, NEW x, IsFiniteSet(S), S \ {x} = T \ {x}
    PROVE  /\ IsFiniteSet(T) /\ Cardinality(S) \in Nat /\ Cardinality(T) \in Nat
           /\ Cardinality(T) = Cardinality(S) + Bit(x \in T) - Bit(x \in S)
           /\ Bit(x \in S) <= Cardinality(S)
<1> DEFINE R == S \ {x}
<1>1. /\ IsFiniteSet(R) /\ Cardinality(S) \in Nat
      /\ Cardinality(R) = IF x \in S THEN Cardinality(S) - 1 ELSE Cardinality(S)
  BY FS_RemoveElement, FS_CardinalityType
<1>2. Cardinality(R) \in Nat /\ x \notin R
  BY <1>1, FS_CardinalityType
<1>3. IsFiniteSet(R \cup {x}) /\ Cardinality(R \cup {x}) = Cardinality(R) + 1
  BY <1>1, <1>2, FS_AddElement
<1>4. CASE x \in T
  <2>1. T = R \cup {x}
    BY <1>4
  <2> HIDE DEF R
  <2> QED BY <2>1, <1>1, <1>2, <1>3, <1>4 DEF Bit
<1>5. CASE x \notin T
  <2>1. T = R
    BY <1>5
  <2> HIDE DEF R
  <2> QED BY <2>1, <1>1, <1>2, <1>5 DEF Bit
<1> QED BY <1>4, <1>5

\* What a flight with variables c holds at provider p.
SlotBit(c, p)   == Bit(c.on = p /\ c.at \in Attempting \cup {"leave"})
TicketBit(c, p) == Bit(/\ c.ticket /\ c.on = p /\ c.at # "decide"
                       /\ c.at = "done" => c.answer \in {"ok", "unknown"})
KeptBit(c, p)   == Bit(p \in c.kept)
CallBit(c)      == Bit(c.at \in Calls)

\* A step of flight f: another flight is woken at most.
OthersKeep(f) ==
    \A g \in Flights \ {f} :
        /\ flight'[g].at = flight[g].at /\ flight'[g].on = flight[g].on
        /\ flight'[g].ticket = flight[g].ticket /\ flight'[g].kept = flight[g].kept
        /\ flight'[g].answer = flight[g].answer /\ flight'[g].mode = flight[g].mode
        /\ flight'[g].tried = flight[g].tried /\ flight'[g].told = flight[g].told

\* How the counters change when flight f takes a step.
LEMMA StepCounts ==
    ASSUME IInv, NEW f \in Flights, OthersKeep(f)
    PROVE  /\ Finite'
           /\ \A p \in Providers :
                /\ {Cardinality(InSlot(p)), Cardinality(InSlot(p)')} \subseteq Nat
                /\ Cardinality(InSlot(p)') = Cardinality(InSlot(p))
                     + SlotBit(flight'[f], p) - SlotBit(flight[f], p)
                /\ SlotBit(flight[f], p) <= Cardinality(InSlot(p))
                /\ {Cardinality(Holders(p)), Cardinality(Holders(p)')} \subseteq Nat
                /\ Cardinality(Holders(p)') = Cardinality(Holders(p))
                     + TicketBit(flight'[f], p) - TicketBit(flight[f], p)
                /\ TicketBit(flight[f], p) <= Cardinality(Holders(p))
                /\ {Cardinality(Keepers(p)), Cardinality(Keepers(p)')} \subseteq Nat
                /\ Cardinality(Keepers(p)') = Cardinality(Keepers(p))
                     + KeptBit(flight'[f], p) - KeptBit(flight[f], p)
           /\ {Cardinality(Calling), Cardinality(Calling')} \subseteq Nat
           /\ Cardinality(Calling') = Cardinality(Calling)
                + CallBit(flight'[f]) - CallBit(flight[f])
           /\ CallBit(flight[f]) <= Cardinality(Calling)
<1>1. ASSUME NEW p \in Providers
      PROVE  /\ IsFiniteSet(InSlot(p)')
             /\ {Cardinality(InSlot(p)), Cardinality(InSlot(p)')} \subseteq Nat
             /\ Cardinality(InSlot(p)') = Cardinality(InSlot(p))
                  + SlotBit(flight'[f], p) - SlotBit(flight[f], p)
             /\ SlotBit(flight[f], p) <= Cardinality(InSlot(p))
  <2>1. IsFiniteSet(InSlot(p)) /\ InSlot(p) \ {f} = InSlot(p)' \ {f}
    BY DEF IInv, Finite, OthersKeep, InSlot, Claiming
  <2>2. /\ Bit(f \in InSlot(p)) = SlotBit(flight[f], p)
        /\ Bit(f \in InSlot(p)') = SlotBit(flight'[f], p)
    BY DEF InSlot, Claiming, SlotBit, Attempting, Bit
  <2> QED BY <2>1, <2>2, CountStep
<1>2. ASSUME NEW p \in Providers
      PROVE  /\ IsFiniteSet(Holders(p)')
             /\ {Cardinality(Holders(p)), Cardinality(Holders(p)')} \subseteq Nat
             /\ Cardinality(Holders(p)') = Cardinality(Holders(p))
                  + TicketBit(flight'[f], p) - TicketBit(flight[f], p)
             /\ TicketBit(flight[f], p) <= Cardinality(Holders(p))
  <2>1. IsFiniteSet(Holders(p)) /\ Holders(p) \ {f} = Holders(p)' \ {f}
    BY DEF IInv, Finite, OthersKeep, Holders, Held, At
  <2>2. /\ Bit(f \in Holders(p)) = TicketBit(flight[f], p)
        /\ Bit(f \in Holders(p)') = TicketBit(flight'[f], p)
    BY DEF Holders, Held, At, TicketBit, Bit
  <2> QED BY <2>1, <2>2, CountStep
<1>3. ASSUME NEW p \in Providers
      PROVE  /\ IsFiniteSet(Keepers(p)')
             /\ {Cardinality(Keepers(p)), Cardinality(Keepers(p)')} \subseteq Nat
             /\ Cardinality(Keepers(p)') = Cardinality(Keepers(p))
                  + KeptBit(flight'[f], p) - KeptBit(flight[f], p)
  <2>1. IsFiniteSet(Keepers(p)) /\ Keepers(p) \ {f} = Keepers(p)' \ {f}
    BY DEF IInv, Finite, OthersKeep, Keepers
  <2>2. /\ Bit(f \in Keepers(p)) = KeptBit(flight[f], p)
        /\ Bit(f \in Keepers(p)') = KeptBit(flight'[f], p)
    BY DEF Keepers, KeptBit, Bit
  <2> QED BY <2>1, <2>2, CountStep
<1>4. /\ IsFiniteSet(Calling')
      /\ {Cardinality(Calling), Cardinality(Calling')} \subseteq Nat
      /\ Cardinality(Calling') = Cardinality(Calling)
           + CallBit(flight'[f]) - CallBit(flight[f])
      /\ CallBit(flight[f]) <= Cardinality(Calling)
  <2>1. IsFiniteSet(Calling) /\ Calling \ {f} = Calling' \ {f}
    BY DEF IInv, Finite, OthersKeep, Calling
  <2>2. /\ Bit(f \in Calling) = CallBit(flight[f])
        /\ Bit(f \in Calling') = CallBit(flight'[f])
    BY DEF Calling, Calls, CallBit, Bit
  <2> QED BY <2>1, <2>2, CountStep
<1> HIDE DEF Bit
<1> QED BY <1>1, <1>2, <1>3, <1>4 DEF Finite

\* The counters change by what the step of flight f changes of its own holdings.
Balance(f) ==
    /\ inUse' \in [Providers -> Int] /\ reserved' \in [Providers -> Int]
    /\ \A p \in Providers :
        /\ inUse'[p] = inUse[p] + SlotBit(flight'[f], p) - SlotBit(flight[f], p)
        /\ inUse'[p] <= Limit
        /\ reserved'[p] = reserved[p]
             + TicketBit(flight'[f], p) + KeptBit(flight'[f], p)
             - TicketBit(flight[f], p) - KeptBit(flight[f], p)
    /\ active' = active + CallBit(flight'[f]) - CallBit(flight[f])
    /\ closing' = closing
    /\ closing => CallBit(flight'[f]) <= CallBit(flight[f])
    /\ closes' = IF closing /\ active = 1 /\ CallBit(flight'[f]) < CallBit(flight[f])
                 THEN closes + 1 ELSE closes

\* A step of one flight that leaves it, and the counters, as they should be.
LEMMA FlightStep ==
    ASSUME IInv, NEW f \in Flights, OthersKeep(f), Balance(f),
           flight' \in [Flights -> Record], box' \in [Flights -> [Providers -> Boxes]],
           \A g \in Flights \ {f} : box'[g] = box[g],
           FlightOK(f, flight'[f], box'[f])
    PROVE  IInv'
<1>1. FlightsOK'
  <2> SUFFICES ASSUME NEW g \in Flights PROVE FlightOK(g, flight'[g], box'[g])
    BY DEF FlightsOK
  <2>1. CASE g = f
    BY <2>1
  <2>2. CASE g # f
    <3>1. FlightOK(g, flight[g], box[g]) /\ box'[g] = box[g]
      BY <2>2 DEF IInv, FlightsOK
    <3> QED BY <2>2, <3>1 DEF OthersKeep, FlightOK, DecidingOK, AttemptOK, LeavingOK, DoneOK
  <2> QED BY <2>1, <2>2
<1>2. \A P : Bit(P) \in {0, 1}
  BY DEF Bit
<1>3. /\ \A p : {SlotBit(flight[f], p), SlotBit(flight'[f], p), TicketBit(flight[f], p),
                 TicketBit(flight'[f], p), KeptBit(flight[f], p), KeptBit(flight'[f], p)}
               \subseteq {0, 1}
      /\ {CallBit(flight[f]), CallBit(flight'[f])} \subseteq {0, 1}
  BY DEF SlotBit, TicketBit, KeptBit, CallBit, Bit
<1>4. ASSUME NEW p \in Providers
      PROVE  /\ inUse'[p] = Cardinality(InSlot(p)') /\ inUse'[p] \in Nat
             /\ inUse'[p] <= Limit
  <2>1. inUse[p] = Cardinality(InSlot(p))
    BY DEF IInv, Slots
  <2> QED BY <1>3, <2>1, StepCounts DEF Balance
<1>5. ASSUME NEW p \in Providers
      PROVE  /\ reserved'[p] = Cardinality(Holders(p)') + Cardinality(Keepers(p)')
             /\ reserved'[p] \in Nat
  <2> DEFINE h == Cardinality(Holders(p))   hh == Cardinality(Holders(p)')
             k == Cardinality(Keepers(p))   kk == Cardinality(Keepers(p)')
             t == TicketBit(flight[f], p)   tt == TicketBit(flight'[f], p)
             b == KeptBit(flight[f], p)     bb == KeptBit(flight'[f], p)
  <2>1. reserved[p] = h + k
    BY DEF IInv, Tickets
  <2>2. {h, hh, k, kk} \subseteq Nat /\ hh = h + tt - t /\ kk = k + bb - b
    BY StepCounts
  <2>3. reserved'[p] = reserved[p] + tt + bb - t - b
    BY DEF Balance
  <2>4. {t, tt, b, bb} \subseteq {0, 1}
    BY <1>3
  <2> HIDE DEF h, hh, k, kk, t, tt, b, bb
  <2>5. reserved'[p] = hh + kk /\ reserved'[p] \in Nat
    BY <2>1, <2>2, <2>3, <2>4
  <2> QED BY <2>5 DEF hh, kk
<1>6. active' = Cardinality(Calling') /\ active' \in Nat /\ active = Cardinality(Calling)
  BY <1>3, StepCounts DEF IInv, Attempts, Balance
<1>7. (Calling = {} <=> active = 0) /\ (Calling' = {} <=> active' = 0)
  BY <1>6, StepCounts, FS_EmptySet DEF IInv, Finite
<1>8. Closes' /\ closes' \in Nat
  <2>1. closes = (IF closing /\ active = 0 THEN 1 ELSE 0) /\ active \in Nat
    BY <1>7 DEF IInv, Closes, TypeOK
  <2>2. closes' = IF closing' /\ active' = 0 THEN 1 ELSE 0
    BY <1>3, <1>6, <2>1 DEF Balance
  <2> QED BY <1>7, <2>2 DEF Closes
<1>9. TypeOK'
  <2>1. inUse' \in [Providers -> Nat] /\ reserved' \in [Providers -> Nat]
    BY <1>4, <1>5 DEF Balance
  <2>2. closing' \in BOOLEAN
    BY DEF Balance, IInv, TypeOK
  <2> QED BY <1>6, <1>8, <2>1, <2>2 DEF TypeOK, Record
<1>10. Slots' /\ Tickets'
  BY <1>4, <1>5 DEF Slots, Tickets
<1> QED BY <1>1, <1>6, <1>8, <1>9, <1>10, StepCounts DEF IInv, Attempts

\* The flight takes the variables d, and nothing else of it changes.
LEMMA BecomeStep ==
    ASSUME IInv, NEW f \in Flights, NEW d \in Record, Become(f, d)
    PROVE  flight'[f] = d /\ flight' \in [Flights -> Record] /\ OthersKeep(f)
<1>1. flight \in [Flights -> Record] /\ flight' = [flight EXCEPT ![f] = d]
  BY DEF IInv, TypeOK, Record, Become
<1> QED BY <1>1 DEF OthersKeep

\* A step of the flight on its own, that neither takes nor gives anything back.
LEMMA QuietStep ==
    ASSUME IInv, NEW f \in Flights, NEW d \in Record, Become(f, d), UNCHANGED outside,
           FlightOK(f, d, box[f]),
           \A p \in Providers :
              /\ SlotBit(d, p) = SlotBit(flight[f], p)
              /\ TicketBit(d, p) + KeptBit(d, p)
                   = TicketBit(flight[f], p) + KeptBit(flight[f], p),
           CallBit(d) = CallBit(flight[f])
    PROVE  IInv'
<1>1. flight'[f] = d /\ flight' \in [Flights -> Record] /\ OthersKeep(f)
  BY BecomeStep
<1>2. /\ \A p : {SlotBit(d, p), TicketBit(d, p), KeptBit(d, p),
                 TicketBit(flight[f], p), KeptBit(flight[f], p)} \subseteq {0, 1}
      /\ CallBit(d) \in {0, 1}
  BY DEF SlotBit, TicketBit, KeptBit, CallBit, Bit
<1>3. UNCHANGED <<box, inUse, reserved, closing, active, closes>>
  BY DEF outside, shutdown
<1>4. /\ inUse \in [Providers -> Nat] /\ reserved \in [Providers -> Nat] /\ active \in Nat
      /\ \A p \in Providers : inUse[p] <= Limit
      /\ box \in [Flights -> [Providers -> Boxes]]
  BY DEF IInv, TypeOK, Slots
<1>5. Balance(f)
  <2>1. ASSUME NEW p \in Providers
        PROVE  /\ inUse'[p] = inUse[p] + SlotBit(flight'[f], p) - SlotBit(flight[f], p)
               /\ inUse'[p] <= Limit
    BY <1>1, <1>2, <1>3, <1>4
  <2>2. ASSUME NEW p \in Providers
        PROVE  reserved'[p] = reserved[p]
                 + TicketBit(flight'[f], p) + KeptBit(flight'[f], p)
                 - TicketBit(flight[f], p) - KeptBit(flight[f], p)
    <3>1. reserved'[p] = reserved[p] /\ reserved[p] \in Nat
      BY <1>3, <1>4
    <3>2. TicketBit(d, p) + KeptBit(d, p)
             = TicketBit(flight[f], p) + KeptBit(flight[f], p)
      OBVIOUS
    <3>3. {TicketBit(d, p), KeptBit(d, p), TicketBit(flight[f], p),
           KeptBit(flight[f], p)} \subseteq {0, 1}
      BY <1>2
    <3> QED BY <1>1, <3>1, <3>2, <3>3
  <2>3. /\ active' = active + CallBit(flight'[f]) - CallBit(flight[f])
        /\ closing' = closing /\ closes' = closes
        /\ CallBit(flight'[f]) = CallBit(flight[f]) /\ CallBit(flight[f]) \in {0, 1}
    BY <1>1, <1>2, <1>3, <1>4
  <2>4. inUse' \in [Providers -> Int] /\ reserved' \in [Providers -> Int]
    BY <1>3, <1>4
  <2> QED BY <2>1, <2>2, <2>3, <2>4 DEF Balance
<1> QED BY <1>1, <1>3, <1>4, <1>5, FlightStep

\* What is known of one flight.
LEMMA FlightKnown ==
    ASSUME IInv, NEW f \in Flights
    PROVE  /\ flight[f] \in Record /\ box[f] \in [Providers -> Boxes]
           /\ FlightOK(f, flight[f], box[f])
  BY DEF IInv, TypeOK, FlightsOK, Record

-----------------------------------------------------------------------------
(* The steps of a flight that looks for a provider.                        *)

\* The flight goes on looking.
LEMMA LookingOn ==
    ASSUME IInv, NEW f \in Flights, flight[f].at \in Deciding,
           NEW d \in Record, Become(f, d), UNCHANGED outside, d.at \in Deciding,
           d.mode = flight[f].mode, d.ticket = flight[f].ticket,
           d.answer = flight[f].answer, d.told = flight[f].told,
           d.kept = flight[f].kept, d.tried = flight[f].tried
    PROVE  IInv'
<1>1. FlightOK(f, flight[f], box[f])
  BY FlightKnown
<1>2. FlightOK(f, d, box[f])
  BY <1>1 DEF FlightOK, Deciding, Attempting, DecidingOK
<1>3. ~flight[f].ticket
  BY <1>1 DEF FlightOK, DecidingOK
<1>4. ASSUME NEW p \in Providers
      PROVE  /\ SlotBit(d, p) = SlotBit(flight[f], p)
             /\ TicketBit(d, p) = TicketBit(flight[f], p)
             /\ KeptBit(d, p) = KeptBit(flight[f], p)
  BY <1>3 DEF SlotBit, TicketBit, KeptBit, Bit, Deciding, Attempting
<1>5. CallBit(d) = CallBit(flight[f])
  BY DEF CallBit, Bit, Deciding, Calls
<1>6. \A p \in Providers :
        /\ SlotBit(d, p) = SlotBit(flight[f], p)
        /\ TicketBit(d, p) + KeptBit(d, p)
             = TicketBit(flight[f], p) + KeptBit(flight[f], p)
  BY <1>4
<1> QED BY <1>2, <1>5, <1>6, QuietStep

\* It finds a limiter full, waits, and is woken.
LEMMA WaitingInv ==
    ASSUME IInv, NEW f \in Flights,
           \/ \E p \in Providers :
                 SlotsFull(f, p) \/ CheckOpen(f, p) \/ CheckFull(f, p) \/ Subscribe(f, p)
           \/ WaitForSlot(f) \/ Wake(f)
    PROVE  IInv'
<1> DEFINE c == flight[f]
<1>1. c \in Record
  BY FlightKnown
<1>2. ASSUME NEW d \in Record, Become(f, d), UNCHANGED outside,
             c.at \in Deciding, d.at \in Deciding,
             d.mode = c.mode, d.ticket = c.ticket, d.answer = c.answer,
             d.told = c.told, d.kept = c.kept, d.tried = c.tried
      PROVE  IInv'
  BY <1>2, LookingOn
<1> HIDE DEF c
<1>3. ASSUME NEW p \in Providers, SlotsFull(f, p) PROVE IInv'
  <2> DEFINE d == [c EXCEPT !.full = @ \cup {p}]
  <2>1. Become(f, d) /\ UNCHANGED outside /\ c.at \in Deciding
    BY <1>3 DEF SlotsFull, Chosen, At, Deciding, c
  <2>2. d \in Record /\ d.at \in Deciding /\ d.mode = c.mode /\ d.ticket = c.ticket /\
        d.answer = c.answer /\ d.told = c.told /\ d.kept = c.kept /\ d.tried = c.tried
    BY <1>1, <2>1 DEF Record
  <2> QED BY <1>2, <2>1, <2>2
<1>4. ASSUME NEW p \in Providers, CheckOpen(f, p) PROVE IInv'
  <2> DEFINE d == Opened(c)
  <2>1. Become(f, d) /\ UNCHANGED outside /\ c.at \in Deciding
    BY <1>4 DEF CheckOpen, At, Deciding, c
  <2>2. d \in Record /\ d.at \in Deciding /\ d.mode = c.mode /\ d.ticket = c.ticket /\
        d.answer = c.answer /\ d.told = c.told /\ d.kept = c.kept /\ d.tried = c.tried
    BY <1>1 DEF Record, Opened, Places, Deciding
  <2> QED BY <1>2, <2>1, <2>2
<1>5. ASSUME NEW p \in Providers, CheckFull(f, p) PROVE IInv'
  <2> DEFINE d == IF c.left = {p}
                  THEN [c EXCEPT !.at = "subscribe", !.left = c.full]
                  ELSE [c EXCEPT !.left = @ \ {p}]
  <2>1. Become(f, d) /\ UNCHANGED outside /\ c.at \in Deciding
    BY <1>5 DEF CheckFull, At, Deciding, c
  <2>2. d \in Record /\ d.at \in Deciding /\ d.mode = c.mode /\ d.ticket = c.ticket /\
        d.answer = c.answer /\ d.told = c.told /\ d.kept = c.kept /\ d.tried = c.tried
    BY <1>1, <2>1 DEF Record, Places, Deciding
  <2> QED BY <1>2, <2>1, <2>2
<1>6. ASSUME NEW p \in Providers, Subscribe(f, p) PROVE IInv'
  <2> DEFINE d == [c EXCEPT !.left = @ \ {p},
                            !.at = IF c.left = {p} THEN "parked" ELSE @]
  <2>1. Become(f, d) /\ UNCHANGED outside /\ c.at \in Deciding
    BY <1>6 DEF Subscribe, At, Deciding, c
  <2>2. d \in Record /\ d.at \in Deciding /\ d.mode = c.mode /\ d.ticket = c.ticket /\
        d.answer = c.answer /\ d.told = c.told /\ d.kept = c.kept /\ d.tried = c.tried
    BY <1>1, <2>1 DEF Record, Places, Deciding
  <2> QED BY <1>2, <2>1, <2>2
<1>7. CASE WaitForSlot(f)
  <2> DEFINE d == [c EXCEPT !.at = "check", !.waited = TRUE, !.left = c.full]
  <2>1. Become(f, d) /\ UNCHANGED outside /\ c.at \in Deciding
    BY <1>7 DEF WaitForSlot, At, Deciding, c
  <2>2. d \in Record /\ d.at \in Deciding /\ d.mode = c.mode /\ d.ticket = c.ticket /\
        d.answer = c.answer /\ d.told = c.told /\ d.kept = c.kept /\ d.tried = c.tried
    BY <1>1 DEF Record, Places, Deciding
  <2> QED BY <1>2, <2>1, <2>2
<1>8. CASE Wake(f)
  <2> DEFINE d == Opened(c)
  <2>1. Become(f, d) /\ UNCHANGED outside /\ c.at \in Deciding
    BY <1>8 DEF Wake, At, Deciding, c
  <2>2. d \in Record /\ d.at \in Deciding /\ d.mode = c.mode /\ d.ticket = c.ticket /\
        d.answer = c.answer /\ d.told = c.told /\ d.kept = c.kept /\ d.tried = c.tried
    BY <1>1 DEF Record, Opened, Places, Deciding
  <2> QED BY <1>2, <2>1, <2>2
<1> QED BY <1>3, <1>4, <1>5, <1>6, <1>7, <1>8

\* It gives up: no provider, no time or no patience is left.
LEMMA GivesUpInv ==
    ASSUME IInv, NEW f \in Flights, Exhausted(f) \/ QueueTimeout(f)
    PROVE  IInv'
<1> DEFINE c == flight[f]
           d == Answer(c, "failed")
<1>1. c \in Record /\ FlightOK(f, c, box[f]) /\ c.at \in Deciding
  BY FlightKnown DEF Exhausted, QueueTimeout, At, Deciding
<1>2. Become(f, d) /\ UNCHANGED outside
  BY DEF Exhausted, QueueTimeout
<1> HIDE DEF c
<1>3. /\ d \in Record /\ d.at = "done" /\ d.answer = "failed" /\ d.told = {}
      /\ d.tried = {} /\ d.kept = c.kept /\ d.ticket = c.ticket /\ d.mode = c.mode
  BY <1>1 DEF Record, Answer, Done, Places, Answers
<1> HIDE DEF d
<1>4. DecidingOK(c, box[f])
  BY <1>1 DEF FlightOK
<1>5. DoneOK(f, d, box[f])
  BY <1>3, <1>4 DEF DoneOK, DecidingOK, NoMine, MineOnly
<1>6. FlightOK(f, d, box[f])
  BY <1>3, <1>5, FS_EmptySet, ClaimAssumption DEF FlightOK, Deciding, Attempting
<1>7. ASSUME NEW p \in Providers
      PROVE  /\ SlotBit(d, p) = SlotBit(c, p) /\ TicketBit(d, p) = TicketBit(c, p)
             /\ KeptBit(d, p) = KeptBit(c, p)
  BY <1>1, <1>3, <1>4 DEF DecidingOK, SlotBit, TicketBit, KeptBit, Bit, Deciding, Attempting
<1>8. CallBit(d) = CallBit(c)
  BY <1>1, <1>3 DEF CallBit, Calls, Bit, Deciding
<1>9. \A p \in Providers : /\ SlotBit(d, p) = SlotBit(c, p)
                          /\ TicketBit(d, p) + KeptBit(d, p)
                               = TicketBit(c, p) + KeptBit(c, p)
  BY <1>7
<1> QED BY <1>2, <1>3, <1>6, <1>8, <1>9, QuietStep DEF c

-----------------------------------------------------------------------------
(* An attempt takes its slot and its reservation, and gives the slot back. *)

\* Nothing changes but the flight's own variables and the slots in use.
LEMMA SlotStep ==
    ASSUME IInv, NEW f \in Flights, NEW d \in Record, Become(f, d),
           FlightOK(f, d, box[f]), UNCHANGED <<box, reserved, shutdown>>,
           inUse' \in [Providers -> Int],
           \A p \in Providers :
              /\ inUse'[p] = inUse[p] + SlotBit(d, p) - SlotBit(flight[f], p)
              /\ inUse'[p] <= Limit
              /\ TicketBit(d, p) = TicketBit(flight[f], p)
              /\ KeptBit(d, p) = KeptBit(flight[f], p),
           CallBit(d) = CallBit(flight[f])
    PROVE  IInv'
<1>1. flight'[f] = d /\ flight' \in [Flights -> Record] /\ OthersKeep(f)
  BY BecomeStep
<1>2. UNCHANGED <<box, reserved, closing, active, closes>>
  BY DEF shutdown
<1>3. /\ reserved \in [Providers -> Nat] /\ active \in Nat
      /\ box \in [Flights -> [Providers -> Boxes]]
  BY DEF IInv, TypeOK
<1>4. Balance(f)
  <2>1. ASSUME NEW p \in Providers
        PROVE  reserved'[p] = reserved[p]
                 + TicketBit(flight'[f], p) + KeptBit(flight'[f], p)
                 - TicketBit(flight[f], p) - KeptBit(flight[f], p)
    <3>1. reserved'[p] = reserved[p] /\ reserved[p] \in Nat
      BY <1>2, <1>3
    <3>2. TicketBit(d, p) \in {0, 1} /\ KeptBit(d, p) \in {0, 1}
      BY DEF TicketBit, KeptBit, Bit
    <3> QED BY <1>1, <3>1, <3>2
  <2>2. CallBit(d) \in {0, 1} /\ reserved' \in [Providers -> Int]
    BY <1>2, <1>3 DEF CallBit, Bit
  <2>3. /\ active' = active + CallBit(flight'[f]) - CallBit(flight[f])
        /\ closing' = closing /\ closes' = closes
        /\ CallBit(flight'[f]) = CallBit(flight[f])
    BY <1>1, <1>2, <1>3, <2>2
  <2> QED BY <1>1, <2>1, <2>2, <2>3 DEF Balance
<1> QED BY <1>1, <1>2, <1>3, <1>4, FlightStep

LEMMA AcquireInv ==
    ASSUME IInv, NEW f \in Flights, NEW q \in Providers, Acquire(f, q)
    PROVE  IInv'
<1> DEFINE c == flight[f]
           d == [c EXCEPT !.at = "reserve", !.on = q]
<1>1. c \in Record /\ FlightOK(f, c, box[f]) /\ c.at = "decide"
  BY FlightKnown DEF Acquire, Chosen, At
<1>2. /\ Become(f, d) /\ UNCHANGED <<box, reserved, shutdown>>
      /\ inUse[q] < Limit /\ inUse' = [inUse EXCEPT ![q] = @ + 1]
      /\ q \notin c.tried /\ Cardinality(c.tried) < MaxSpill
  BY DEF Acquire, Chosen, MoreSpills
<1> HIDE DEF c
<1>3. /\ d \in Record /\ d.at = "reserve" /\ d.on = q /\ d.mode = c.mode
      /\ d.ticket = c.ticket /\ d.kept = c.kept /\ d.tried = c.tried
      /\ d.told = c.told /\ d.answer = c.answer
  BY <1>1 DEF Record, Places
<1> HIDE DEF d
<1>4. DecidingOK(c, box[f]) /\ IsFiniteSet(c.tried) /\ Cardinality(c.tried) <= MaxSpill
  BY <1>1 DEF FlightOK, Deciding
<1>5. AttemptOK(f, d, box[f])
  BY <1>2, <1>3, <1>4 DEF DecidingOK, AttemptOK, NoMine, MineOnly
<1>6. FlightOK(f, d, box[f])
  BY <1>3, <1>4, <1>5 DEF FlightOK, DecidingOK, Deciding
<1>7. inUse \in [Providers -> Nat] /\ Limit \in Nat /\ \A p \in Providers : inUse[p] <= Limit
  BY ClaimAssumption DEF IInv, TypeOK, Slots
<1>8. ASSUME NEW p \in Providers
      PROVE  /\ inUse'[p] = inUse[p] + SlotBit(d, p) - SlotBit(c, p)
             /\ inUse'[p] <= Limit
             /\ TicketBit(d, p) = TicketBit(c, p) /\ KeptBit(d, p) = KeptBit(c, p)
  <2>1. SlotBit(c, p) = 0 /\ SlotBit(d, p) = IF p = q THEN 1 ELSE 0
    BY <1>1, <1>3 DEF SlotBit, Bit, Attempting
  <2>2. TicketBit(d, p) = TicketBit(c, p) /\ KeptBit(d, p) = KeptBit(c, p)
    BY <1>1, <1>3, <1>4 DEF TicketBit, KeptBit, Bit, DecidingOK
  <2> QED BY <1>2, <1>7, <2>1, <2>2
<1>9. CallBit(d) = CallBit(c) /\ inUse' \in [Providers -> Int]
  BY <1>1, <1>2, <1>3, <1>7 DEF CallBit, Bit, Calls
<1> QED BY <1>2, <1>3, <1>6, <1>8, <1>9, SlotStep DEF c

LEMMA ReleaseSlotInv ==
    ASSUME IInv, NEW f \in Flights, ReleaseSlot(f)
    PROVE  IInv'
<1> DEFINE c == flight[f]
           d == [c EXCEPT !.at = "notify"]
           q == c.on
<1>1. c \in Record /\ FlightOK(f, c, box[f]) /\ c.at = "leave"
  BY FlightKnown DEF ReleaseSlot, At
<1>2. /\ Become(f, d) /\ UNCHANGED <<box, reserved, shutdown>>
      /\ inUse' = [inUse EXCEPT ![q] = @ - 1]
  BY DEF ReleaseSlot, Goes, On
<1> HIDE DEF c
<1>3. /\ d \in Record /\ d.at = "notify" /\ d.on = c.on /\ d.mode = c.mode
      /\ d.ticket = c.ticket /\ d.kept = c.kept /\ d.tried = c.tried
      /\ d.told = c.told /\ d.answer = c.answer
  BY <1>1 DEF Record, Places
<1> HIDE DEF d
<1>4. LeavingOK(f, c, box[f]) /\ q \in Providers
  BY <1>1 DEF FlightOK, LeavingOK
<1>5. LeavingOK(f, d, box[f])
  BY <1>3, <1>4 DEF LeavingOK
<1>6. FlightOK(f, d, box[f])
  BY <1>1, <1>3, <1>5 DEF FlightOK, Deciding, Attempting
<1>7. inUse \in [Providers -> Nat] /\ Limit \in Nat /\ \A p \in Providers : inUse[p] <= Limit
  BY ClaimAssumption DEF IInv, TypeOK, Slots
<1>8. ASSUME NEW p \in Providers
      PROVE  /\ inUse'[p] = inUse[p] + SlotBit(d, p) - SlotBit(c, p)
             /\ inUse'[p] <= Limit
             /\ TicketBit(d, p) = TicketBit(c, p) /\ KeptBit(d, p) = KeptBit(c, p)
  <2>1. SlotBit(d, p) = 0 /\ SlotBit(c, p) = IF p = q THEN 1 ELSE 0
    BY <1>1, <1>3 DEF SlotBit, Bit, Attempting
  <2>2. TicketBit(d, p) = TicketBit(c, p) /\ KeptBit(d, p) = KeptBit(c, p)
    BY <1>1, <1>3 DEF TicketBit, KeptBit, Bit
  <2> HIDE DEF q
  <2> QED BY <1>2, <1>4, <1>7, <2>1, <2>2
<1>9. CallBit(d) = CallBit(c) /\ inUse' \in [Providers -> Int]
  BY <1>1, <1>2, <1>3, <1>4, <1>7 DEF CallBit, Bit, Calls
<1> QED BY <1>2, <1>3, <1>6, <1>8, <1>9, SlotStep DEF c

\* Nothing changes but the flight's own variables, its boxes and the reservations.
LEMMA ReserveStep ==
    ASSUME IInv, NEW f \in Flights, NEW d \in Record, Become(f, d),
           FlightOK(f, d, box[f]), UNCHANGED <<box, inUse, shutdown>>,
           reserved' \in [Providers -> Int],
           \A p \in Providers :
              /\ reserved'[p] = reserved[p] + TicketBit(d, p) + KeptBit(d, p)
                                 - TicketBit(flight[f], p) - KeptBit(flight[f], p)
              /\ SlotBit(d, p) = SlotBit(flight[f], p),
           CallBit(d) = CallBit(flight[f])
    PROVE  IInv'
<1>1. flight'[f] = d /\ flight' \in [Flights -> Record] /\ OthersKeep(f)
  BY BecomeStep
<1>2. UNCHANGED <<box, inUse, closing, active, closes>>
  BY DEF shutdown
<1>3. /\ inUse \in [Providers -> Nat] /\ active \in Nat
      /\ \A p \in Providers : inUse[p] <= Limit
      /\ box \in [Flights -> [Providers -> Boxes]]
  BY DEF IInv, TypeOK, Slots
<1>4. Balance(f)
  <2>1. ASSUME NEW p \in Providers
        PROVE  /\ inUse'[p] = inUse[p] + SlotBit(flight'[f], p) - SlotBit(flight[f], p)
               /\ inUse'[p] <= Limit
    <3>1. inUse'[p] = inUse[p] /\ inUse[p] \in Nat /\ inUse[p] <= Limit
      BY <1>2, <1>3
    <3>2. SlotBit(d, p) \in {0, 1}
      BY DEF SlotBit, Bit
    <3> QED BY <1>1, <3>1, <3>2
  <2>2. CallBit(d) \in {0, 1} /\ inUse' \in [Providers -> Int]
    BY <1>2, <1>3 DEF CallBit, Bit
  <2>3. /\ active' = active + CallBit(flight'[f]) - CallBit(flight[f])
        /\ closing' = closing /\ closes' = closes
        /\ CallBit(flight'[f]) = CallBit(flight[f])
    BY <1>1, <1>2, <1>3, <2>2
  <2> QED BY <1>1, <2>1, <2>2, <2>3 DEF Balance
<1> QED BY <1>1, <1>2, <1>3, <1>4, FlightStep

LEMMA ReserveWarmInv ==
    ASSUME IInv, NEW f \in Flights, ReserveWarm(f)
    PROVE  IInv'
<1> DEFINE c == flight[f]
           d == [c EXCEPT !.at = "call", !.ticket = TRUE]
           q == c.on
<1>1. c \in Record /\ FlightOK(f, c, box[f]) /\ c.at \in {"reserve", "busy"}
  BY FlightKnown DEF ReserveWarm
<1>2. /\ Become(f, d) /\ UNCHANGED <<box, inUse, shutdown>>
      /\ reserved' = [reserved EXCEPT ![q] = @ + 1]
  BY DEF ReserveWarm, On
<1> HIDE DEF c
<1>3. /\ d \in Record /\ d.at = "call" /\ d.on = c.on /\ d.mode = c.mode
      /\ d.ticket /\ d.kept = c.kept /\ d.tried = c.tried
      /\ d.told = c.told /\ d.answer = c.answer
  BY <1>1 DEF Record, Places
<1> HIDE DEF d
<1>4. AttemptOK(f, c, box[f]) /\ q \in Providers /\ ~c.ticket
  BY <1>1 DEF FlightOK, AttemptOK, Attempting
<1>5. AttemptOK(f, d, box[f])
  BY <1>1, <1>3, <1>4 DEF AttemptOK
<1>6. FlightOK(f, d, box[f])
  BY <1>1, <1>3, <1>5 DEF FlightOK, Deciding
<1>7. reserved \in [Providers -> Nat]
  BY DEF IInv, TypeOK
<1>8. ASSUME NEW p \in Providers
      PROVE  /\ reserved'[p] = reserved[p] + TicketBit(d, p) + KeptBit(d, p)
                                - TicketBit(c, p) - KeptBit(c, p)
             /\ SlotBit(d, p) = SlotBit(c, p)
  <2>1. SlotBit(d, p) = SlotBit(c, p) /\ KeptBit(d, p) = KeptBit(c, p) /\ KeptBit(c, p) \in {0, 1}
    BY <1>1, <1>3 DEF SlotBit, KeptBit, Bit, Attempting
  <2>2. TicketBit(c, p) = 0 /\ TicketBit(d, p) = IF p = q THEN 1 ELSE 0
    BY <1>3, <1>4 DEF TicketBit, Bit
  <2> HIDE DEF q
  <2> QED BY <1>2, <1>4, <1>7, <2>1, <2>2
<1>9. CallBit(d) = CallBit(c) /\ reserved' \in [Providers -> Int]
  BY <1>1, <1>2, <1>3, <1>4, <1>7 DEF CallBit, Bit, Calls
<1> QED BY <1>2, <1>3, <1>6, <1>8, <1>9, ReserveStep DEF c

\* It goes on without a reservation.
LEMMA ReserveColdInv ==
    ASSUME IInv, NEW f \in Flights, ReserveCold(f)
    PROVE  IInv'
<1> DEFINE c == flight[f]
           d == [c EXCEPT !.at = "call"]
<1>1. /\ c \in Record /\ FlightOK(f, c, box[f]) /\ c.at \in {"reserve", "busy"}
      /\ f \notin WarmOnly /\ Become(f, d) /\ UNCHANGED outside
  BY FlightKnown DEF ReserveCold, At, MayGoCold, ColdRetry, Goes
<1> HIDE DEF c
<1>2. /\ d \in Record /\ d.at = "call" /\ d.on = c.on /\ d.mode = c.mode
      /\ d.ticket = c.ticket /\ d.kept = c.kept /\ d.tried = c.tried
      /\ d.told = c.told /\ d.answer = c.answer
  BY <1>1 DEF Record, Places
<1> HIDE DEF d
<1>3. AttemptOK(f, c, box[f])
  BY <1>1 DEF FlightOK, Attempting
<1>4. AttemptOK(f, d, box[f])
  BY <1>1, <1>2, <1>3 DEF AttemptOK
<1>5. FlightOK(f, d, box[f])
  BY <1>1, <1>2, <1>4 DEF FlightOK, Deciding
<1>6. ASSUME NEW p \in Providers
      PROVE  /\ SlotBit(d, p) = SlotBit(c, p) /\ TicketBit(d, p) = TicketBit(c, p)
             /\ KeptBit(d, p) = KeptBit(c, p)
  BY <1>1, <1>2 DEF SlotBit, TicketBit, KeptBit, Bit, Attempting
<1>7. CallBit(d) = CallBit(c)
  BY <1>1, <1>2 DEF CallBit, Calls, Bit
<1>8. \A p \in Providers : /\ SlotBit(d, p) = SlotBit(c, p)
                          /\ TicketBit(d, p) + KeptBit(d, p)
                               = TicketBit(c, p) + KeptBit(c, p)
  BY <1>6
<1> QED BY <1>1, <1>2, <1>5, <1>7, <1>8, QuietStep DEF c

\* It ends before the call, or when its recovery does.
LEMMA EndsInv ==
    ASSUME IInv, NEW f \in Flights, LostRace(f) \/ BusyEnds(f) \/ RecoveryEnds(f)
    PROVE  IInv'
<1> DEFINE c == flight[f]
<1> PICK answer \in {"none", "failed", "unknown"} :
      /\ Become(f, Leave(c, answer)) /\ UNCHANGED outside
      /\ \/ c.at = "reserve" /\ answer = "none"
         \/ c.at = "busy" /\ answer = "failed"
         \/ c.at = "recover" /\ answer = "unknown"
  BY DEF LostRace, BusyEnds, RecoveryEnds, UnknownOutcome, At
<1> DEFINE d == Leave(c, answer)
<1>1. c \in Record /\ FlightOK(f, c, box[f])
  BY FlightKnown
<1> HIDE DEF c
<1>2. /\ d \in Record /\ d.at = "leave" /\ d.answer = answer /\ d.on = c.on
      /\ d.mode = c.mode /\ d.ticket = c.ticket /\ d.kept = c.kept
      /\ d.tried = c.tried /\ d.told = c.told
  BY <1>1 DEF Record, Places, Leave, Answers
<1>3. Become(f, d) /\ UNCHANGED outside
  OBVIOUS
<1> HIDE DEF d
<1>4. AttemptOK(f, c, box[f]) /\ (c.mode \in {"first", "probe"} => c.told = {})
  BY <1>1 DEF FlightOK, Attempting
<1>5. LeavingOK(f, d, box[f])
  BY <1>2, <1>4 DEF AttemptOK, LeavingOK
<1>6. FlightOK(f, d, box[f])
  BY <1>1, <1>2, <1>5 DEF FlightOK, Deciding, Attempting
<1>7. ASSUME NEW p \in Providers
      PROVE  /\ SlotBit(d, p) = SlotBit(c, p) /\ TicketBit(d, p) = TicketBit(c, p)
             /\ KeptBit(d, p) = KeptBit(c, p)
  BY <1>2 DEF SlotBit, TicketBit, KeptBit, Bit, Attempting
<1>8. CallBit(d) = CallBit(c)
  BY <1>2 DEF CallBit, Calls, Bit
<1>9. \A p \in Providers : /\ SlotBit(d, p) = SlotBit(c, p)
                          /\ TicketBit(d, p) + KeptBit(d, p)
                               = TicketBit(c, p) + KeptBit(c, p)
  BY <1>7
<1> QED BY <1>2, <1>3, <1>6, <1>8, <1>9, QuietStep DEF c

-----------------------------------------------------------------------------
(* Calls to the provider, and their answers.                               *)

\* Nothing starts under a shutdown; before it, a call is counted.
LEMMA StartInv ==
    ASSUME IInv, NEW f \in Flights, InvokeClaim(f) \/ CallLookup(f)
    PROVE  IInv'
<1> DEFINE c == flight[f]
<1> PICK s \in Calls :
      /\ c.at \in {"call", "recover"} /\ (s = "claiming" <=> c.at = "call")
      /\ StartAttempt(f, s)
  BY DEF InvokeClaim, CallLookup, At, Calls
<1> DEFINE d == [c EXCEPT !.at = s]
<1>1. /\ c \in Record /\ FlightOK(f, c, box[f])
      /\ c.at \in {"call", "recover"} /\ (s = "claiming" <=> c.at = "call")
      /\ s \in {"claiming", "looking"}
      /\ Become(f, d) /\ ~closing /\ active' = active + 1
      /\ UNCHANGED <<box, inUse, reserved, closing, closes>>
  BY FlightKnown DEF StartAttempt, Open, Goes, Calls
<1> HIDE DEF c
<1>2. /\ d \in Record /\ d.at = s /\ d.on = c.on /\ d.mode = c.mode
      /\ d.ticket = c.ticket /\ d.kept = c.kept /\ d.tried = c.tried
      /\ d.told = c.told /\ d.answer = c.answer
  BY <1>1 DEF Record, Places, Calls
<1> HIDE DEF d
<1>3. AttemptOK(f, c, box[f])
  BY <1>1 DEF FlightOK, Attempting
<1>4. AttemptOK(f, d, box[f])
  BY <1>1, <1>2, <1>3 DEF AttemptOK
<1>5. FlightOK(f, d, box[f])
  BY <1>1, <1>2, <1>4 DEF FlightOK, Deciding, Calls
<1>6. ASSUME NEW p \in Providers
      PROVE  /\ SlotBit(d, p) = SlotBit(c, p) /\ TicketBit(d, p) = TicketBit(c, p)
             /\ KeptBit(d, p) = KeptBit(c, p)
             /\ {SlotBit(c, p), TicketBit(c, p), KeptBit(c, p)} \subseteq {0, 1}
  BY <1>1, <1>2 DEF SlotBit, TicketBit, KeptBit, Bit, Attempting
<1>7. CallBit(d) = 1 /\ CallBit(c) = 0
  BY <1>1, <1>2 DEF CallBit, Calls, Bit
<1>8. flight'[f] = d /\ flight' \in [Flights -> Record] /\ OthersKeep(f)
  BY <1>1, <1>2, BecomeStep
<1>9. Balance(f)
  <2>1. /\ inUse \in [Providers -> Nat] /\ reserved \in [Providers -> Nat]
        /\ active \in Nat /\ \A p \in Providers : inUse[p] <= Limit
    BY DEF IInv, TypeOK, Slots
  <2>2. ASSUME NEW p \in Providers
        PROVE  /\ inUse'[p] = inUse[p] + SlotBit(flight'[f], p) - SlotBit(flight[f], p)
               /\ inUse'[p] <= Limit
    BY <1>1, <1>6, <1>8, <2>1 DEF c
  <2>3. ASSUME NEW p \in Providers
        PROVE  reserved'[p] = reserved[p]
                 + TicketBit(flight'[f], p) + KeptBit(flight'[f], p)
                 - TicketBit(flight[f], p) - KeptBit(flight[f], p)
    BY <1>1, <1>6, <1>8, <2>1 DEF c
  <2>4. /\ active' = active + CallBit(flight'[f]) - CallBit(flight[f])
        /\ closing' = closing /\ ~closing /\ closes' = closes
    BY <1>1, <1>7, <1>8, <2>1 DEF c
  <2>5. inUse' \in [Providers -> Int] /\ reserved' \in [Providers -> Int]
    BY <1>1, <2>1
  <2> QED BY <2>2, <2>3, <2>4, <2>5 DEF Balance
<1>10. box' \in [Flights -> [Providers -> Boxes]] /\ box' = box
  BY <1>1 DEF IInv, TypeOK
<1> QED BY <1>5, <1>8, <1>9, <1>10, FlightStep

Kinds == Refusals \cup {"ok", "unknown", "conflict", "keybusy"}

\* The reservation that answer k gives back to provider p.
BackBit(c, k, p) == Bit(c.ticket /\ GivesBack(k) /\ p = c.on)

\* What an answer makes of a flight: bb are its boxes afterwards.
LEMMA AnsweredOK ==
    ASSUME NEW f \in Flights, NEW c \in Record, NEW k \in Kinds,
           NEW b \in [Providers -> Boxes], NEW bb \in [Providers -> Boxes],
           c.at \in {"call", "claiming", "looking"}, FlightOK(f, c, b),
           \A p \in Providers : p # c.on => bb[p] = b[p],
           k \notin {"ok", "unknown"} => NoMine(bb), k = "ok" => bb[c.on] = "mine"
    PROVE  LET d == Answered(c, k)
           IN  /\ d \in Record /\ d.on = c.on /\ d.at \in {"leave", "busy", "recover"}
               /\ FlightOK(f, d, bb)
               /\ \A p \in Providers :
                    TicketBit(d, p) + KeptBit(d, p)
                      = TicketBit(c, p) + KeptBit(c, p) - BackBit(c, k, p)
<1> DEFINE d == Answered(c, k)
<1>1. /\ AttemptOK(f, c, b) /\ c.on \in Providers /\ IsFiniteSet(c.tried)
      /\ Cardinality(c.tried) <= MaxSpill /\ (c.mode \in {"first", "probe"} => c.told = {})
  BY DEF FlightOK, Attempting, AttemptOK
<1>2. MineOnly(bb, c.on)
  BY <1>1 DEF AttemptOK, MineOnly
<1>3. CASE k = "ok"
  <2>1. /\ d \in Record /\ d.at = "leave" /\ d.on = c.on /\ d.answer = "ok"
        /\ d.ticket = c.ticket /\ d.kept = c.kept /\ d.tried = c.tried
        /\ d.told = c.told /\ d.mode = c.mode
    <3>1. d = Leave(c, "ok")
      BY <1>3 DEF Answered, Refusals
    <3> HIDE DEF d
    <3> QED BY <3>1 DEF Leave, Record, Places, Answers
  <2> HIDE DEF d
  <2>2. LeavingOK(f, d, bb)
    BY <1>1, <1>2, <1>3, <2>1 DEF AttemptOK, LeavingOK
  <2>3. FlightOK(f, d, bb)
    BY <1>1, <2>1, <2>2 DEF FlightOK, Deciding, Attempting
  <2>4. ASSUME NEW p \in Providers
        PROVE  /\ TicketBit(d, p) = TicketBit(c, p) /\ KeptBit(d, p) = KeptBit(c, p)
               /\ BackBit(c, k, p) = 0 /\ {TicketBit(c, p), KeptBit(c, p)} \subseteq {0, 1}
    BY <1>3, <2>1 DEF TicketBit, KeptBit, BackBit, GivesBack, Bit
  <2> QED BY <2>1, <2>3, <2>4 DEF d
<1>4. CASE k = "conflict"
  <2>1. /\ d \in Record /\ d.at = "leave" /\ d.on = c.on /\ d.answer = "failed"
        /\ ~d.ticket /\ d.kept = c.kept /\ d.tried = c.tried
        /\ d.told = c.told /\ d.mode = c.mode
    <3>1. d = Leave([c EXCEPT !.ticket = FALSE], "failed")
      BY <1>4 DEF Answered, Refusals
    <3> HIDE DEF d
    <3> QED BY <3>1 DEF Leave, Record, Places, Answers
  <2> HIDE DEF d
  <2>2. LeavingOK(f, d, bb)
    BY <1>1, <1>2, <1>4, <2>1 DEF AttemptOK, LeavingOK
  <2>3. FlightOK(f, d, bb)
    BY <1>1, <2>1, <2>2 DEF FlightOK, Deciding, Attempting
  <2>4. ASSUME NEW p \in Providers
        PROVE  /\ TicketBit(d, p) = 0 /\ KeptBit(d, p) = KeptBit(c, p)
               /\ BackBit(c, k, p) = TicketBit(c, p)
               /\ {TicketBit(c, p), KeptBit(c, p)} \subseteq {0, 1}
    BY <1>4, <2>1 DEF TicketBit, KeptBit, BackBit, GivesBack, Bit
  <2> QED BY <2>1, <2>3, <2>4 DEF d
<1>5. CASE k = "keybusy"
  <2>1. /\ d \in Record /\ d.at = "busy" /\ d.on = c.on /\ d.mode = "busy"
        /\ ~d.ticket /\ d.kept = c.kept /\ d.tried = c.tried
        /\ d.told = c.told \cup {c.on} /\ d.answer = c.answer
    <3>1. d = KeyBusy(c)
      BY <1>5 DEF Answered, Refusals
    <3> HIDE DEF d
    <3> QED BY <1>1, <3>1 DEF KeyBusy, Record, Places
  <2> HIDE DEF d
  <2>2. AttemptOK(f, d, bb)
    BY <1>1, <1>2, <1>5, <2>1 DEF AttemptOK
  <2>3. FlightOK(f, d, bb)
    BY <1>1, <2>1, <2>2 DEF FlightOK, Deciding, Attempting
  <2>4. ASSUME NEW p \in Providers
        PROVE  /\ TicketBit(d, p) = 0 /\ KeptBit(d, p) = KeptBit(c, p)
               /\ BackBit(c, k, p) = TicketBit(c, p)
               /\ {TicketBit(c, p), KeptBit(c, p)} \subseteq {0, 1}
    BY <1>5, <2>1 DEF TicketBit, KeptBit, BackBit, GivesBack, Bit
  <2> QED BY <2>1, <2>3, <2>4 DEF d
<1>6. CASE k = "unknown"
  <2>1. /\ d \in Record /\ d.at = "recover" /\ d.on = c.on
        /\ d.ticket = c.ticket /\ d.kept = c.kept /\ d.tried = c.tried
        /\ d.told = c.told /\ (d.mode \in {"first", "probe"} => c.mode \in {"first", "probe"})
    <3> DEFINE m == CASE c.mode = "first" -> "probe"
                      [] c.mode = "busy"  -> "last"
                      [] OTHER            -> c.mode
    <3>1. d = [c EXCEPT !.at = "recover", !.mode = m]
      BY <1>6 DEF Answered, Unknown, Refusals
    <3>2. /\ m \in {"probe", "last", "first", "busy"}
          /\ m \in {"first", "probe"} => c.mode \in {"first", "probe"}
      BY DEF Record
    <3> HIDE DEF d, m
    <3> QED BY <3>1, <3>2 DEF Record, Places
  <2> HIDE DEF d
  <2>2. AttemptOK(f, d, bb)
    BY <1>1, <1>2, <1>6, <2>1 DEF AttemptOK
  <2>3. FlightOK(f, d, bb)
    BY <1>1, <2>1, <2>2 DEF FlightOK, Deciding, Attempting
  <2>4. ASSUME NEW p \in Providers
        PROVE  /\ TicketBit(d, p) = TicketBit(c, p) /\ KeptBit(d, p) = KeptBit(c, p)
               /\ BackBit(c, k, p) = 0 /\ {TicketBit(c, p), KeptBit(c, p)} \subseteq {0, 1}
    BY <1>6, <2>1 DEF TicketBit, KeptBit, BackBit, GivesBack, Bit
  <2> QED BY <2>1, <2>3, <2>4 DEF d
<1>7. CASE k \in Refusals
  <2> DEFINE kept == IF c.ticket /\ k = "nocap" THEN c.kept \cup {c.on} ELSE c.kept
  <2>1. /\ d \in Record /\ d.at = "leave" /\ d.on = c.on /\ d.mode = c.mode
        /\ ~d.ticket /\ d.kept = kept /\ d.told = c.told
        /\ d.answer = IF Spills(c) THEN "none" ELSE "failed"
        /\ d.tried = IF Spills(c) THEN c.tried \cup {c.on} ELSE c.tried
    <3>1. d = Refused(c, k)
      BY <1>7 DEF Answered, Refusals
    <3> HIDE DEF d
    <3> QED BY <1>1, <3>1 DEF Refused, Leave, Record, Places, Answers
  <2> HIDE DEF d
  <2>2. IsFiniteSet(d.tried) /\ Cardinality(d.tried) <= MaxSpill
    <3>1. /\ c.on \notin c.tried /\ Cardinality(c.tried) < MaxSpill
          /\ Cardinality(c.tried) \in Nat /\ MaxSpill \in Nat
      BY <1>1, FS_CardinalityType, ClaimAssumption DEF AttemptOK
    <3>2. /\ IsFiniteSet(c.tried \cup {c.on})
          /\ Cardinality(c.tried \cup {c.on}) = Cardinality(c.tried) + 1
      BY <1>1, <3>1, FS_AddElement
    <3> QED BY <1>1, <2>1, <3>1, <3>2
  <2>3. LeavingOK(f, d, bb)
    BY <1>1, <1>2, <1>7, <2>1 DEF AttemptOK, LeavingOK, Refusals, Spills
  <2>4. FlightOK(f, d, bb)
    BY <1>1, <2>1, <2>2, <2>3 DEF FlightOK, Deciding, Attempting
  <2>5. ASSUME NEW p \in Providers
        PROVE  TicketBit(d, p) + KeptBit(d, p)
                 = TicketBit(c, p) + KeptBit(c, p) - BackBit(c, k, p)
    <3>1. TicketBit(d, p) = 0 /\ TicketBit(c, p) = Bit(c.ticket /\ p = c.on)
      BY <2>1 DEF TicketBit, Bit
    <3>2. c.on \notin c.kept
      BY <1>1 DEF AttemptOK
    <3>3. KeptBit(d, p) = Bit(p \in kept) /\ KeptBit(c, p) = Bit(p \in c.kept)
      BY <2>1 DEF KeptBit
    <3>4. GivesBack(k) <=> k # "nocap"
      BY <1>7 DEF GivesBack, Refusals
    <3> QED BY <3>1, <3>2, <3>3, <3>4 DEF BackBit, Bit
  <2> QED BY <2>1, <2>4, <2>5 DEF d
<1> QED BY <1>3, <1>4, <1>5, <1>6, <1>7 DEF Kinds

\* What an answer gives back, for every provider.
LEMMA ReturnedBack ==
    ASSUME IInv, NEW f \in Flights, NEW k, On(f) \in Providers
    PROVE  /\ Returned(f, k) \in [Providers -> Int]
           /\ \A p \in Providers : Returned(f, k)[p] = reserved[p] - BackBit(flight[f], k, p)
<1>1. reserved \in [Providers -> Nat]
  BY DEF IInv, TypeOK
<1>2. CASE flight[f].ticket /\ GivesBack(k)
  <2>1. Returned(f, k) = [reserved EXCEPT ![On(f)] = @ - 1]
    BY <1>2 DEF Returned
  <2>2. \A p \in Providers : BackBit(flight[f], k, p) = IF p = On(f) THEN 1 ELSE 0
    BY <1>2 DEF BackBit, Bit, On
  <2> QED BY <1>1, <2>1, <2>2
<1>3. CASE ~(flight[f].ticket /\ GivesBack(k))
  <2>1. Returned(f, k) = reserved
    BY <1>3 DEF Returned
  <2>2. \A p \in Providers : BackBit(flight[f], k, p) = 0
    BY <1>3 DEF BackBit, Bit
  <2> QED BY <1>1, <2>1, <2>2
<1> QED BY <1>2, <1>3

\* A call is over: the attempts are one fewer, and perhaps Shutdown's last.
LEMMA CallEnds ==
    ASSUME IInv, NEW f \in Flights, flight[f].at \in Calls, FinishAttempt,
           NEW d \in Record, Become(f, d),
           d.at \in {"leave", "busy", "recover", "call"}, d.on = flight[f].on,
           box' \in [Flights -> [Providers -> Boxes]],
           \A g \in Flights \ {f} : box'[g] = box[g], FlightOK(f, d, box'[f]),
           reserved' \in [Providers -> Int],
           \A p \in Providers :
              reserved'[p] = reserved[p] + TicketBit(d, p) + KeptBit(d, p)
                                - TicketBit(flight[f], p) - KeptBit(flight[f], p)
    PROVE  IInv'
<1>1. flight'[f] = d /\ flight' \in [Flights -> Record] /\ OthersKeep(f)
  BY BecomeStep
<1>2. /\ inUse \in [Providers -> Nat] /\ active \in Nat
      /\ \A p \in Providers : inUse[p] <= Limit
  BY DEF IInv, TypeOK, Slots
<1>3. /\ inUse' = inUse /\ closing' = closing /\ active' = active - 1
      /\ closes' = IF closing /\ active = 1 THEN closes + 1 ELSE closes
  BY DEF FinishAttempt
<1>4. CallBit(d) = 0 /\ CallBit(flight[f]) = 1
  BY DEF CallBit, Calls, Bit
<1>5. ASSUME NEW p \in Providers
      PROVE  /\ inUse'[p] = inUse[p] + SlotBit(flight'[f], p) - SlotBit(flight[f], p)
             /\ inUse'[p] <= Limit
  <2>1. SlotBit(d, p) = SlotBit(flight[f], p) /\ SlotBit(d, p) \in {0, 1}
    BY DEF SlotBit, Bit, Attempting, Calls
  <2> QED BY <1>1, <1>2, <1>3, <2>1
<1>6. active' = active + CallBit(flight'[f]) - CallBit(flight[f])
  BY <1>1, <1>2, <1>3, <1>4
<1>7. inUse' \in [Providers -> Int]
  BY <1>2, <1>3
<1>8. Balance(f)
  BY <1>1, <1>3, <1>4, <1>5, <1>6, <1>7 DEF Balance
<1> QED BY <1>1, <1>8, FlightStep

LEMMA ClaimShutOutInv ==
    ASSUME IInv, NEW f \in Flights, ClaimShutOut(f)
    PROVE  IInv'
<1> DEFINE c == flight[f]
           d == Answered(c, "unavail")
<1>1. /\ c \in Record /\ FlightOK(f, c, box[f]) /\ box[f] \in [Providers -> Boxes]
      /\ c.at = "call" /\ Become(f, d) /\ UNCHANGED <<box, inUse, shutdown>>
      /\ reserved' = Returned(f, "unavail")
  BY FlightKnown DEF ClaimShutOut, At
<1>2. c.on \in Providers /\ NoMine(box[f])
  BY <1>1 DEF FlightOK, AttemptOK, Attempting
<1>3. /\ d \in Record /\ d.on = c.on /\ d.at \in {"leave", "busy", "recover"}
      /\ FlightOK(f, d, box[f])
      /\ \A p \in Providers : TicketBit(d, p) + KeptBit(d, p)
                = TicketBit(c, p) + KeptBit(c, p) - BackBit(c, "unavail", p)
  <2>1. "unavail" \in Kinds
    BY DEF Kinds, Refusals
  <2> HIDE DEF c
  <2> QED BY <1>1, <1>2, <2>1, AnsweredOK
<1>4. /\ reserved' \in [Providers -> Int] /\ reserved \in [Providers -> Nat]
      /\ \A p \in Providers : reserved'[p] = reserved[p] - BackBit(c, "unavail", p)
  BY <1>1, <1>2, ReturnedBack DEF On, IInv, TypeOK
<1> HIDE DEF c, d
<1>5. ASSUME NEW p \in Providers
      PROVE  /\ reserved'[p] = reserved[p] + TicketBit(d, p) + KeptBit(d, p)
                                 - TicketBit(c, p) - KeptBit(c, p)
             /\ SlotBit(d, p) = SlotBit(c, p)
  <2>1. {TicketBit(d, p), KeptBit(d, p), TicketBit(c, p), KeptBit(c, p),
         BackBit(c, "unavail", p)} \subseteq {0, 1}
    BY DEF TicketBit, KeptBit, BackBit, Bit
  <2>2. SlotBit(d, p) = SlotBit(c, p)
    BY <1>1, <1>3 DEF SlotBit, Bit, Attempting
  <2> QED BY <1>3, <1>4, <2>1, <2>2
<1>6. CallBit(d) = CallBit(c)
  BY <1>1, <1>3 DEF CallBit, Calls, Bit
<1> QED BY <1>1, <1>3, <1>4, <1>5, <1>6, ReserveStep DEF c

\* The answer k to a call that is over leaves the boxes bb.
LEMMA AnsweredStep ==
    ASSUME IInv, NEW f \in Flights, flight[f].at \in Calls, FinishAttempt,
           NEW k \in Kinds, Become(f, Answered(flight[f], k)),
           reserved' = Returned(f, k),
           box' \in [Flights -> [Providers -> Boxes]],
           \A g \in Flights \ {f} : box'[g] = box[g],
           \A p \in Providers : p # On(f) => box'[f][p] = box[f][p],
           k \notin {"ok", "unknown"} => NoMine(box'[f]),
           k = "ok" => box'[f][On(f)] = "mine"
    PROVE  IInv'
<1> DEFINE c == flight[f]
           d == Answered(c, k)
<1>1. /\ c \in Record /\ FlightOK(f, c, box[f]) /\ box[f] \in [Providers -> Boxes]
      /\ box'[f] \in [Providers -> Boxes] /\ c.at \in {"claiming", "looking"}
      /\ Become(f, d) /\ reserved' = Returned(f, k) /\ On(f) = c.on
  BY FlightKnown DEF Calls, On
<1>2. c.on \in Providers
  BY <1>1 DEF FlightOK, AttemptOK, Attempting
<1>3. /\ d \in Record /\ d.on = c.on /\ d.at \in {"leave", "busy", "recover"}
      /\ FlightOK(f, d, box'[f])
      /\ \A p \in Providers : TicketBit(d, p) + KeptBit(d, p)
                = TicketBit(c, p) + KeptBit(c, p) - BackBit(c, k, p)
  <2> HIDE DEF c
  <2> QED BY <1>1, <1>2, AnsweredOK
<1>4. /\ reserved' \in [Providers -> Int] /\ reserved \in [Providers -> Nat]
      /\ \A p \in Providers : reserved'[p] = reserved[p] - BackBit(c, k, p)
  BY <1>1, <1>2, ReturnedBack DEF IInv, TypeOK
<1> HIDE DEF c, d
<1>5. ASSUME NEW p \in Providers
      PROVE  reserved'[p] = reserved[p] + TicketBit(d, p) + KeptBit(d, p)
                                 - TicketBit(c, p) - KeptBit(c, p)
  <2>1. {TicketBit(d, p), KeptBit(d, p), TicketBit(c, p), KeptBit(c, p),
         BackBit(c, k, p)} \subseteq {0, 1}
    BY DEF TicketBit, KeptBit, BackBit, Bit
  <2> QED BY <1>3, <1>4, <2>1
<1> QED BY <1>1, <1>3, <1>4, <1>5, CallEnds DEF c

\* The provider answers the claim.
LEMMA ClaimReturnsInv ==
    ASSUME IInv, NEW f \in Flights, ClaimReturns(f)
    PROVE  IInv'
<1> DEFINE b == box[f][On(f)]
<1>1. flight[f].at = "claiming" /\ FinishAttempt
  BY DEF ClaimReturns, At
<1>2. PICK o \in Outcomes(b) :
         /\ box' = [box EXCEPT ![f][On(f)] = o[2]]
         /\ reserved' = Returned(f, o[1]) /\ Become(f, Answered(flight[f], o[1]))
  BY DEF ClaimReturns
<1>3. /\ box \in [Flights -> [Providers -> Boxes]] /\ On(f) \in Providers
      /\ NoMine(box[f]) /\ b \in {"none", "other", "dying"}
  <2>1. AttemptOK(f, flight[f], box[f]) /\ box \in [Flights -> [Providers -> Boxes]]
    BY <1>1 DEF IInv, TypeOK, FlightsOK, FlightOK, Attempting
  <2>2. On(f) \in Providers /\ NoMine(box[f])
    BY <1>1, <2>1 DEF AttemptOK, On
  <2> QED BY <2>1, <2>2 DEF NoMine, Boxes
<1>4. /\ o[1] \in Kinds /\ o[2] \in Boxes
      /\ o[1] \notin {"ok", "unknown"} => o[2] = b
      /\ o[1] = "ok" => o[2] = "mine"
  <2>1. \/ \E k \in Refusals \cup {"unknown"} : o = <<k, b>>
        \/ o \in {"ok", "unknown"} \X {"mine"}
        \/ o = <<"conflict", b>> \/ o = <<"keybusy", b>>
    BY <1>3 DEF Outcomes
  <2> HIDE DEF b
  <2>2. ASSUME NEW k \in Refusals \cup {"unknown"}, o = <<k, b>>
        PROVE  o[1] \in Refusals \cup {"unknown"} /\ o[2] = b
    BY <2>2
  <2>3. CASE o \in {"ok", "unknown"} \X {"mine"}
    BY <2>3 DEF Kinds, Boxes
  <2>4. CASE o = <<"conflict", b>> \/ o = <<"keybusy", b>>
    BY <1>3, <2>4 DEF Kinds, Boxes
  <2> QED BY <1>3, <2>1, <2>2, <2>3, <2>4 DEF Kinds, Refusals, Boxes
<1>5. /\ box' \in [Flights -> [Providers -> Boxes]]
      /\ \A g \in Flights \ {f} : box'[g] = box[g]
      /\ \A p \in Providers : p # On(f) => box'[f][p] = box[f][p]
      /\ box'[f][On(f)] = o[2]
  BY <1>2, <1>3, <1>4
<1>6. o[1] \notin {"ok", "unknown"} => NoMine(box'[f])
  BY <1>3, <1>4, <1>5 DEF NoMine
<1> HIDE DEF b
<1> QED BY <1>1, <1>2, <1>4, <1>5, <1>6, AnsweredStep DEF Calls

\* What the lookup's answer makes of the flight, where no reservation goes back.
LEMMA LookedUp ==
    ASSUME IInv, NEW f \in Flights, At(f, "looking"), FinishAttempt,
           UNCHANGED <<box, reserved>>, NEW d \in Record, Become(f, d),
           d.on = On(f), d.kept = flight[f].kept, d.ticket = flight[f].ticket,
           d.at \in {"leave", "recover", "call"}, FlightOK(f, d, box[f])
    PROVE  IInv'
<1>1. reserved \in [Providers -> Nat] /\ box \in [Flights -> [Providers -> Boxes]]
  BY DEF IInv, TypeOK
<1>2. ASSUME NEW p \in Providers
      PROVE  reserved'[p] = reserved[p] + TicketBit(d, p) + KeptBit(d, p)
                   - TicketBit(flight[f], p) - KeptBit(flight[f], p)
  <2>1. /\ TicketBit(d, p) = TicketBit(flight[f], p) /\ KeptBit(d, p) = KeptBit(flight[f], p)
        /\ TicketBit(d, p) \in {0, 1} /\ KeptBit(d, p) \in {0, 1}
    BY DEF TicketBit, KeptBit, Bit, At, On
  <2> QED BY <1>1, <2>1
<1>3. flight[f].at \in Calls /\ d.on = flight[f].on
  BY DEF At, Calls, On
<1>4. /\ reserved' \in [Providers -> Int] /\ box' \in [Flights -> [Providers -> Boxes]]
      /\ \A g \in Flights \ {f} : box'[g] = box[g]
      /\ box'[f] = box[f]
  BY <1>1
<1>5. FlightOK(f, d, box'[f]) /\ d.at \in {"leave", "busy", "recover", "call"}
  BY <1>4
<1> QED BY <1>2, <1>3, <1>4, <1>5, CallEnds

\* The lookup finds the sandbox, finds none, finds another's, or cannot tell.
LEMMA LookupReturnsInv ==
    ASSUME IInv, NEW f \in Flights, LookupReturns(f)
    PROVE  IInv'
<1> DEFINE c == flight[f]
<1>1. /\ c \in Record /\ FlightOK(f, c, box[f]) /\ At(f, "looking") /\ c.at = "looking"
      /\ FinishAttempt /\ UNCHANGED box /\ On(f) = c.on
  BY FlightKnown DEF LookupReturns, At, On
<1>2. AttemptOK(f, c, box[f]) /\ c.on \in Providers
  BY <1>1 DEF FlightOK, AttemptOK, Attempting
<1>3. c.mode \in {"first", "probe"} => c.told = {}
  BY <1>1 DEF FlightOK
<1>4. IsFiniteSet(c.tried) /\ Cardinality(c.tried) <= MaxSpill
  BY <1>1 DEF FlightOK
<1>5. CASE Goes(f, "recover") /\ UNCHANGED reserved
  <2> DEFINE d == [c EXCEPT !.at = "recover"]
  <2>1. Become(f, d)
    BY <1>5 DEF Goes
  <2> HIDE DEF c
  <2>2. /\ d \in Record /\ d.at = "recover" /\ d.on = c.on /\ d.mode = c.mode
        /\ d.ticket = c.ticket /\ d.kept = c.kept /\ d.tried = c.tried
        /\ d.told = c.told
    BY <1>1 DEF Record, Places
  <2> HIDE DEF d
  <2>3. AttemptOK(f, d, box[f])
    BY <1>1, <1>2, <2>2 DEF AttemptOK
  <2>4. FlightOK(f, d, box[f])
    BY <1>3, <1>4, <2>2, <2>3 DEF FlightOK, Deciding
  <2> QED BY <1>1, <1>5, <2>1, <2>2, <2>4, LookedUp DEF c
<1>6. CASE box[f][On(f)] = "mine" /\ Become(f, Leave(c, "ok")) /\ UNCHANGED reserved
  <2> DEFINE d == Leave(c, "ok")
  <2> HIDE DEF c
  <2>1. /\ d \in Record /\ d.at = "leave" /\ d.on = c.on /\ d.mode = c.mode
        /\ d.ticket = c.ticket /\ d.kept = c.kept /\ d.tried = c.tried
        /\ d.told = c.told /\ d.answer = "ok"
    BY <1>1 DEF Record, Places, Leave, Answers
  <2>2. Become(f, d)
    BY <1>6
  <2> HIDE DEF d
  <2>3. LeavingOK(f, d, box[f])
    BY <1>1, <1>2, <1>6, <2>1 DEF AttemptOK, LeavingOK
  <2>4. FlightOK(f, d, box[f])
    BY <1>3, <1>4, <2>1, <2>3 DEF FlightOK, Deciding, Attempting
  <2> QED BY <1>1, <1>6, <2>1, <2>2, <2>4, LookedUp DEF c
<1>7. CASE /\ box[f][On(f)] = "none" /\ UNCHANGED reserved
           /\ Become(f, [c EXCEPT !.at = "call"])
  <2> DEFINE d == [c EXCEPT !.at = "call"]
  <2> HIDE DEF c
  <2>1. /\ d \in Record /\ d.at = "call" /\ d.on = c.on /\ d.mode = c.mode
        /\ d.ticket = c.ticket /\ d.kept = c.kept /\ d.tried = c.tried
        /\ d.told = c.told
    BY <1>1 DEF Record, Places
  <2>2. Become(f, d)
    BY <1>7
  <2> HIDE DEF d
  <2>3. NoMine(box[f])
    BY <1>1, <1>2, <1>7 DEF AttemptOK, MineOnly, NoMine
  <2>4. AttemptOK(f, d, box[f])
    BY <1>1, <1>2, <2>1, <2>3 DEF AttemptOK
  <2>5. FlightOK(f, d, box[f])
    BY <1>3, <1>4, <2>1, <2>4 DEF FlightOK, Deciding
  <2> QED BY <1>1, <1>7, <2>1, <2>2, <2>5, LookedUp DEF c
<1>8. CASE /\ box[f][On(f)] = "none" /\ UNCHANGED reserved
           /\ Become(f, Leave(c, UnknownOutcome))
  <2> DEFINE d == Leave(c, "unknown")
  <2> HIDE DEF c
  <2>1. /\ d \in Record /\ d.at = "leave" /\ d.on = c.on /\ d.mode = c.mode
        /\ d.ticket = c.ticket /\ d.kept = c.kept /\ d.tried = c.tried
        /\ d.told = c.told /\ d.answer = "unknown"
    BY <1>1 DEF Record, Places, Leave, Answers
  <2>2. Become(f, d)
    BY <1>8 DEF UnknownOutcome
  <2> HIDE DEF d
  <2>3. LeavingOK(f, d, box[f])
    BY <1>1, <1>2, <2>1 DEF AttemptOK, LeavingOK
  <2>4. FlightOK(f, d, box[f])
    BY <1>3, <1>4, <2>1, <2>3 DEF FlightOK, Deciding, Attempting
  <2> QED BY <1>1, <1>8, <2>1, <2>2, <2>4, LookedUp DEF c
<1>9. CASE /\ box[f][On(f)] = "other" /\ reserved' = Returned(f, "conflict")
           /\ Become(f, Answered(c, "conflict"))
  <2>1. /\ c.at \in Calls /\ "conflict" \in Kinds
        /\ box' \in [Flights -> [Providers -> Boxes]]
    BY <1>1 DEF Calls, Kinds, IInv, TypeOK
  <2>2. NoMine(box'[f])
    BY <1>1, <1>2, <1>9 DEF AttemptOK, MineOnly, NoMine
  <2> QED BY <1>1, <1>9, <2>1, <2>2, AnsweredStep
<1> QED BY <1>5, <1>6, <1>7, <1>8, <1>9 DEF LookupReturns

-----------------------------------------------------------------------------
(* The rest: the signal, the shutdown, a deletion.                         *)

\* The slot's signal wakes others, and the flight goes on or is done.
LEMMA NotifyInv ==
    ASSUME IInv, NEW f \in Flights, Notify(f)
    PROVE  IInv'
<1> DEFINE c == flight[f]
           d == IF c.answer = "none" THEN Again(c) ELSE Done(c)
<1>1. /\ c \in Record /\ FlightOK(f, c, box[f]) /\ c.at = "notify" /\ UNCHANGED outside
      /\ flight' = [g \in Flights |-> IF g = f THEN d
                       ELSE [flight[g] EXCEPT !.woken = @ \/ Subscribed(g, On(f))]]
  BY FlightKnown DEF Notify, At
<1>2. \A g \in Flights : flight[g] \in Record
  BY FlightKnown
<1>3. LeavingOK(f, c, box[f])
  BY <1>1 DEF FlightOK
<1> HIDE DEF c
<1>4. /\ d \in Record /\ d.kept = c.kept
      /\ c.answer = "none" =>
            /\ d.at = "decide" /\ d.mode = "first" /\ d.ticket = c.ticket
            /\ d.answer = "none" /\ d.told = c.told /\ d.tried = c.tried
      /\ c.answer # "none" =>
            /\ d.at = "done" /\ d.answer = c.answer /\ d.told = {} /\ d.tried = {}
            /\ d.ticket = c.ticket
            /\ d.on = IF c.answer = "failed" THEN "nowhere" ELSE c.on
  <2>1. CASE c.answer = "none"
    BY <1>1, <2>1 DEF Record, Again, Places
  <2>2. CASE c.answer # "none"
    BY <1>1, <2>2 DEF Record, Done, Places
  <2> QED BY <2>1, <2>2
<1> HIDE DEF d
<1>5. flight' \in [Flights -> Record] /\ flight'[f] = d /\ OthersKeep(f)
  <2>1. ASSUME NEW g \in Flights \ {f}
        PROVE  /\ flight'[g] \in Record
               /\ flight'[g].at = flight[g].at /\ flight'[g].on = flight[g].on
               /\ flight'[g].ticket = flight[g].ticket /\ flight'[g].kept = flight[g].kept
               /\ flight'[g].answer = flight[g].answer /\ flight'[g].mode = flight[g].mode
               /\ flight'[g].tried = flight[g].tried /\ flight'[g].told = flight[g].told
    <3> DEFINE w == flight[g].woken \/ Subscribed(g, On(f))
    <3>1. flight'[g] = [flight[g] EXCEPT !.woken = w] /\ flight[g] \in Record
      BY <1>1, <1>2
    <3>2. w \in BOOLEAN
      BY <3>1 DEF Record, Subscribed
    <3> HIDE DEF w
    <3> QED BY <3>1, <3>2 DEF Record
  <2>2. flight'[f] = d
    BY <1>1
  <2>3. flight' = [g \in Flights |-> flight'[g]]
    BY <1>1
  <2>4. \A g \in Flights : flight'[g] \in Record
    BY <1>4, <2>1, <2>2
  <2>5. flight' \in [Flights -> Record]
    BY <2>3, <2>4
  <2> QED BY <2>1, <2>2, <2>5 DEF OthersKeep
<1>6. IsFiniteSet(c.tried) /\ Cardinality(c.tried) <= MaxSpill
  BY <1>1 DEF FlightOK
<1>7. FlightOK(f, d, box[f])
  <2>1. CASE c.answer = "none"
    <3>1. DecidingOK(d, box[f])
      BY <1>3, <1>4, <2>1 DEF LeavingOK, DecidingOK
    <3> QED BY <1>3, <1>4, <1>6, <2>1, <3>1 DEF FlightOK, Attempting, LeavingOK
  <2>2. CASE c.answer # "none"
    <3>1. DoneOK(f, d, box[f])
      BY <1>3, <1>4, <2>2 DEF LeavingOK, DoneOK, NoMine, MineOnly
    <3>2. IsFiniteSet({}) /\ Cardinality({}) <= MaxSpill
      BY FS_EmptySet, ClaimAssumption
    <3> QED BY <1>4, <2>2, <3>1, <3>2 DEF FlightOK, Deciding, Attempting
  <2> QED BY <2>1, <2>2
<1>8. /\ inUse \in [Providers -> Nat] /\ reserved \in [Providers -> Nat] /\ active \in Nat
      /\ \A p \in Providers : inUse[p] <= Limit
      /\ box \in [Flights -> [Providers -> Boxes]]
  BY DEF IInv, TypeOK, Slots
<1>9. /\ inUse' = inUse /\ reserved' = reserved /\ box' = box
      /\ closing' = closing /\ active' = active /\ closes' = closes
  BY <1>1 DEF outside, shutdown
<1>10. c.at = "notify" /\ d.at \in {"decide", "done"}
  BY <1>1, <1>4
<1>11. ASSUME NEW p \in Providers
       PROVE  /\ SlotBit(c, p) = 0 /\ SlotBit(d, p) = 0
              /\ TicketBit(d, p) = TicketBit(c, p) /\ KeptBit(d, p) = KeptBit(c, p)
              /\ {TicketBit(c, p), KeptBit(c, p)} \subseteq {0, 1}
  <2>1. SlotBit(c, p) = 0 /\ SlotBit(d, p) = 0
    BY <1>10 DEF SlotBit, Bit, Attempting
  <2>2. KeptBit(d, p) = KeptBit(c, p)
    BY <1>4 DEF KeptBit
  <2>3. TicketBit(d, p) = TicketBit(c, p)
    <3>1. CASE c.answer = "none"
      BY <1>3, <1>4, <3>1 DEF LeavingOK, TicketBit, Bit
    <3>2. CASE c.answer = "failed"
      BY <1>3, <1>4, <3>2 DEF LeavingOK, TicketBit, Bit
    <3>3. CASE c.answer \in {"ok", "unknown"}
      BY <1>4, <1>10, <3>3 DEF TicketBit
    <3> QED BY <1>1, <3>1, <3>2, <3>3 DEF Record, Answers
  <2> QED BY <2>1, <2>2, <2>3 DEF TicketBit, KeptBit, Bit
<1>12. CallBit(c) = 0 /\ CallBit(d) = 0
  BY <1>10 DEF CallBit, Calls, Bit
<1>13. flight[f] = c
  BY DEF c
<1>14. ASSUME NEW p \in Providers
       PROVE  /\ inUse'[p] = inUse[p] + SlotBit(flight'[f], p) - SlotBit(flight[f], p)
              /\ inUse'[p] <= Limit
              /\ reserved'[p] = reserved[p]
                   + TicketBit(flight'[f], p) + KeptBit(flight'[f], p)
                   - TicketBit(flight[f], p) - KeptBit(flight[f], p)
  BY <1>5, <1>8, <1>9, <1>11, <1>13
<1>15. /\ active' = active + CallBit(flight'[f]) - CallBit(flight[f])
       /\ CallBit(flight'[f]) = 0 /\ CallBit(flight[f]) = 0
       /\ inUse' \in [Providers -> Int] /\ reserved' \in [Providers -> Int]
  BY <1>5, <1>8, <1>9, <1>12, <1>13
<1>16. Balance(f)
  BY <1>9, <1>14, <1>15 DEF Balance
<1> QED BY <1>5, <1>7, <1>8, <1>9, <1>16, FlightStep

\* The parts of the invariant that speak of the flights and their boxes only.
LEMMA SameFlights ==
    ASSUME IInv, UNCHANGED <<flight, inUse, reserved, active>>, FlightsOK',
           box' \in [Flights -> [Providers -> Boxes]],
           closing' \in BOOLEAN, closes' \in Nat, Closes'
    PROVE  IInv'
<1>1. /\ Calling' = Calling
      /\ \A p : InSlot(p)' = InSlot(p) /\ Holders(p)' = Holders(p) /\ Keepers(p)' = Keepers(p)
  BY DEF Calling, InSlot, Claiming, Holders, Held, At, Keepers
<1>2. Finite' /\ Slots' /\ Tickets' /\ Attempts'
  BY <1>1 DEF IInv, Finite, Slots, Tickets, Attempts
<1>3. TypeOK'
  BY DEF IInv, TypeOK
<1> QED BY <1>2, <1>3 DEF IInv

LEMMA ShutdownInv ==
    ASSUME IInv, Shutdown
    PROVE  IInv'
<1>1. /\ ~closing /\ closing' = TRUE /\ UNCHANGED <<flight, box, inUse, reserved, active>>
      /\ closes' = IF active = 0 THEN closes + 1 ELSE closes
  BY DEF Shutdown
<1>2. closes = 0 /\ Calling' = Calling /\ (Calling = {} <=> active = 0)
  BY <1>1, FS_EmptySet DEF IInv, Closes, Attempts, Finite, Calling
<1>3. Closes' /\ closes' \in Nat
  BY <1>1, <1>2 DEF Closes
<1>4. FlightsOK' /\ box' \in [Flights -> [Providers -> Boxes]]
  BY <1>1 DEF IInv, FlightsOK, TypeOK
<1> QED BY <1>1, <1>3, <1>4, SameFlights

LEMMA DeletedInv ==
    ASSUME IInv, NEW f \in Flights, NEW q \in Providers, Deleted(f, q)
    PROVE  IInv'
<1>1. /\ box[f][q] = "dying" /\ box' = [box EXCEPT ![f][q] = "none"]
      /\ UNCHANGED <<flight, inUse, reserved, closing, active, closes>>
  BY DEF Deleted, shutdown
<1>2. box \in [Flights -> [Providers -> Boxes]]
  BY DEF IInv, TypeOK
<1>3. /\ box' \in [Flights -> [Providers -> Boxes]]
      /\ \A g \in Flights, p \in Providers : box'[g][p] = "mine" <=> box[g][p] = "mine"
  BY <1>1, <1>2 DEF Boxes
<1>4. ASSUME NEW g \in Flights PROVE FlightOK(g, flight'[g], box'[g])
  <2>1. FlightOK(g, flight[g], box[g]) /\ flight'[g] = flight[g]
    BY <1>1 DEF IInv, FlightsOK
  <2>2. /\ NoMine(box'[g]) <=> NoMine(box[g])
        /\ \A p : MineOnly(box'[g], p) <=> MineOnly(box[g], p)
    BY <1>3 DEF NoMine, MineOnly
  <2>3. /\ flight[g].at = "done" /\ flight[g].answer = "ok"
              => (box'[g][flight[g].on] = "mine" <=> box[g][flight[g].on] = "mine")
        /\ flight[g].on \in Providers
              => (box'[g][flight[g].on] = "mine" <=> box[g][flight[g].on] = "mine")
    <3>1. flight[g].on \in Providers \/ (g = f => flight[g].at # "done")
      BY DEF Deleted, At
    <3> QED BY <1>1, <1>2, <1>3, <3>1
  <2> QED BY <2>1, <2>2, <2>3 DEF FlightOK, DecidingOK, AttemptOK, LeavingOK, DoneOK
<1>5. FlightsOK'
  BY <1>4 DEF FlightsOK
<1>6. closing' \in BOOLEAN /\ closes' \in Nat /\ Closes'
  BY <1>1 DEF IInv, TypeOK, Closes, Calling
<1> QED BY <1>1, <1>3, <1>5, <1>6, SameFlights

LEMMA InitInv ==
    ASSUME Init
    PROVE  IInv
<1>1. /\ flight = [f \in Flights |-> NewFlight] /\ box \in InitBoxes
      /\ inUse = [p \in Providers |-> 0] /\ reserved = [p \in Providers |-> 0]
      /\ closing = FALSE /\ active = 0 /\ closes = 0
  BY DEF Init
<1>2. NewFlight \in Record /\ NewFlight.at = "decide" /\ NewFlight.kept = {}
  BY DEF NewFlight, Record, Places
<1>3. box \in [Flights -> [Providers -> {"none", "other", "dying"}]]
  BY <1>1, ClaimAssumption
<1>4. Limit \in Nat /\ MaxSpill \in Nat
  BY ClaimAssumption
<1>5. IsFiniteSet({}) /\ Cardinality({}) = 0
  BY FS_EmptySet
<1>6. TypeOK
  <2>1. box \in [Flights -> [Providers -> Boxes]]
    BY <1>3 DEF Boxes
  <2> QED BY <1>1, <1>2, <2>1 DEF TypeOK, Record
<1>7. FlightsOK
  <2> SUFFICES ASSUME NEW f \in Flights PROVE FlightOK(f, flight[f], box[f])
    BY DEF FlightsOK
  <2>1. flight[f] = NewFlight
    BY <1>1
  <2>2. NoMine(box[f])
    BY <1>3 DEF NoMine
  <2>3. FlightOK(f, NewFlight, box[f])
    BY <1>4, <1>5, <2>2 DEF NewFlight, FlightOK, DecidingOK, Deciding, Attempting
  <2> QED BY <2>1, <2>3
<1>8. /\ Calling = {}
      /\ \A p \in Providers : InSlot(p) = {} /\ Holders(p) = {} /\ Keepers(p) = {}
  BY <1>1, <1>2 DEF Calling, InSlot, Claiming, Holders, Held, At, Keepers
<1>9. Finite /\ Attempts /\ Closes
  BY <1>1, <1>5, <1>8 DEF Finite, Attempts, Closes
<1>10. Slots /\ Tickets
  BY <1>1, <1>4, <1>5, <1>8 DEF Slots, Tickets
<1> QED BY <1>6, <1>7, <1>9, <1>10 DEF IInv

LEMMA NextInv ==
    ASSUME IInv, [Next]_vars
    PROVE  IInv'
<1>1. ASSUME NEW f \in Flights, Step(f) PROVE IInv'
  <2>1. CASE \E p \in Providers : Acquire(f, p)
    BY <2>1, AcquireInv
  <2>2. CASE \/ \E p \in Providers : \/ SlotsFull(f, p) \/ CheckOpen(f, p)
                                     \/ CheckFull(f, p) \/ Subscribe(f, p)
             \/ WaitForSlot(f) \/ Wake(f)
    BY <2>2, WaitingInv
  <2>3. CASE Exhausted(f) \/ QueueTimeout(f)
    BY <2>3, GivesUpInv
  <2>4. CASE ReserveWarm(f) \/ ReserveCold(f)
    BY <2>4, ReserveWarmInv, ReserveColdInv
  <2>5. CASE LostRace(f) \/ BusyEnds(f) \/ RecoveryEnds(f)
    BY <2>5, EndsInv
  <2>6. CASE InvokeClaim(f) \/ CallLookup(f)
    BY <2>6, StartInv
  <2>7. CASE ClaimShutOut(f) \/ ClaimReturns(f) \/ LookupReturns(f)
    BY <2>7, ClaimShutOutInv, ClaimReturnsInv, LookupReturnsInv
  <2>8. CASE ReleaseSlot(f) \/ Notify(f)
    BY <2>8, ReleaseSlotInv, NotifyInv
  <2> QED BY <1>1, <2>1, <2>2, <2>3, <2>4, <2>5, <2>6, <2>7, <2>8 DEF Step
<1>2. ASSUME NEW f \in Flights, NEW p \in Providers, Deleted(f, p) PROVE IInv'
  BY <1>2, DeletedInv
<1>3. CASE UNCHANGED vars
  <2>1. UNCHANGED <<flight, box, inUse, reserved, closing, active, closes>>
    BY <1>3 DEF vars
  <2>2. /\ FlightsOK' /\ box' \in [Flights -> [Providers -> Boxes]]
        /\ closing' \in BOOLEAN /\ closes' \in Nat /\ Closes'
    BY <2>1 DEF IInv, TypeOK, FlightsOK, Closes, Calling
  <2> QED BY <2>1, <2>2, SameFlights
<1> QED BY <1>1, <1>2, <1>3, ShutdownInv DEF Next

\* The invariant the theorems below are read from.
LEMMA AlwaysIInv == Spec => []IInv
  BY InitInv, NextInv, PTL DEF Spec

-----------------------------------------------------------------------------
(* What is so of every reachable state.                                    *)

\* claimLoop's variables, the limiters, the ledger and the Binder's shutdown fields
\* (binder.go:457-495, slots.go) stay within their types: in particular no counter
\* goes below zero, whichever way attempts end.
THEOREM TypeCorrect == Spec => []TypeOK
<1>1. IInv => TypeOK
  BY DEF IInv
<1> QED BY <1>1, AlwaysIInv, PTL

\* Every attempt gives its slot back exactly once and no provider has more than its
\* maxInFlight under way (slots.go:12-18); no flight spills more than maxSpill times;
\* Shutdown's channel is closed once, when the last attempt is over (binder.go:457-495).
THEOREM BalancedAlways == Spec => []Balanced
<1>1. ASSUME IInv PROVE Balanced
  <2>1. TypeOK /\ Attempts /\ Closes
    BY <1>1 DEF IInv
  <2>2. \A p \in Providers :
           inUse[p] = Cardinality({f \in Flights : Claiming(f, p)}) /\ inUse[p] <= Limit
    BY <1>1 DEF IInv, Slots, InSlot
  <2>3. \A f \in Flights : Cardinality(flight[f].tried) <= MaxSpill
    BY <1>1 DEF IInv, FlightsOK, FlightOK
  <2> QED BY <2>1, <2>2, <2>3 DEF Balanced, Attempts, Closes
<1> QED BY <1>1, AlwaysIInv, PTL

\* The sandboxes of a flight are all at one provider, wherever the flight is.
LEMMA OnePlace ==
    ASSUME IInv, NEW f \in Flights
    PROVE  \E q : MineOnly(box[f], q)
<1>1. flight[f] \in Record /\ FlightOK(f, flight[f], box[f])
  BY FlightKnown
<1>2. flight[f].at \in Deciding \cup Attempting \cup {"leave", "notify", "done"}
  BY <1>1 DEF Record, Places, Deciding, Attempting
<1>3. CASE flight[f].at \in Deciding
  BY <1>1, <1>3 DEF FlightOK, DecidingOK, NoMine, MineOnly
<1>4. CASE flight[f].at \in Attempting \cup {"leave", "notify", "done"}
  BY <1>1, <1>4 DEF FlightOK, AttemptOK, LeavingOK, DoneOK
<1> QED BY <1>2, <1>3, <1>4

\* However its claims are refused, lost, retried and spilled, a flight leaves at most
\* one sandbox behind (recoverUnknownOutcome, binder.go).
THEOREM OneSandboxAlways == Spec => []OneSandbox
<1>1. ASSUME IInv PROVE OneSandbox
  <2> SUFFICES ASSUME NEW f \in Flights
               PROVE  Cardinality({p \in Providers : box[f][p] = "mine"}) <= 1
    BY DEF OneSandbox
  <2> DEFINE M == {p \in Providers : box[f][p] = "mine"}
  <2>1. PICK q : MineOnly(box[f], q)
    BY <1>1, OnePlace
  <2>2. M \subseteq {q}
    BY <2>1 DEF MineOnly
  <2>3. IsFiniteSet({q}) /\ Cardinality({q}) = 1
    BY FS_Singleton
  <2>4. Cardinality(M) <= Cardinality({q})
    BY <2>2, <2>3, FS_Subset
  <2> QED BY <2>3, <2>4
<1> QED BY <1>1, AlwaysIInv, PTL

\* An answer of the claim loop is true of the providers: a sandbox that it names is
\* there, a claim that it calls failed left none (binder.go, claimLoop).
THEOREM AnswersAreTrueAlways == Spec => []AnswersAreTrue
<1>1. ASSUME IInv PROVE AnswersAreTrue
  <2> SUFFICES ASSUME NEW f \in Flights, At(f, "done")
               PROVE  CASE flight[f].answer = "ok"      -> box[f][On(f)] = "mine"
                        [] flight[f].answer = "unknown" -> TRUE
                        [] OTHER -> \A p \in Providers : box[f][p] # "mine"
    BY DEF AnswersAreTrue
  <2>1. flight[f] \in Record /\ DoneOK(f, flight[f], box[f])
    BY <1>1, FlightKnown DEF FlightOK, At
  <2>2. flight[f].answer \in {"ok", "failed", "unknown"}
    BY <2>1 DEF Record, Answers, DoneOK
  <2> QED BY <2>1, <2>2 DEF DoneOK, NoMine, On
<1> QED BY <1>1, AlwaysIInv, PTL

\* Once a provider said that it is deleting the key's last sandbox, the flight creates
\* one there or nowhere (retryPinnedKeyBusy, binder.go).
THEOREM OnlyWhereBusyAlways == Spec => []OnlyWhereBusy
<1>1. ASSUME IInv PROVE OnlyWhereBusy
  <2> SUFFICES ASSUME NEW f \in Flights, NEW p \in flight[f].told, NEW q \in Providers,
                      box[f][q] = "mine"
               PROVE  q = p
    BY DEF OnlyWhereBusy
  <2>1. flight[f] \in Record /\ FlightOK(f, flight[f], box[f])
    BY <1>1, FlightKnown
  <2>2. flight[f].at \in Deciding \cup Attempting \cup {"leave", "notify", "done"}
    BY <2>1 DEF Record, Places, Deciding, Attempting
  <2>3. flight[f].at \notin Deciding \cup {"done"}
    BY <2>1 DEF FlightOK, DecidingOK, DoneOK
  <2>4. flight[f].told \subseteq {flight[f].on} /\ MineOnly(box[f], flight[f].on)
    BY <2>1, <2>2, <2>3 DEF FlightOK, AttemptOK, LeavingOK
  <2> QED BY <2>4 DEF MineOnly
<1> QED BY <1>1, AlwaysIInv, PTL

\* A reservation outlives its attempt only for a sandbox that was, or may have been,
\* handed out, or where the provider said it has none left; none is given back twice.
THEOREM TicketsSettledAlways == Spec => []TicketsSettled
<1>1. ASSUME IInv PROVE TicketsSettled
  BY <1>1 DEF IInv, Tickets, TicketsSettled, Holders, Keepers
<1> QED BY <1>1, AlwaysIInv, PTL

\* A warm-only request is answered with a sandbox only if one was reserved for it and
\* still is (attemptProvider, retryPinnedKeyBusy and recoverUnknownOutcome, binder.go).
THEOREM WarmHonouredAlways == Spec => []WarmHonoured
<1>1. ASSUME IInv PROVE WarmHonoured
  <2> SUFFICES ASSUME NEW f \in WarmOnly, At(f, "done"), flight[f].answer = "ok"
               PROVE  flight[f].ticket
    BY DEF WarmHonoured
  <2>1. f \in Flights
    BY ClaimAssumption
  <2> QED BY <1>1, <2>1, FlightKnown DEF FlightOK, DoneOK, At
<1> QED BY <1>1, AlwaysIInv, PTL

=============================================================================
