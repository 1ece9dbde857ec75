---------------------------- MODULE LedgerProofs ----------------------------
(***************************************************************************)
(* Proofs about Ledger for every number of callers, ring size, word width  *)
(* and set of reports: the reservations outstanding are exactly the sum of *)
(* what the buckets, carry, the poller and the callers' hands hold, hence  *)
(* the unchecked subtraction never wraps and the ledger implements         *)
(* WarmCounter.                                                            *)
(*                                                                         *)
(* The sum is the size of the set of all units counted, so that a step     *)
(* that changes one or two cells removes some and adds some, and no        *)
(* induction over the cells is needed.                                     *)
(***************************************************************************)
EXTENDS Ledger, TLAPS, FiniteSetTheorems

\* What the first n values of f count, one by one.
Units(f, n) == UNION {{i} \X (1..f[i]) : i \in 0..(n - 1)}

\* The first n values of f add up to total.
AddUp(f, n, total) == IsFiniteSet(Units(f, n)) /\ Cardinality(Units(f, n)) = total

\* Values that are all zero add up to zero.
LEMMA AddUpZero ==
    ASSUME NEW n \in Nat, NEW f, \A i \in 0..(n - 1) : f[i] = 0
    PROVE  AddUp(f, n, 0)
<1>1. Units(f, n) = {}
  BY DEF Units
<1> QED BY <1>1, FS_EmptySet DEF AddUp

\* The units of one value.
LEMMA UnitsOfOne ==
    ASSUME NEW k, NEW v \in Nat
    PROVE  IsFiniteSet({k} \X (1..v)) /\ Cardinality({k} \X (1..v)) = v
<1>1. IsFiniteSet({k}) /\ Cardinality({k}) = 1
  BY FS_Singleton
<1>2. IsFiniteSet(1..v) /\ Cardinality(1..v) = v
  <2>1. /\ IsFiniteSet(1..v)
        /\ Cardinality(1..v) = IF 1 > v THEN 0 ELSE v - 1 + 1
    BY FS_Interval
  <2> QED BY <2>1
<1>3. /\ IsFiniteSet({k} \X (1..v))
      /\ Cardinality({k} \X (1..v)) = Cardinality({k}) * Cardinality(1..v)
  BY <1>1, <1>2, FS_Product
<1> QED BY <1>1, <1>2, <1>3

\* One value changes and the total changes with it; no value exceeds the total.
LEMMA AddUpChange ==
    ASSUME NEW n \in Nat, NEW f \in [0..(n - 1) -> Nat], NEW total \in Nat,
           AddUp(f, n, total), NEW k \in 0..(n - 1), NEW v \in Nat
    PROVE  /\ f[k] <= total
           /\ AddUp([f EXCEPT ![k] = v], n, total - f[k] + v)
<1> DEFINE g   == [f EXCEPT ![k] = v]
           Old == {k} \X (1..f[k])
           New == {k} \X (1..v)
           Others == Units(f, n) \ Old
<1>1. f[k] \in Nat /\ \A i \in 0..(n - 1) : i # k => g[i] = f[i]
  OBVIOUS
<1>2. g[k] = v
  OBVIOUS
<1> HIDE DEF g
<1>3. /\ IsFiniteSet(Old) /\ Cardinality(Old) = f[k]
      /\ IsFiniteSet(New) /\ Cardinality(New) = v
  BY <1>1, UnitsOfOne
<1>4. Old \subseteq Units(f, n)
  BY DEF Units
<1>5. \A x \in Others : \E i \in 0..(n - 1) : i # k /\ x \in {i} \X (1..f[i])
  BY DEF Units
<1>6. Others \cap New = {}
  BY <1>5
<1>7. Units(g, n) = Others \cup New
  <2>1. ASSUME NEW i \in 0..(n - 1), i # k PROVE {i} \X (1..f[i]) \subseteq Others
    BY <2>1 DEF Units
  <2>2. Units(g, n) \subseteq Others \cup New
    <3> SUFFICES ASSUME NEW i \in 0..(n - 1)
                 PROVE  {i} \X (1..g[i]) \subseteq Others \cup New
      BY DEF Units
    <3>1. CASE i = k
      BY <1>2, <3>1
    <3>2. CASE i # k
      BY <1>1, <2>1, <3>2
    <3> QED BY <3>1, <3>2
  <2>3. New \subseteq Units(g, n)
    BY <1>2 DEF Units
  <2>4. Others \subseteq Units(g, n)
    BY <1>1, <1>5 DEF Units
  <2> QED BY <2>2, <2>3, <2>4
<1> HIDE DEF Old, New
<1>8. IsFiniteSet(Units(f, n)) /\ Cardinality(Units(f, n)) = total
  BY DEF AddUp
<1>9. f[k] <= total
  BY <1>3, <1>4, <1>8, FS_Subset
<1>10. IsFiniteSet(Others) /\ Cardinality(Others) = total - f[k]
  <2>1. Units(f, n) \cap Old = Old
    BY <1>4
  <2>2. /\ IsFiniteSet(Units(f, n) \ Old)
        /\ Cardinality(Units(f, n) \ Old) =
              Cardinality(Units(f, n)) - Cardinality(Units(f, n) \cap Old)
    BY <1>8, FS_Difference, Zenon
  <2> QED BY <1>3, <1>8, <2>1, <2>2
<1> HIDE DEF Others
<1>11. /\ IsFiniteSet(Others \cup New)
       /\ Cardinality(Others \cup New) = total - f[k] + v
  <2>1. /\ IsFiniteSet(Others \cup New)
        /\ Cardinality(Others \cup New) =
              Cardinality(Others) + Cardinality(New) - Cardinality(Others \cap New)
    BY <1>3, <1>10, FS_Union
  <2>2. Cardinality(Others \cap New) = 0
    BY <1>6, FS_EmptySet
  <2> QED BY <1>1, <1>3, <1>10, <2>1, <2>2
<1> QED BY <1>7, <1>9, <1>11 DEF AddUp, g

\* Moving counts between two cells keeps the total; the two are bounded by it.
LEMMA AddUpMove ==
    ASSUME NEW n \in Nat, NEW f \in [0..(n - 1) -> Nat], NEW total \in Nat,
           AddUp(f, n, total),
           NEW a \in 0..(n - 1), NEW b \in 0..(n - 1), a # b,
           NEW x \in Nat, NEW y \in Nat, x + y = f[a] + f[b]
    PROVE  /\ f[a] + f[b] <= total
           /\ AddUp([f EXCEPT ![a] = x, ![b] = y], n, total)
<1>0. f[a] \in Nat /\ f[b] \in Nat
  OBVIOUS
<1> DEFINE g == [f EXCEPT ![a] = f[a] + f[b]]
           t == total + f[b]
<1>1. f[a] <= total /\ AddUp(g, n, total - f[a] + (f[a] + f[b]))
  <2>1. f[a] + f[b] \in Nat
    BY <1>0
  <2>2. \A v \in Nat : /\ f[a] <= total
                       /\ AddUp([f EXCEPT ![a] = v], n, total - f[a] + v)
    BY AddUpChange
  <2> QED BY <2>1, <2>2
<1>2. AddUp(g, n, t) /\ t \in Nat
  BY <1>0, <1>1
<1>3. g \in [0..(n - 1) -> Nat] /\ g[b] = f[b] /\ g[a] = f[a] + f[b]
  BY <1>0
<1> HIDE DEF g, t
<1>4. AddUp([g EXCEPT ![b] = 0], n, t - g[b] + 0)
  BY AddUpChange, <1>2, <1>3
<1> DEFINE h == [g EXCEPT ![b] = 0]
<1>5. h \in [0..(n - 1) -> Nat] /\ h[a] = f[a] + f[b] /\ h[b] = 0
  BY <1>3
<1>6. AddUp(h, n, total)
  BY <1>0, <1>3, <1>4 DEF t
<1> HIDE DEF h
<1>7. f[a] + f[b] <= total /\ AddUp([h EXCEPT ![a] = x], n, total - h[a] + x)
  BY AddUpChange, <1>5, <1>6
<1> DEFINE k == [h EXCEPT ![a] = x]
           s == total - h[a] + x
<1>8. /\ k \in [0..(n - 1) -> Nat] /\ k[b] = 0 /\ s \in Nat
  <2>1. k \in [0..(n - 1) -> Nat] /\ k[b] = 0
    BY <1>5
  <2>2. s \in Nat
    <3>1. h[a] = f[a] + f[b] /\ f[a] + f[b] <= total
      BY <1>5, <1>7
    <3> HIDE DEF k
    <3> QED BY <1>0, <3>1
  <2> QED BY <2>1, <2>2
<1>9. AddUp(k, n, s)
  BY <1>7
<1> HIDE DEF k, s
<1>10. AddUp([k EXCEPT ![b] = y], n, s - k[b] + y)
  BY AddUpChange, <1>8, <1>9
<1>11. s - k[b] + y = total
  BY <1>0, <1>5, <1>7, <1>8 DEF s
<1>12. [k EXCEPT ![b] = y] = [f EXCEPT ![a] = x, ![b] = y]
  BY <1>0 DEF k, h, g
<1> QED BY <1>7, <1>10, <1>11, <1>12

\* The same two facts for a function g given by its values.
LEMMA AddUpChanged ==
    ASSUME NEW n \in Nat, NEW total \in Nat,
           NEW f \in [0..(n - 1) -> Nat], NEW g \in [0..(n - 1) -> Nat],
           AddUp(f, n, total), NEW k \in 0..(n - 1),
           \A i \in 0..(n - 1) : i # k => g[i] = f[i]
    PROVE  f[k] <= total /\ AddUp(g, n, total - f[k] + g[k])
<1>1. \A v \in Nat : f[k] <= total
                     /\ AddUp([f EXCEPT ![k] = v], n, total - f[k] + v)
  BY AddUpChange
<1>2. g[k] \in Nat /\ g = [f EXCEPT ![k] = g[k]]
  OBVIOUS
<1> QED BY <1>1, <1>2

LEMMA AddUpMoved ==
    ASSUME NEW n \in Nat, NEW total \in Nat,
           NEW f \in [0..(n - 1) -> Nat], NEW g \in [0..(n - 1) -> Nat],
           AddUp(f, n, total),
           NEW a \in 0..(n - 1), NEW b \in 0..(n - 1), a # b,
           g[a] + g[b] = f[a] + f[b],
           \A i \in 0..(n - 1) : i # a /\ i # b => g[i] = f[i]
    PROVE  f[a] + f[b] <= total /\ AddUp(g, n, total)
<1>1. \A x, y \in Nat : x + y = f[a] + f[b] =>
        f[a] + f[b] <= total /\ AddUp([f EXCEPT ![a] = x, ![b] = y], n, total)
  BY AddUpMove
<1>2. g[a] \in Nat /\ g[b] \in Nat /\ g = [f EXCEPT ![a] = g[a], ![b] = g[b]]
  OBVIOUS
<1> QED BY <1>1, <1>2

-----------------------------------------------------------------------------
(* Types.                                                                  *)

LEMMA SlotType == \A s \in Nat : SlotOf(s) \in Slots
BY LedgerAssumption DEF SlotOf, Slots

\* The functions of one word stay within a word.
LEMMA WordTypes ==
    /\ \A a, b \in Half : Plus(a, b) \in Half /\ Minus(a, b) \in Half
    /\ \A n \in Int : Clamp(n) \in Half
    /\ Empty \in Word
    /\ \A w \in Word, s \in Half :
          Added(w, s) \in Word /\ Spilled(w, s) \in Word /\ Taken(w) \in Word
    /\ \A w, h \in Word : Merged(w, h) \in Word
<1>1. MaxWord \in Nat \ {0}
  BY LedgerAssumption
<1>2. \A a, b \in Half : Plus(a, b) \in Half /\ Minus(a, b) \in Half
  BY <1>1 DEF Plus, Minus, Half
<1>3. \A n \in Int : Clamp(n) \in Half
  BY <1>1 DEF Clamp, Half
<1>4. Empty \in Word /\ 1 \in Half
  BY <1>1 DEF Empty, Word, Half
<1>5. \A w \in Word, s \in Half :
          Added(w, s) \in Word /\ Spilled(w, s) \in Word
  BY <1>2, <1>4 DEF Added, Spilled, Word
<1>6. \A w \in Word : Taken(w) \in Word
  <2>1. \A n \in Half : n > 1 => n - 1 \in Half
    BY <1>1 DEF Half
  <2> QED BY <1>4, <2>1 DEF Taken, Word
<1>7. \A w, h \in Word : Merged(w, h) \in Word
  BY <1>2 DEF Merged, Word
<1> QED BY <1>2, <1>3, <1>4, <1>5, <1>6, <1>7

\* The steps of a caller keep the types.
LEMMA CallerTypes ==
    ASSUME TypeOK, NEW c \in Callers,
           (\E now \in Seconds : Reserve(c, now)) \/ Finish(c)
    PROVE  TypeOK'
<1> USE LedgerAssumption, WordTypes DEF TypeOK
<1>0. /\ Seconds \subseteq Half /\ 0 \in Half /\ 1 \in Half
      /\ \A n \in Half : [sec |-> n, count |-> 1] \in Word
      /\ Half \subseteq Nat
      /\ \A n \in Half : n # 0 => n - 1 \in Half
  <2>1. /\ Seconds \subseteq Half /\ 0 \in Half /\ 1 \in Half
        /\ Half \subseteq Nat
    BY DEF Half
  <2>2. \A n \in Half : n # 0 => n - 1 \in Half
    BY DEF Half
  <2> QED BY <2>1, <2>2 DEF Word
<1>1. ASSUME NEW now \in Seconds, Reserve(c, now) PROVE TypeOK'
  <2>1. now \in Half /\ [sec |-> now, count |-> 1] \in Word
    BY <1>0
  <2>2. Plus(state.out, 1) \in Half
    BY <1>0
  <2>3. state' \in [warm : Half, out : Half]
    BY <1>1, <2>2 DEF Reserve
  <2>4. /\ pc' = [pc EXCEPT ![c] = "record"]
        /\ ticket' \in [Callers -> Half]
        /\ hand' \in [Callers -> Word]
    BY <1>1, <2>1 DEF Reserve, Goto
  <2> QED BY <1>1, <2>3, <2>4 DEF Reserve
<1>2. CASE Record(c)
  <2> DEFINE i == SlotOf(ticket[c])
  <2>1. i \in Slots /\ ring[i] \in Word /\ ticket[c] \in Half
    BY <1>0, SlotType
  <2>2. Added(ring[i], ticket[c]) \in Word /\ Spilled(ring[i], ticket[c]) \in Word
    BY <2>1
  <2>3. ring' \in [Slots -> Word]
    BY <1>2, <2>1, <2>2 DEF Record
  <2>4. hand' \in [Callers -> Word]
    BY <1>2, <2>2 DEF Record
  <2>5. pc' = [pc EXCEPT ![c] = "carry"] \/ pc' = [pc EXCEPT ![c] = "held"]
    BY <1>2 DEF Record, Goto
  <2> QED BY <1>2, <2>3, <2>4, <2>5 DEF Record
<1>3. CASE AddCarry(c)
  BY <1>0, <1>3 DEF AddCarry, Goto
<1>4. CASE Keep(c)
  BY <1>0, <1>4 DEF Keep, Reset, Goto
<1>5. CASE ReleaseAt(c)
  BY <1>0, <1>5, SlotType DEF ReleaseAt, Goto
<1>6. CASE TestCleared(c)
  BY <1>0, <1>6 DEF TestCleared, Reset, Goto
<1>7. ASSUME NEW m, TakeFromCarry(c, m) PROVE TypeOK'
  BY <1>0, <1>7 DEF TakeFromCarry, Reset, Goto
<1>8. CASE Decrement(c)
  <2>1. state.out # 0 => state.out - 1 \in Half
    BY <1>0
  <2> QED BY <1>0, <1>8, <2>1 DEF Decrement, Reset, Goto
<1>9. ASSUME NEW now \in Seconds, Release(c, now) PROVE TypeOK'
  BY <1>0, <1>9 DEF Release, Goto
<1>10. CASE TakeOne(c)
  <2>1. ticket[c] \in Nat /\ scan[c] \in 0..RingSize /\ RingSize \in Nat
    BY <1>0
  <2>2. ticket[c] + RingSize - scan[c] \in Nat
    BY <2>1
  <2>3. SlotOf(ticket[c] + RingSize - scan[c]) \in Slots
    BY <2>2, SlotType
  <2> QED BY <1>0, <1>10, <2>1, <2>3 DEF TakeOne, Goto
<1> QED BY <1>1, <1>2, <1>3, <1>4, <1>5, <1>6, <1>7, <1>8, <1>9, <1>10
        DEF Finish, TakeCarryAt, TakeCarryAny

\* The steps of the poller keep the types.
LEMMA PollerTypes ==
    ASSUME TypeOK,
           (\E n \in Reports, cutoff \in Cutoffs : Poll(n, cutoff)) \/ PollerStep
    PROVE  TypeOK'
<1> USE LedgerAssumption, WordTypes DEF TypeOK
<1>0. Cutoffs \subseteq Half /\ 0 \in Half /\ 0 \in 0..RingSize
  BY DEF Half
<1>1. ASSUME NEW n \in Reports, NEW cutoff \in Cutoffs, SetWarm(n, cutoff)
      PROVE  TypeOK'
  BY <1>0, <1>1 DEF SetWarm, Idle
<1>2. CASE RaiseCleared
  BY <1>0, <1>2 DEF RaiseCleared
<1>3. CASE DropBucket
  <2>1. poller.slot \in Slots /\ poller.slot + 1 \in 0..RingSize
    BY <1>3 DEF DropBucket, Slots
  <2>2. ring[poller.slot].count \in Half
    BY <2>1 DEF Word
  <2>3. Plus(poller.freed, ring[poller.slot].count) \in Half
    BY <2>2
  <2>4. poller' \in [at : {"idle", "raise", "drop", "free"}, cutoff : Half,
                     slot : 0..RingSize, freed : Half]
    <3>1. CASE Droppable(ring[poller.slot], poller.cutoff)
      <4>1. poller' = [poller EXCEPT !.slot = poller.slot + 1,
                         !.freed = Plus(poller.freed, ring[poller.slot].count)]
        BY <1>3, <3>1 DEF DropBucket
      <4> QED BY <4>1, <2>1, <2>3
    <3>2. CASE ~Droppable(ring[poller.slot], poller.cutoff)
      <4>1. poller' = [poller EXCEPT !.slot = poller.slot + 1]
        BY <1>3, <3>2 DEF DropBucket
      <4> QED BY <4>1, <2>1
    <3> QED BY <3>1, <3>2
  <2>5. ring' \in [Slots -> Word]
    BY <1>3 DEF DropBucket
  <2> QED BY <1>3, <2>4, <2>5 DEF DropBucket
<1>4. CASE DropCarry
  <2>1. carry.count \in Half
    BY DEF Word
  <2>2. Plus(poller.freed, carry.count) \in Half
    BY <2>1
  <2>3. poller' \in [at : {"idle", "raise", "drop", "free"}, cutoff : Half,
                     slot : 0..RingSize, freed : Half]
    <3>1. CASE Droppable(carry, poller.cutoff)
      <4>1. poller' = [poller EXCEPT !.at = "free",
                         !.freed = Plus(poller.freed, carry.count)]
        BY <1>4, <3>1 DEF DropCarry
      <4> QED BY <4>1, <2>2
    <3>2. CASE ~Droppable(carry, poller.cutoff)
      <4>1. poller' = [poller EXCEPT !.at = "free"]
        BY <1>4, <3>2 DEF DropCarry
      <4> QED BY <4>1
    <3> QED BY <3>1, <3>2
  <2> QED BY <1>4, <2>3 DEF DropCarry
<1>5. CASE SubtractFreed
  BY <1>0, <1>5 DEF SubtractFreed, Idle
<1> QED BY <1>1, <1>2, <1>3, <1>4, <1>5 DEF Poll, PollerStep

\* Type correctness of the ledger, for every constant: the halves of every
\* word stay within 32 bits and every thread is at a place the code has.
THEOREM TypeCorrect == Spec => []TypeOK
<1>1. Init => TypeOK
  <2>1. 0 \in Half
    BY LedgerAssumption DEF Half
  <2> QED BY <2>1, WordTypes, LedgerAssumption DEF Init, TypeOK, Idle
<1>2. TypeOK /\ [Next]_vars => TypeOK'
  <2>1. CASE UNCHANGED vars
    BY <2>1 DEF vars, TypeOK
  <2> QED BY <2>1, CallerTypes, PollerTypes DEF Next
<1> QED BY <1>1, <1>2, PTL DEF Spec

-----------------------------------------------------------------------------
(* The cells counted in, as a function of the words they come from.         *)

Cells(r, ca, fr, h) ==
    [i \in 0..(NumCells - 1) |->
        IF i < RingSize THEN r[i].count
        ELSE IF i = RingSize THEN ca.count
        ELSE IF i = RingSize + 1 THEN fr
        ELSE h[i - RingSize - 1].count]

CellValues(f, r, ca, fr, h) ==
    /\ NumCells \in Nat
    /\ f \in [0..(NumCells - 1) -> Nat]
    /\ RingSize \in 0..(NumCells - 1) /\ RingSize + 1 \in 0..(NumCells - 1)
    /\ f[RingSize] = ca.count
    /\ f[RingSize + 1] = fr
    /\ \A i \in Slots : /\ i \in 0..(NumCells - 1) /\ i < RingSize
                        /\ f[i] = r[i].count
    /\ \A c \in Callers : /\ RingSize + 1 + c \in 0..(NumCells - 1)
                          /\ RingSize + 1 + c > RingSize + 1
                          /\ f[RingSize + 1 + c] = h[c].count

\* The numbers of the cells, and the values in them.
LEMMA CellsType ==
    ASSUME NEW r \in [Slots -> Word], NEW ca \in Word, NEW fr \in Nat,
           NEW h \in [Callers -> Word]
    PROVE  CellValues(Cells(r, ca, fr, h), r, ca, fr, h)
<1> USE LedgerAssumption
<1>1. NumCells \in Nat /\ NumCells = RingSize + 2 + NumCallers
  BY DEF NumCells
<1>2. \A w \in Word : w.count \in Nat
  BY DEF Word, Half
<1>3. ASSUME NEW i \in 0..(NumCells - 1) PROVE Cells(r, ca, fr, h)[i] \in Nat
  <2>1. CASE i < RingSize
    <3>1. i \in Slots
      BY <2>1 DEF Slots
    <3> QED BY <1>2, <2>1, <3>1 DEF Cells
  <2>2. CASE i = RingSize
    BY <1>2, <2>2 DEF Cells
  <2>3. CASE i = RingSize + 1
    BY <2>3 DEF Cells
  <2>4. CASE i > RingSize + 1
    <3>1. i - RingSize - 1 \in Callers
      BY <1>1, <2>4 DEF Callers
    <3> QED BY <1>2, <2>4, <3>1 DEF Cells
  <2> QED BY <2>1, <2>2, <2>3, <2>4
<1>4. Cells(r, ca, fr, h) \in [0..(NumCells - 1) -> Nat]
  BY <1>3 DEF Cells
<1>5. /\ RingSize \in 0..(NumCells - 1) /\ RingSize + 1 \in 0..(NumCells - 1)
      /\ Cells(r, ca, fr, h)[RingSize] = ca.count
      /\ Cells(r, ca, fr, h)[RingSize + 1] = fr
  BY <1>1 DEF Cells
<1>6. ASSUME NEW i \in Slots
      PROVE  /\ i \in 0..(NumCells - 1) /\ i < RingSize
             /\ Cells(r, ca, fr, h)[i] = r[i].count
  BY <1>1 DEF Cells, Slots
<1>7. ASSUME NEW c \in Callers
      PROVE  /\ RingSize + 1 + c \in 0..(NumCells - 1)
             /\ RingSize + 1 + c > RingSize + 1
             /\ Cells(r, ca, fr, h)[RingSize + 1 + c] = h[c].count
  <2>1. /\ RingSize + 1 + c \in 0..(NumCells - 1)
        /\ RingSize + 1 + c > RingSize + 1
        /\ (RingSize + 1 + c) - RingSize - 1 = c
    BY <1>1 DEF Callers
  <2> QED BY <2>1 DEF Cells
<1> QED BY <1>1, <1>4, <1>5, <1>6, <1>7 DEF CellValues

\* Every cell is a bucket, carry, the poller's or a caller's.
LEMMA CellKinds ==
    ASSUME NEW i \in 0..(NumCells - 1)
    PROVE  \/ i \in Slots \/ i = RingSize \/ i = RingSize + 1
           \/ \E c \in Callers : i = RingSize + 1 + c
<1>1. RingSize \in Nat /\ NumCallers \in Nat /\ NumCells = RingSize + 2 + NumCallers
  BY LedgerAssumption DEF NumCells
<1>2. CASE i > RingSize + 1
  <2>1. i - RingSize - 1 \in Callers /\ i = RingSize + 1 + (i - RingSize - 1)
    BY <1>1, <1>2 DEF Callers
  <2> QED BY <2>1
<1>3. CASE i <= RingSize + 1
  BY <1>1, <1>3 DEF Slots
<1> QED BY <1>1, <1>2, <1>3

-----------------------------------------------------------------------------
(* Steps that move counts between two cells, and steps that change one.    *)

IsCells(r, ca, fr, h, t) ==
    /\ r \in [Slots -> Word] /\ ca \in Word /\ fr \in Nat
    /\ h \in [Callers -> Word] /\ t \in Half
    /\ AddUp(Cells(r, ca, fr, h), NumCells, t)

\* A caller takes a count from a bucket, or puts one into it.
LEMMA MoveRingHand ==
    ASSUME NEW r, NEW ca, NEW fr, NEW h, NEW t, IsCells(r, ca, fr, h, t),
           NEW i \in Slots, NEW c \in Callers, NEW w \in Word, NEW v \in Word,
           w.count + v.count = r[i].count + h[c].count
    PROVE  /\ r[i].count + h[c].count <= t
           /\ AddUp(Cells([r EXCEPT ![i] = w], ca, fr, [h EXCEPT ![c] = v]), NumCells, t)
<1> DEFINE r2 == [r EXCEPT ![i] = w]
           ca2 == ca
           fr2 == fr
           h2 == [h EXCEPT ![c] = v]
           f == Cells(r, ca, fr, h)
           g == Cells(r2, ca2, fr2, h2)
           a == i
           b == RingSize + 1 + c
<1>1. /\ r \in [Slots -> Word] /\ ca \in Word /\ fr \in Nat /\ t \in Nat
      /\ h \in [Callers -> Word] /\ AddUp(f, NumCells, t) /\ RingSize \in Nat
      /\ \A x \in Word : x.count \in Nat
      /\ Empty \in Word /\ Empty.count = 0
  <2>1. RingSize \in Nat /\ Half \subseteq Nat
    BY LedgerAssumption DEF Half
  <2>2. \A x \in Word : x.count \in Nat
    BY <2>1 DEF Word
  <2>3. Empty \in Word /\ Empty.count = 0
    BY WordTypes DEF Empty
  <2> QED BY <2>1, <2>2, <2>3 DEF IsCells
<1>2. /\ r2 \in [Slots -> Word] /\ ca2 \in Word
      /\ fr2 \in Nat /\ h2 \in [Callers -> Word]
  BY <1>1
<1> HIDE DEF f, g
<1>0. CellValues(f, r, ca, fr, h) /\ CellValues(g, r2, ca2, fr2, h2)
  <2> HIDE DEF r2, ca2, fr2, h2
  <2> QED BY <1>1, <1>2, CellsType DEF f, g
<1>3. /\ NumCells \in Nat /\ f \in [0..(NumCells - 1) -> Nat]
      /\ g \in [0..(NumCells - 1) -> Nat]
      /\ a \in 0..(NumCells - 1) /\ b \in 0..(NumCells - 1) /\ a # b
      /\ f[a] = r[i].count /\ f[b] = h[c].count
      /\ g[a] = w.count /\ g[b] = v.count
  <2> HIDE DEF r2, h2
  <2>1. /\ NumCells \in Nat /\ f \in [0..(NumCells - 1) -> Nat]
        /\ g \in [0..(NumCells - 1) -> Nat]
    BY <1>0 DEF CellValues
  <2>2. b \in 0..(NumCells - 1) /\ f[b] = h[c].count
    BY <1>0, <1>1 DEF CellValues
  <2>3. g[b] = v.count
    BY <1>0, <1>1 DEF CellValues, h2, r2
  <2>4. a \in 0..(NumCells - 1) /\ f[a] = r[i].count /\ a # b
    BY <1>0, <1>1 DEF CellValues
  <2>5. g[a] = w.count
    BY <1>0, <1>1 DEF CellValues, h2, r2
  <2> QED BY <2>1, <2>2, <2>3, <2>4, <2>5
<1>4. ASSUME NEW j \in 0..(NumCells - 1), j # a, j # b
      PROVE  g[j] = f[j]
  <2>1. CASE j \in Slots
    <3>1. r2[j] = r[j]
      BY <1>1, <1>4, <2>1
    <3> HIDE DEF r2
    <3> QED BY <1>0, <2>1, <3>1 DEF CellValues
  <2>2. CASE j = RingSize
    BY <1>0, <1>4, <2>2 DEF CellValues
  <2>3. CASE j = RingSize + 1
    BY <1>0, <1>4, <2>3 DEF CellValues
  <2>4. ASSUME NEW d \in Callers, j = RingSize + 1 + d PROVE g[j] = f[j]
    <3>1. h2[d] = h[d]
      BY <1>1, <1>4, <2>4
    <3> HIDE DEF h2
    <3> QED BY <1>0, <2>4, <3>1 DEF CellValues
  <2> QED BY <2>1, <2>2, <2>3, <2>4, CellKinds
<1> HIDE DEF r2, ca2, fr2, h2, a, b
<1>5. g[a] + g[b] = f[a] + f[b]
  BY <1>1, <1>3
<1>6. f[a] + f[b] <= t /\ AddUp(g, NumCells, t)
  <2>1. /\ NumCells \in Nat /\ t \in Nat /\ AddUp(f, NumCells, t)
        /\ f \in [0..(NumCells - 1) -> Nat] /\ g \in [0..(NumCells - 1) -> Nat]
        /\ a \in 0..(NumCells - 1) /\ b \in 0..(NumCells - 1) /\ a # b
    BY <1>1, <1>3
  <2> QED BY <1>4, <1>5, <2>1, AddUpMoved
<1> QED BY <1>3, <1>6 DEF g, r2, ca2, fr2, h2

\* A caller takes a count from carry, or puts some into it.
LEMMA MoveCarryHand ==
    ASSUME NEW r, NEW ca, NEW fr, NEW h, NEW t, IsCells(r, ca, fr, h, t),
           NEW c \in Callers, NEW w \in Word, NEW v \in Word,
           w.count + v.count = ca.count + h[c].count
    PROVE  /\ ca.count + h[c].count <= t
           /\ AddUp(Cells(r, w, fr, [h EXCEPT ![c] = v]), NumCells, t)
<1> DEFINE r2 == r
           ca2 == w
           fr2 == fr
           h2 == [h EXCEPT ![c] = v]
           f == Cells(r, ca, fr, h)
           g == Cells(r2, ca2, fr2, h2)
           a == RingSize
           b == RingSize + 1 + c
<1>1. /\ r \in [Slots -> Word] /\ ca \in Word /\ fr \in Nat /\ t \in Nat
      /\ h \in [Callers -> Word] /\ AddUp(f, NumCells, t) /\ RingSize \in Nat
      /\ \A x \in Word : x.count \in Nat
      /\ Empty \in Word /\ Empty.count = 0
  <2>1. RingSize \in Nat /\ Half \subseteq Nat
    BY LedgerAssumption DEF Half
  <2>2. \A x \in Word : x.count \in Nat
    BY <2>1 DEF Word
  <2>3. Empty \in Word /\ Empty.count = 0
    BY WordTypes DEF Empty
  <2> QED BY <2>1, <2>2, <2>3 DEF IsCells
<1>2. /\ r2 \in [Slots -> Word] /\ ca2 \in Word
      /\ fr2 \in Nat /\ h2 \in [Callers -> Word]
  BY <1>1
<1> HIDE DEF f, g
<1>0. CellValues(f, r, ca, fr, h) /\ CellValues(g, r2, ca2, fr2, h2)
  <2> HIDE DEF r2, ca2, fr2, h2
  <2> QED BY <1>1, <1>2, CellsType DEF f, g
<1>3. /\ NumCells \in Nat /\ f \in [0..(NumCells - 1) -> Nat]
      /\ g \in [0..(NumCells - 1) -> Nat]
      /\ a \in 0..(NumCells - 1) /\ b \in 0..(NumCells - 1) /\ a # b
      /\ f[a] = ca.count /\ f[b] = h[c].count
      /\ g[a] = w.count /\ g[b] = v.count
  <2> HIDE DEF r2, h2
  <2>1. /\ NumCells \in Nat /\ f \in [0..(NumCells - 1) -> Nat]
        /\ g \in [0..(NumCells - 1) -> Nat]
    BY <1>0 DEF CellValues
  <2>2. b \in 0..(NumCells - 1) /\ f[b] = h[c].count
    BY <1>0, <1>1 DEF CellValues
  <2>3. g[b] = v.count
    BY <1>0, <1>1 DEF CellValues, h2, r2
  <2>4. a \in 0..(NumCells - 1) /\ f[a] = ca.count /\ a # b
    BY <1>0, <1>1 DEF CellValues
  <2>5. g[a] = w.count
    BY <1>0, <1>1 DEF CellValues, h2, r2
  <2> QED BY <2>1, <2>2, <2>3, <2>4, <2>5
<1>4. ASSUME NEW j \in 0..(NumCells - 1), j # a, j # b
      PROVE  g[j] = f[j]
  <2>1. CASE j \in Slots
    <3>1. r2[j] = r[j]
      BY <1>1, <1>4, <2>1
    <3> HIDE DEF r2
    <3> QED BY <1>0, <2>1, <3>1 DEF CellValues
  <2>2. CASE j = RingSize
    BY <1>0, <1>4, <2>2 DEF CellValues
  <2>3. CASE j = RingSize + 1
    BY <1>0, <1>4, <2>3 DEF CellValues
  <2>4. ASSUME NEW d \in Callers, j = RingSize + 1 + d PROVE g[j] = f[j]
    <3>1. h2[d] = h[d]
      BY <1>1, <1>4, <2>4
    <3> HIDE DEF h2
    <3> QED BY <1>0, <2>4, <3>1 DEF CellValues
  <2> QED BY <2>1, <2>2, <2>3, <2>4, CellKinds
<1> HIDE DEF r2, ca2, fr2, h2, a, b
<1>5. g[a] + g[b] = f[a] + f[b]
  BY <1>1, <1>3
<1>6. f[a] + f[b] <= t /\ AddUp(g, NumCells, t)
  <2>1. /\ NumCells \in Nat /\ t \in Nat /\ AddUp(f, NumCells, t)
        /\ f \in [0..(NumCells - 1) -> Nat] /\ g \in [0..(NumCells - 1) -> Nat]
        /\ a \in 0..(NumCells - 1) /\ b \in 0..(NumCells - 1) /\ a # b
    BY <1>1, <1>3
  <2> QED BY <1>4, <1>5, <2>1, AddUpMoved
<1> QED BY <1>3, <1>6 DEF g, r2, ca2, fr2, h2

\* The poller drops a bucket.
LEMMA MoveRingFreed ==
    ASSUME NEW r, NEW ca, NEW fr, NEW h, NEW t, IsCells(r, ca, fr, h, t), NEW i \in Slots
    PROVE  /\ r[i].count + fr <= t
           /\ AddUp(Cells([r EXCEPT ![i] = Empty], ca, fr + r[i].count, h), NumCells, t)
<1> DEFINE r2 == [r EXCEPT ![i] = Empty]
           ca2 == ca
           fr2 == fr + r[i].count
           h2 == h
           f == Cells(r, ca, fr, h)
           g == Cells(r2, ca2, fr2, h2)
           a == i
           b == RingSize + 1
<1>1. /\ r \in [Slots -> Word] /\ ca \in Word /\ fr \in Nat /\ t \in Nat
      /\ h \in [Callers -> Word] /\ AddUp(f, NumCells, t) /\ RingSize \in Nat
      /\ \A x \in Word : x.count \in Nat
      /\ Empty \in Word /\ Empty.count = 0
  <2>1. RingSize \in Nat /\ Half \subseteq Nat
    BY LedgerAssumption DEF Half
  <2>2. \A x \in Word : x.count \in Nat
    BY <2>1 DEF Word
  <2>3. Empty \in Word /\ Empty.count = 0
    BY WordTypes DEF Empty
  <2> QED BY <2>1, <2>2, <2>3 DEF IsCells
<1>2. /\ r2 \in [Slots -> Word] /\ ca2 \in Word
      /\ fr2 \in Nat /\ h2 \in [Callers -> Word]
  BY <1>1
<1> HIDE DEF f, g
<1>0. CellValues(f, r, ca, fr, h) /\ CellValues(g, r2, ca2, fr2, h2)
  <2> HIDE DEF r2, ca2, fr2, h2
  <2> QED BY <1>1, <1>2, CellsType DEF f, g
<1>3. /\ NumCells \in Nat /\ f \in [0..(NumCells - 1) -> Nat]
      /\ g \in [0..(NumCells - 1) -> Nat]
      /\ a \in 0..(NumCells - 1) /\ b \in 0..(NumCells - 1) /\ a # b
      /\ f[a] = r[i].count /\ f[b] = fr
      /\ g[a] = 0 /\ g[b] = fr + r[i].count
  <2> HIDE DEF r2, h2
  <2>1. /\ NumCells \in Nat /\ f \in [0..(NumCells - 1) -> Nat]
        /\ g \in [0..(NumCells - 1) -> Nat]
    BY <1>0 DEF CellValues
  <2>2. b \in 0..(NumCells - 1) /\ f[b] = fr
    BY <1>0, <1>1 DEF CellValues
  <2>3. g[b] = fr + r[i].count
    BY <1>0, <1>1 DEF CellValues, h2, r2
  <2>4. a \in 0..(NumCells - 1) /\ f[a] = r[i].count /\ a # b
    BY <1>0, <1>1 DEF CellValues
  <2>5. g[a] = 0
    BY <1>0, <1>1 DEF CellValues, h2, r2
  <2> QED BY <2>1, <2>2, <2>3, <2>4, <2>5
<1>4. ASSUME NEW j \in 0..(NumCells - 1), j # a, j # b
      PROVE  g[j] = f[j]
  <2>1. CASE j \in Slots
    <3>1. r2[j] = r[j]
      BY <1>1, <1>4, <2>1
    <3> HIDE DEF r2
    <3> QED BY <1>0, <2>1, <3>1 DEF CellValues
  <2>2. CASE j = RingSize
    BY <1>0, <1>4, <2>2 DEF CellValues
  <2>3. CASE j = RingSize + 1
    BY <1>0, <1>4, <2>3 DEF CellValues
  <2>4. ASSUME NEW d \in Callers, j = RingSize + 1 + d PROVE g[j] = f[j]
    <3>1. h2[d] = h[d]
      BY <1>1, <1>4, <2>4
    <3> HIDE DEF h2
    <3> QED BY <1>0, <2>4, <3>1 DEF CellValues
  <2> QED BY <2>1, <2>2, <2>3, <2>4, CellKinds
<1> HIDE DEF r2, ca2, fr2, h2, a, b
<1>5. g[a] + g[b] = f[a] + f[b]
  BY <1>1, <1>3
<1>6. f[a] + f[b] <= t /\ AddUp(g, NumCells, t)
  <2>1. /\ NumCells \in Nat /\ t \in Nat /\ AddUp(f, NumCells, t)
        /\ f \in [0..(NumCells - 1) -> Nat] /\ g \in [0..(NumCells - 1) -> Nat]
        /\ a \in 0..(NumCells - 1) /\ b \in 0..(NumCells - 1) /\ a # b
    BY <1>1, <1>3
  <2> QED BY <1>4, <1>5, <2>1, AddUpMoved
<1> QED BY <1>3, <1>6 DEF g, r2, ca2, fr2, h2

\* The poller drops carry.
LEMMA MoveCarryFreed ==
    ASSUME NEW r, NEW ca, NEW fr, NEW h, NEW t, IsCells(r, ca, fr, h, t)
    PROVE  /\ ca.count + fr <= t
           /\ AddUp(Cells(r, Empty, fr + ca.count, h), NumCells, t)
<1> DEFINE r2 == r
           ca2 == Empty
           fr2 == fr + ca.count
           h2 == h
           f == Cells(r, ca, fr, h)
           g == Cells(r2, ca2, fr2, h2)
           a == RingSize
           b == RingSize + 1
<1>1. /\ r \in [Slots -> Word] /\ ca \in Word /\ fr \in Nat /\ t \in Nat
      /\ h \in [Callers -> Word] /\ AddUp(f, NumCells, t) /\ RingSize \in Nat
      /\ \A x \in Word : x.count \in Nat
      /\ Empty \in Word /\ Empty.count = 0
  <2>1. RingSize \in Nat /\ Half \subseteq Nat
    BY LedgerAssumption DEF Half
  <2>2. \A x \in Word : x.count \in Nat
    BY <2>1 DEF Word
  <2>3. Empty \in Word /\ Empty.count = 0
    BY WordTypes DEF Empty
  <2> QED BY <2>1, <2>2, <2>3 DEF IsCells
<1>2. /\ r2 \in [Slots -> Word] /\ ca2 \in Word
      /\ fr2 \in Nat /\ h2 \in [Callers -> Word]
  BY <1>1
<1> HIDE DEF f, g
<1>0. CellValues(f, r, ca, fr, h) /\ CellValues(g, r2, ca2, fr2, h2)
  <2> HIDE DEF r2, ca2, fr2, h2
  <2> QED BY <1>1, <1>2, CellsType DEF f, g
<1>3. /\ NumCells \in Nat /\ f \in [0..(NumCells - 1) -> Nat]
      /\ g \in [0..(NumCells - 1) -> Nat]
      /\ a \in 0..(NumCells - 1) /\ b \in 0..(NumCells - 1) /\ a # b
      /\ f[a] = ca.count /\ f[b] = fr
      /\ g[a] = 0 /\ g[b] = fr + ca.count
  <2> HIDE DEF r2, h2
  <2>1. /\ NumCells \in Nat /\ f \in [0..(NumCells - 1) -> Nat]
        /\ g \in [0..(NumCells - 1) -> Nat]
    BY <1>0 DEF CellValues
  <2>2. b \in 0..(NumCells - 1) /\ f[b] = fr
    BY <1>0, <1>1 DEF CellValues
  <2>3. g[b] = fr + ca.count
    BY <1>0, <1>1 DEF CellValues, h2, r2
  <2>4. a \in 0..(NumCells - 1) /\ f[a] = ca.count /\ a # b
    BY <1>0, <1>1 DEF CellValues
  <2>5. g[a] = 0
    BY <1>0, <1>1 DEF CellValues, h2, r2
  <2> QED BY <2>1, <2>2, <2>3, <2>4, <2>5
<1>4. ASSUME NEW j \in 0..(NumCells - 1), j # a, j # b
      PROVE  g[j] = f[j]
  <2>1. CASE j \in Slots
    <3>1. r2[j] = r[j]
      BY <1>1, <1>4, <2>1
    <3> HIDE DEF r2
    <3> QED BY <1>0, <2>1, <3>1 DEF CellValues
  <2>2. CASE j = RingSize
    BY <1>0, <1>4, <2>2 DEF CellValues
  <2>3. CASE j = RingSize + 1
    BY <1>0, <1>4, <2>3 DEF CellValues
  <2>4. ASSUME NEW d \in Callers, j = RingSize + 1 + d PROVE g[j] = f[j]
    <3>1. h2[d] = h[d]
      BY <1>1, <1>4, <2>4
    <3> HIDE DEF h2
    <3> QED BY <1>0, <2>4, <3>1 DEF CellValues
  <2> QED BY <2>1, <2>2, <2>3, <2>4, CellKinds
<1> HIDE DEF r2, ca2, fr2, h2, a, b
<1>5. g[a] + g[b] = f[a] + f[b]
  BY <1>1, <1>3
<1>6. f[a] + f[b] <= t /\ AddUp(g, NumCells, t)
  <2>1. /\ NumCells \in Nat /\ t \in Nat /\ AddUp(f, NumCells, t)
        /\ f \in [0..(NumCells - 1) -> Nat] /\ g \in [0..(NumCells - 1) -> Nat]
        /\ a \in 0..(NumCells - 1) /\ b \in 0..(NumCells - 1) /\ a # b
    BY <1>1, <1>3
  <2> QED BY <1>4, <1>5, <2>1, AddUpMoved
<1> QED BY <1>3, <1>6 DEF g, r2, ca2, fr2, h2

\* A caller counts a reservation in or out of the state word.
LEMMA ChangeHand ==
    ASSUME NEW r, NEW ca, NEW fr, NEW h, NEW t, IsCells(r, ca, fr, h, t),
           NEW c \in Callers, NEW v \in Word
    PROVE  /\ h[c].count <= t
           /\ AddUp(Cells(r, ca, fr, [h EXCEPT ![c] = v]), NumCells, t - h[c].count + v.count)
<1> DEFINE r2 == r
           ca2 == ca
           fr2 == fr
           h2 == [h EXCEPT ![c] = v]
           f == Cells(r, ca, fr, h)
           g == Cells(r2, ca2, fr2, h2)
           b == RingSize + 1 + c
<1>1. /\ r \in [Slots -> Word] /\ ca \in Word /\ fr \in Nat /\ t \in Nat
      /\ h \in [Callers -> Word] /\ AddUp(f, NumCells, t) /\ RingSize \in Nat
      /\ \A x \in Word : x.count \in Nat
      /\ Empty \in Word /\ Empty.count = 0
  <2>1. RingSize \in Nat /\ Half \subseteq Nat
    BY LedgerAssumption DEF Half
  <2>2. \A x \in Word : x.count \in Nat
    BY <2>1 DEF Word
  <2>3. Empty \in Word /\ Empty.count = 0
    BY WordTypes DEF Empty
  <2> QED BY <2>1, <2>2, <2>3 DEF IsCells
<1>2. /\ r2 \in [Slots -> Word] /\ ca2 \in Word
      /\ fr2 \in Nat /\ h2 \in [Callers -> Word]
  BY <1>1
<1> HIDE DEF f, g
<1>0. CellValues(f, r, ca, fr, h) /\ CellValues(g, r2, ca2, fr2, h2)
  <2> HIDE DEF r2, ca2, fr2, h2
  <2> QED BY <1>1, <1>2, CellsType DEF f, g
<1>3. /\ NumCells \in Nat /\ f \in [0..(NumCells - 1) -> Nat]
      /\ g \in [0..(NumCells - 1) -> Nat]
      /\ b \in 0..(NumCells - 1)
      /\ f[b] = h[c].count /\ g[b] = v.count
  <2> HIDE DEF r2, h2
  <2>1. /\ NumCells \in Nat /\ f \in [0..(NumCells - 1) -> Nat]
        /\ g \in [0..(NumCells - 1) -> Nat]
    BY <1>0 DEF CellValues
  <2>2. b \in 0..(NumCells - 1) /\ f[b] = h[c].count
    BY <1>0, <1>1 DEF CellValues
  <2>3. g[b] = v.count
    BY <1>0, <1>1 DEF CellValues, h2, r2
  <2> QED BY <2>1, <2>2, <2>3
<1>4. ASSUME NEW j \in 0..(NumCells - 1), j # b
      PROVE  g[j] = f[j]
  <2>1. CASE j \in Slots
    <3>1. r2[j] = r[j]
      BY <1>1, <1>4, <2>1
    <3> HIDE DEF r2
    <3> QED BY <1>0, <2>1, <3>1 DEF CellValues
  <2>2. CASE j = RingSize
    BY <1>0, <1>4, <2>2 DEF CellValues
  <2>3. CASE j = RingSize + 1
    BY <1>0, <1>4, <2>3 DEF CellValues
  <2>4. ASSUME NEW d \in Callers, j = RingSize + 1 + d PROVE g[j] = f[j]
    <3>1. h2[d] = h[d]
      BY <1>1, <1>4, <2>4
    <3> HIDE DEF h2
    <3> QED BY <1>0, <2>4, <3>1 DEF CellValues
  <2> QED BY <2>1, <2>2, <2>3, <2>4, CellKinds
<1> HIDE DEF r2, ca2, fr2, h2, b
<1>5. f[b] <= t /\ AddUp(g, NumCells, t - f[b] + g[b])
  BY <1>1, <1>3, <1>4, AddUpChanged
<1>6. t - f[b] + g[b] = t - h[c].count + v.count
  BY <1>1, <1>3
<1> QED BY <1>3, <1>5, <1>6 DEF g, r2, ca2, fr2, h2

\* The poller gives back what it dropped.
LEMMA ChangeFreed ==
    ASSUME NEW r, NEW ca, NEW fr, NEW h, NEW t, IsCells(r, ca, fr, h, t)
    PROVE  /\ fr <= t
           /\ AddUp(Cells(r, ca, 0, h), NumCells, t - fr)
<1> DEFINE r2 == r
           ca2 == ca
           fr2 == 0
           h2 == h
           f == Cells(r, ca, fr, h)
           g == Cells(r2, ca2, fr2, h2)
           b == RingSize + 1
<1>1. /\ r \in [Slots -> Word] /\ ca \in Word /\ fr \in Nat /\ t \in Nat
      /\ h \in [Callers -> Word] /\ AddUp(f, NumCells, t) /\ RingSize \in Nat
      /\ \A x \in Word : x.count \in Nat
      /\ Empty \in Word /\ Empty.count = 0
  <2>1. RingSize \in Nat /\ Half \subseteq Nat
    BY LedgerAssumption DEF Half
  <2>2. \A x \in Word : x.count \in Nat
    BY <2>1 DEF Word
  <2>3. Empty \in Word /\ Empty.count = 0
    BY WordTypes DEF Empty
  <2> QED BY <2>1, <2>2, <2>3 DEF IsCells
<1>2. /\ r2 \in [Slots -> Word] /\ ca2 \in Word
      /\ fr2 \in Nat /\ h2 \in [Callers -> Word]
  BY <1>1
<1> HIDE DEF f, g
<1>0. CellValues(f, r, ca, fr, h) /\ CellValues(g, r2, ca2, fr2, h2)
  <2> HIDE DEF r2, ca2, fr2, h2
  <2> QED BY <1>1, <1>2, CellsType DEF f, g
<1>3. /\ NumCells \in Nat /\ f \in [0..(NumCells - 1) -> Nat]
      /\ g \in [0..(NumCells - 1) -> Nat]
      /\ b \in 0..(NumCells - 1)
      /\ f[b] = fr /\ g[b] = 0
  <2> HIDE DEF r2, h2
  <2>1. /\ NumCells \in Nat /\ f \in [0..(NumCells - 1) -> Nat]
        /\ g \in [0..(NumCells - 1) -> Nat]
    BY <1>0 DEF CellValues
  <2>2. b \in 0..(NumCells - 1) /\ f[b] = fr
    BY <1>0, <1>1 DEF CellValues
  <2>3. g[b] = 0
    BY <1>0, <1>1 DEF CellValues, h2, r2
  <2> QED BY <2>1, <2>2, <2>3
<1>4. ASSUME NEW j \in 0..(NumCells - 1), j # b
      PROVE  g[j] = f[j]
  <2>1. CASE j \in Slots
    <3>1. r2[j] = r[j]
      BY <1>1, <1>4, <2>1
    <3> HIDE DEF r2
    <3> QED BY <1>0, <2>1, <3>1 DEF CellValues
  <2>2. CASE j = RingSize
    BY <1>0, <1>4, <2>2 DEF CellValues
  <2>3. CASE j = RingSize + 1
    BY <1>0, <1>4, <2>3 DEF CellValues
  <2>4. ASSUME NEW d \in Callers, j = RingSize + 1 + d PROVE g[j] = f[j]
    <3>1. h2[d] = h[d]
      BY <1>1, <1>4, <2>4
    <3> HIDE DEF h2
    <3> QED BY <1>0, <2>4, <3>1 DEF CellValues
  <2> QED BY <2>1, <2>2, <2>3, <2>4, CellKinds
<1> HIDE DEF r2, ca2, fr2, h2, b
<1>5. f[b] <= t /\ AddUp(g, NumCells, t - f[b] + g[b])
  BY <1>1, <1>3, <1>4, AddUpChanged
<1>6. t - f[b] + g[b] = t - fr
  BY <1>1, <1>3
<1> QED BY <1>3, <1>5, <1>6 DEF g, r2, ca2, fr2, h2

-----------------------------------------------------------------------------
(* The inductive invariant: types, what a thread can have in its hand at   *)
(* each place, and the sum of the cells.                                   *)

LocalsOK ==
    /\ \A c \in Callers :
          /\ pc[c] \in {"record", "decrement"} => hand[c].count = 1
          /\ pc[c] \in {"idle", "held", "test", "takeCarry", "scan"}
                => hand[c].count = 0
    /\ poller.at \in {"idle", "raise"} => poller.freed = 0

Sum == IsCells(ring, carry, poller.freed, hand, state.out)

IInv == TypeOK /\ LocalsOK /\ Sum

\* A step of the counter, or none.
CounterStep == [Counter!Next]_(Counter!vars)

\* What a caller's step does to its place and its hand decides LocalsOK.
LEMMA CallerLocals ==
    ASSUME IInv, NEW c \in Callers, NEW to, NEW v \in Word,
           pc' = [pc EXCEPT ![c] = to], hand' = [hand EXCEPT ![c] = v],
           poller' = poller,
           to \in {"record", "decrement"} => v.count = 1,
           to \in {"idle", "held", "test", "takeCarry", "scan"} => v.count = 0
    PROVE  LocalsOK'
<1>1. pc \in [Callers -> {"idle", "record", "carry", "held", "test",
                          "takeCarry", "scan", "decrement"}]
      /\ hand \in [Callers -> Word]
  BY DEF IInv, TypeOK
<1>2. ASSUME NEW d \in Callers
      PROVE  /\ pc'[d] \in {"record", "decrement"} => hand'[d].count = 1
             /\ pc'[d] \in {"idle", "held", "test", "takeCarry", "scan"}
                   => hand'[d].count = 0
  <2>1. CASE d = c
    BY <1>1, <2>1
  <2>2. CASE d # c
    <3>1. pc'[d] = pc[d] /\ hand'[d] = hand[d]
      BY <1>1, <2>2
    <3> QED BY <3>1 DEF IInv, LocalsOK
  <2> QED BY <2>1, <2>2
<1>3. poller'.at \in {"idle", "raise"} => poller'.freed = 0
  BY DEF IInv, LocalsOK
<1> QED BY <1>2, <1>3 DEF LocalsOK

\* Facts of IInv that most steps need.
LEMMA Basics ==
    ASSUME IInv
    PROVE  /\ RingSize \in Nat /\ MaxWord \in Nat \ {0}
           /\ Half \subseteq Nat /\ 0 \in Half /\ 1 \in Half
           /\ \A n \in Half : n <= MaxWord
           /\ \A n \in Nat : n <= MaxWord => n \in Half
           /\ state \in [warm : Half, out : Half]
           /\ ring \in [Slots -> Word] /\ carry \in Word
           /\ hand \in [Callers -> Word] /\ poller.freed \in Half
           /\ ticket \in [Callers -> Half] /\ scan \in [Callers -> 0..RingSize]
           /\ Empty \in Word /\ Empty.count = 0 /\ Empty.sec = 0
           /\ \A w \in Word : w.count \in Half /\ w.sec \in Half
           /\ \A m, n \in Half : [sec |-> m, count |-> n] \in Word
           /\ IsCells(ring, carry, poller.freed, hand, state.out)
<1>1. /\ RingSize \in Nat /\ MaxWord \in Nat \ {0}
      /\ Half \subseteq Nat /\ 0 \in Half /\ 1 \in Half
      /\ \A n \in Half : n <= MaxWord
      /\ \A n \in Nat : n <= MaxWord => n \in Half
  BY LedgerAssumption DEF Half
<1>2. /\ \A w \in Word : w.count \in Half /\ w.sec \in Half
      /\ \A m, n \in Half : [sec |-> m, count |-> n] \in Word
  BY DEF Word
<1>3. Empty \in Word /\ Empty.count = 0 /\ Empty.sec = 0
  BY WordTypes DEF Empty
<1>4. /\ state \in [warm : Half, out : Half]
      /\ ring \in [Slots -> Word] /\ carry \in Word
      /\ hand \in [Callers -> Word] /\ poller.freed \in Half
      /\ ticket \in [Callers -> Half] /\ scan \in [Callers -> 0..RingSize]
  BY DEF IInv, TypeOK
<1> QED BY <1>1, <1>2, <1>3, <1>4 DEF IInv, Sum

LEMMA SumNext ==
    ASSUME TypeOK',
           AddUp(Cells(ring', carry', poller'.freed, hand'), NumCells, state'.out)
    PROVE  Sum'
<1>1. /\ ring' \in [Slots -> Word] /\ carry' \in Word /\ poller'.freed \in Half
      /\ hand' \in [Callers -> Word] /\ state'.out \in Half
  BY DEF TypeOK
<1>2. Half \subseteq Nat
  BY DEF Half
<1> QED BY <1>1, <1>2 DEF Sum, IsCells

\* Reserve: the state word and the caller's hand count one more; it cannot
\* wrap, because the reservations are below the capacity.
LEMMA ReserveStep ==
    ASSUME IInv, TypeOK', NEW c \in Callers, NEW now \in Seconds, Reserve(c, now)
    PROVE  LocalsOK' /\ Sum' /\ CounterStep
<1> DEFINE v == [sec |-> now, count |-> 1]
<1>1. now \in Half /\ v \in Word /\ v.count = 1 /\ hand[c].count = 0
  <2>1. now \in Half
    BY LedgerAssumption DEF Half
  <2>2. hand[c].count = 0
    BY DEF IInv, LocalsOK, Reserve
  <2> QED BY <2>1, <2>2, Basics
<1> HIDE DEF v
<1>2. /\ state.out < state.warm /\ state.out \in Nat /\ state.warm \in Half
      /\ state.out + 1 \in Half /\ Plus(state.out, 1) = state.out + 1
  <2>1. state.out < state.warm
    BY DEF Reserve, CanReserve
  <2>2. state.out \in Half /\ state.warm \in Half
    BY Basics
  <2>3. state.out \in Nat /\ state.out + 1 \in Nat /\ state.out + 1 <= MaxWord
    BY <2>1, <2>2, Basics
  <2>4. state.out + 1 \in Half
    BY <2>3, Basics
  <2> QED BY <2>1, <2>2, <2>3, <2>4 DEF Plus
<1>3. /\ state'.out = state.out + 1 /\ state'.warm = state.warm
      /\ ring' = ring /\ carry' = carry /\ poller' = poller
      /\ hand' = [hand EXCEPT ![c] = v] /\ pc' = [pc EXCEPT ![c] = "record"]
  <2>1. state' = [state EXCEPT !.out = Plus(state.out, 1)]
    BY DEF Reserve
  <2>2. state'.out = state.out + 1 /\ state'.warm = state.warm
    BY <1>2, <2>1, Basics
  <2> QED BY <2>2 DEF Reserve, Goto, v
<1>4. LocalsOK'
  BY <1>1, <1>3, CallerLocals
<1>5. AddUp(Cells(ring, carry, poller.freed, [hand EXCEPT ![c] = v]),
            NumCells, state.out + 1)
  <2>1. \A w \in Word :
          AddUp(Cells(ring, carry, poller.freed, [hand EXCEPT ![c] = w]),
                NumCells, state.out - hand[c].count + w.count)
    BY Basics, ChangeHand
  <2>2. AddUp(Cells(ring, carry, poller.freed, [hand EXCEPT ![c] = v]),
              NumCells, state.out - 0 + 1)
    BY <1>1, <2>1
  <2>3. state.out - 0 + 1 = state.out + 1
    BY <1>2
  <2> QED BY <2>2, <2>3
<1>6. Sum'
  <2>1. AddUp(Cells(ring', carry', poller'.freed, hand'), NumCells, state'.out)
    BY <1>3, <1>5
  <2> QED BY <2>1, SumNext
<1>7. Counter!Claim
  BY <1>2, <1>3 DEF Counter!Claim
<1> QED BY <1>4, <1>6, <1>7 DEF CounterStep, Counter!Next

\* What leaves the state word and the poller's part alone is a stutter of the
\* counter.
LEMMA CounterStutter ==
    ASSUME state' = state
    PROVE  CounterStep
BY DEF CounterStep, Counter!vars

\* Record: the caller's count goes to the bucket of its second; what the bucket
\* could not keep goes to the caller's hand.
LEMMA RecordStep ==
    ASSUME IInv, TypeOK', NEW c \in Callers, Record(c)
    PROVE  LocalsOK' /\ Sum' /\ CounterStep
<1> DEFINE s == ticket[c]
           i == SlotOf(s)
           w == Added(ring[i], s)
           v == IF Spilled(ring[i], s).count > 0 THEN Spilled(ring[i], s) ELSE Empty
<1>1. s \in Half /\ i \in Slots /\ ring[i] \in Word
  <2>1. s \in Half /\ s \in Nat
    BY Basics
  <2>2. i \in Slots
    BY <2>1, SlotType
  <2> QED BY <2>1, <2>2, Basics
<1>2. w \in Word /\ v \in Word
  BY <1>1, WordTypes
<1>3. hand[c].count = 1 /\ ring[i].count \in Nat /\ ring[i].count + 1 <= MaxWord
  <2>1. hand[c].count = 1
    BY DEF IInv, LocalsOK, Record
  <2>2. \A x, y \in Word : x.count + y.count = ring[i].count + hand[c].count
          => ring[i].count + hand[c].count <= state.out
    BY <1>1, Basics, MoveRingHand
  <2>3. ring[i].count + hand[c].count <= state.out
    BY <1>1, <2>2, Basics
  <2> QED BY <1>1, <2>1, <2>3, Basics
<1>4. w.count + v.count = ring[i].count + hand[c].count
  <2>1. CASE ring[i].sec = s
    <3>1. Plus(ring[i].count, 1) = ring[i].count + 1
      BY <1>3 DEF Plus
    <3>2. w.count = ring[i].count + 1
      BY <1>1, <2>1, <3>1 DEF Added, Word
    <3>3. v.count = 0
      BY <2>1, Basics DEF Spilled
    <3> QED BY <1>3, <3>2, <3>3
  <2>2. CASE ring[i].sec > s
    <3>1. w = ring[i]
      BY <1>1, <2>2, Basics DEF Added
    <3>2. v = [sec |-> s, count |-> 1]
      BY <1>1, <2>2, Basics DEF Spilled
    <3> QED BY <1>3, <3>1, <3>2
  <2>3. CASE ~(ring[i].sec = s) /\ ~(ring[i].sec > s)
    <3>1. w.count = 1
      BY <2>3 DEF Added
    <3>2. v.count = ring[i].count
      BY <1>3, <2>3, Basics DEF Spilled
    <3> QED BY <1>3, <3>1, <3>2
  <2> QED BY <2>1, <2>2, <2>3
<1>5. /\ ring' = [ring EXCEPT ![i] = w] /\ hand' = [hand EXCEPT ![c] = v]
      /\ pc' = [pc EXCEPT ![c] = IF v.count > 0 THEN "carry" ELSE "held"]
      /\ carry' = carry /\ poller' = poller /\ state' = state
  <2>1. CASE Spilled(ring[i], s).count > 0
    BY <2>1 DEF Record, Goto
  <2>2. CASE ~(Spilled(ring[i], s).count > 0)
    BY <2>2, Basics DEF Record, Goto
  <2> QED BY <2>1, <2>2
<1> HIDE DEF s, i, w, v
<1>6. LocalsOK'
  <2>1. v.count \in Nat
    BY <1>2, Basics
  <2>2. CASE v.count > 0
    BY <1>2, <1>5, <2>2, CallerLocals
  <2>3. CASE ~(v.count > 0)
    <3>1. v.count = 0
      BY <2>1, <2>3
    <3> QED BY <1>2, <1>5, <2>3, <3>1, CallerLocals
  <2> QED BY <2>2, <2>3
<1>7. AddUp(Cells([ring EXCEPT ![i] = w], carry, poller.freed,
                  [hand EXCEPT ![c] = v]), NumCells, state.out)
  BY <1>1, <1>2, <1>4, Basics, MoveRingHand
<1>8. Sum'
  <2>1. AddUp(Cells(ring', carry', poller'.freed, hand'), NumCells, state'.out)
    BY <1>5, <1>7
  <2> QED BY <2>1, SumNext
<1> QED BY <1>5, <1>6, <1>8, CounterStutter

\* AddCarry: what the caller has in its hand goes to carry.
LEMMA AddCarryStep ==
    ASSUME IInv, TypeOK', NEW c \in Callers, AddCarry(c)
    PROVE  LocalsOK' /\ Sum' /\ CounterStep
<1> DEFINE w == Merged(carry, hand[c])
<1>1. w \in Word /\ hand[c] \in Word
  BY Basics, WordTypes
<1>2. w.count + Empty.count = carry.count + hand[c].count
  <2>1. \A x, y \in Word : x.count + y.count = carry.count + hand[c].count
          => carry.count + hand[c].count <= state.out
    BY Basics, MoveCarryHand
  <2>2. carry.count + hand[c].count <= state.out
    BY <1>1, <2>1, Basics
  <2>3. carry.count \in Nat /\ hand[c].count \in Nat /\ state.out \in Half
    BY <1>1, Basics
  <2>4. carry.count + hand[c].count <= MaxWord
    BY <2>2, <2>3, Basics
  <2>5. w.count = carry.count + hand[c].count
    BY <2>4 DEF Merged, Plus
  <2> QED BY <2>3, <2>5, Basics
<1>3. /\ carry' = w /\ hand' = [hand EXCEPT ![c] = Empty]
      /\ pc' = [pc EXCEPT ![c] = "held"]
      /\ ring' = ring /\ poller' = poller /\ state' = state
  BY DEF AddCarry, Goto
<1> HIDE DEF w
<1>4. LocalsOK'
  BY <1>3, Basics, CallerLocals
<1>5. AddUp(Cells(ring, w, poller.freed, [hand EXCEPT ![c] = Empty]),
            NumCells, state.out)
  BY <1>1, <1>2, Basics, MoveCarryHand
<1>6. Sum'
  <2>1. AddUp(Cells(ring', carry', poller'.freed, hand'), NumCells, state'.out)
    BY <1>3, <1>5
  <2> QED BY <2>1, SumNext
<1> QED BY <1>3, <1>4, <1>6, CounterStutter

\* A caller that moves on and changes no word.
LEMMA LocalStep ==
    ASSUME IInv, TypeOK', NEW c \in Callers,
           NEW to \in {"idle", "held", "test", "takeCarry", "scan"},
           pc[c] \in {"held", "test", "takeCarry", "scan"},
           pc' = [pc EXCEPT ![c] = to],
           UNCHANGED <<state, ring, carry, hand, poller>>
    PROVE  LocalsOK' /\ Sum' /\ CounterStep
<1>1. hand[c].count = 0
  BY DEF IInv, LocalsOK
<1>2. hand[c] \in Word /\ hand' = [hand EXCEPT ![c] = hand[c]]
  BY Basics
<1>3. LocalsOK'
  BY <1>1, <1>2, CallerLocals
<1>4. Sum'
  BY Basics DEF Sum
<1> QED BY <1>3, <1>4, CounterStutter

\* A caller takes one count from a bucket.
LEMMA TakeRingStep ==
    ASSUME IInv, TypeOK', NEW c \in Callers, NEW i \in Slots,
           pc[c] \in {"held", "scan"}, ring[i].count > 0,
           ring' = [ring EXCEPT ![i] = Taken(ring[i])],
           hand' = [hand EXCEPT ![c] = [sec |-> 0, count |-> 1]],
           pc' = [pc EXCEPT ![c] = "decrement"],
           UNCHANGED <<state, carry, poller>>
    PROVE  LocalsOK' /\ Sum' /\ CounterStep
<1> DEFINE w == Taken(ring[i])
           v == [sec |-> 0, count |-> 1]
<1>1. ring[i] \in Word /\ w \in Word /\ v \in Word /\ v.count = 1
  BY Basics, WordTypes
<1>2. w.count + v.count = ring[i].count + hand[c].count
  <2>1. hand[c].count = 0
    BY DEF IInv, LocalsOK
  <2>2. ring[i].count \in Nat
    BY <1>1, Basics
  <2>3. w.count = ring[i].count - 1
    BY <1>1, <2>2, Basics DEF Taken, Word
  <2> QED BY <1>1, <2>1, <2>2, <2>3
<1> HIDE DEF w, v
<1>3. LocalsOK'
  BY <1>1, CallerLocals DEF v
<1>4. AddUp(Cells([ring EXCEPT ![i] = w], carry, poller.freed,
                  [hand EXCEPT ![c] = v]), NumCells, state.out)
  BY <1>1, <1>2, Basics, MoveRingHand
<1>5. Sum'
  <2>1. AddUp(Cells(ring', carry', poller'.freed, hand'), NumCells, state'.out)
    BY <1>4 DEF w, v
  <2> QED BY <2>1, SumNext
<1> QED BY <1>3, <1>5, CounterStutter

\* A caller takes one count from carry, or finds none that is late enough.
LEMMA TakeCarryStep ==
    ASSUME IInv, TypeOK', NEW c \in Callers, NEW m,
           pc[c] \in {"takeCarry", "scan"}, TakeFromCarry(c, m)
    PROVE  LocalsOK' /\ Sum' /\ CounterStep
<1> DEFINE w == Taken(carry)
           v == [sec |-> 0, count |-> 1]
<1>1. CASE carry.count > 0 /\ carry.sec >= m
  <2>1. w \in Word /\ v \in Word /\ v.count = 1
    BY Basics, WordTypes
  <2>2. w.count + v.count = carry.count + hand[c].count
    <3>1. hand[c].count = 0
      BY DEF IInv, LocalsOK
    <3>2. carry.count \in Nat
      BY Basics
    <3>3. w.count = carry.count - 1
      BY <1>1, <3>2, Basics DEF Taken, Word
    <3> QED BY <2>1, <3>1, <3>2, <3>3
  <2>3. /\ carry' = w /\ hand' = [hand EXCEPT ![c] = v]
        /\ pc' = [pc EXCEPT ![c] = "decrement"]
        /\ ring' = ring /\ poller' = poller /\ state' = state
    BY <1>1 DEF TakeFromCarry, Goto
  <2> HIDE DEF w, v
  <2>4. LocalsOK'
    BY <2>1, <2>3, CallerLocals
  <2>5. AddUp(Cells(ring, w, poller.freed, [hand EXCEPT ![c] = v]),
              NumCells, state.out)
    BY <2>1, <2>2, Basics, MoveCarryHand
  <2>6. Sum'
    <3>1. AddUp(Cells(ring', carry', poller'.freed, hand'), NumCells, state'.out)
      BY <2>3, <2>5
    <3> QED BY <3>1, SumNext
  <2> QED BY <2>3, <2>4, <2>6, CounterStutter
<1>2. CASE ~(carry.count > 0 /\ carry.sec >= m)
  <2>1. /\ pc' = [pc EXCEPT ![c] = "idle"]
        /\ UNCHANGED <<state, ring, carry, hand, poller>>
    BY <1>2 DEF TakeFromCarry, Reset, Goto
  <2> QED BY <2>1, LocalStep
<1> QED BY <1>1, <1>2

\* Decrement: the caller's count leaves the state word, which is not zero.
LEMMA DecrementStep ==
    ASSUME IInv, TypeOK', NEW c \in Callers, Decrement(c)
    PROVE  LocalsOK' /\ Sum' /\ CounterStep
<1>1. hand[c].count = 1
  BY DEF IInv, LocalsOK, Decrement
<1>2. \A v \in Word :
        /\ hand[c].count <= state.out
        /\ AddUp(Cells(ring, carry, poller.freed, [hand EXCEPT ![c] = v]),
                 NumCells, state.out - hand[c].count + v.count)
  BY Basics, ChangeHand
<1>3. /\ state.out \in Nat /\ state.out > 0
      /\ state.out - 1 + 0 = state.out - 1
  <2>1. state.out \in Nat /\ Empty \in Word
    BY Basics
  <2>2. hand[c].count <= state.out
    BY <1>2, <2>1
  <2>3. 1 <= state.out
    BY <1>1, <2>2
  <2> QED BY <2>1, <2>3
<1>4. AddUp(Cells(ring, carry, poller.freed, [hand EXCEPT ![c] = Empty]),
            NumCells, state.out - 1)
  <2>1. Empty \in Word /\ Empty.count = 0
    BY Basics
  <2>2. AddUp(Cells(ring, carry, poller.freed, [hand EXCEPT ![c] = Empty]),
              NumCells, state.out - 1 + 0)
    BY <1>1, <1>2, <2>1
  <2> QED BY <1>3, <2>2
<1>5. /\ hand' = [hand EXCEPT ![c] = Empty] /\ pc' = [pc EXCEPT ![c] = "idle"]
      /\ ring' = ring /\ carry' = carry /\ poller' = poller
      /\ state'.out = state.out - 1 /\ state'.warm = state.warm
  <2>1. state' = [state EXCEPT !.out = state.out - 1]
    BY <1>3 DEF Decrement
  <2>2. state'.out = state.out - 1 /\ state'.warm = state.warm
    BY <2>1, Basics
  <2> QED BY <2>2 DEF Decrement, Reset, Goto
<1>6. LocalsOK'
  BY <1>5, Basics, CallerLocals
<1>7. Sum'
  <2>1. AddUp(Cells(ring', carry', poller'.freed, hand'), NumCells, state'.out)
    BY <1>4, <1>5
  <2> QED BY <2>1, SumNext
<1>8. Counter!Undo
  BY <1>3, <1>5 DEF Counter!Undo
<1> QED BY <1>6, <1>7, <1>8 DEF CounterStep, Counter!Next

-----------------------------------------------------------------------------
(* The poller's steps.                                                     *)

LEMMA SetWarmStep ==
    ASSUME IInv, TypeOK', NEW n \in Reports, NEW cutoff \in Cutoffs,
           SetWarm(n, cutoff)
    PROVE  LocalsOK' /\ Sum' /\ CounterStep
<1>1. /\ state'.warm = Clamp(n) /\ state'.out = state.out
      /\ poller'.freed = poller.freed /\ poller'.at = "raise" /\ poller'.freed = 0
      /\ UNCHANGED <<ring, carry, pc, hand>>
  <2>1. poller.freed = 0
    BY DEF IInv, LocalsOK, SetWarm
  <2>2. poller'.freed = 0 /\ poller'.at = "raise"
    BY DEF SetWarm, Idle
  <2> QED BY <2>1, <2>2, Basics DEF SetWarm
<1>2. LocalsOK'
  BY <1>1 DEF IInv, LocalsOK
<1>3. Sum'
  BY <1>1 DEF IInv, Sum
<1>4. Clamp(n) \in 0..MaxWord
  BY LedgerAssumption, WordTypes DEF Half
<1>5. Counter!ReportWarm
  BY <1>1, <1>4 DEF Counter!ReportWarm
<1> QED BY <1>2, <1>3, <1>5 DEF CounterStep, Counter!Next

LEMMA RaiseClearedStep ==
    ASSUME IInv, TypeOK', RaiseCleared
    PROVE  LocalsOK' /\ Sum' /\ CounterStep
<1>1. /\ poller'.freed = poller.freed /\ poller'.at = "drop"
      /\ UNCHANGED <<ring, carry, pc, hand, state>>
  BY DEF RaiseCleared, IInv, TypeOK
<1>2. LocalsOK'
  BY <1>1 DEF IInv, LocalsOK
<1>3. Sum'
  BY <1>1 DEF IInv, Sum
<1> QED BY <1>1, <1>2, <1>3, CounterStutter

\* A dropped bucket's count goes to freed, which cannot wrap.
LEMMA DropBucketStep ==
    ASSUME IInv, TypeOK', DropBucket
    PROVE  LocalsOK' /\ Sum' /\ CounterStep
<1> DEFINE i == poller.slot
<1>1. i \in Slots /\ UNCHANGED <<state, carry, pc, hand>> /\ poller.at = "drop"
  BY LedgerAssumption DEF DropBucket, IInv, TypeOK, Slots
<1>2. /\ ring[i].count + poller.freed <= state.out
      /\ AddUp(Cells([ring EXCEPT ![i] = Empty], carry,
                     poller.freed + ring[i].count, hand), NumCells, state.out)
  BY <1>1, Basics, MoveRingFreed
<1>3. CASE Droppable(ring[i], poller.cutoff)
  <2>1. Plus(poller.freed, ring[i].count) = poller.freed + ring[i].count
    <3>1. /\ ring[i].count \in Nat /\ poller.freed \in Nat
          /\ state.out \in Nat /\ state.out <= MaxWord
      BY <1>1, Basics
    <3>2. poller.freed + ring[i].count <= MaxWord
      BY <1>2, <3>1, Basics
    <3> QED BY <3>2 DEF Plus
  <2>2. /\ ring' = [ring EXCEPT ![i] = Empty]
        /\ poller'.freed = poller.freed + ring[i].count /\ poller'.at = "drop"
    <3>1. poller' = [poller EXCEPT !.slot = i + 1,
                       !.freed = poller.freed + ring[i].count]
      BY <1>3, <2>1 DEF DropBucket
    <3> QED BY <1>1, <1>3, <3>1 DEF DropBucket, IInv, TypeOK
  <2>3. LocalsOK'
    BY <1>1, <2>2 DEF IInv, LocalsOK
  <2>4. Sum'
    <3>1. AddUp(Cells(ring', carry', poller'.freed, hand'), NumCells, state'.out)
      BY <1>1, <1>2, <2>2
    <3> QED BY <3>1, SumNext
  <2> QED BY <1>1, <2>3, <2>4, CounterStutter
<1>4. CASE ~Droppable(ring[i], poller.cutoff)
  <2>1. /\ UNCHANGED ring
        /\ poller'.freed = poller.freed /\ poller'.at = "drop"
    BY <1>1, <1>4 DEF DropBucket, IInv, TypeOK
  <2>2. LocalsOK'
    BY <1>1, <2>1 DEF IInv, LocalsOK
  <2>3. Sum'
    BY <1>1, <2>1 DEF IInv, Sum
  <2> QED BY <1>1, <2>2, <2>3, CounterStutter
<1> QED BY <1>3, <1>4

LEMMA DropCarryStep ==
    ASSUME IInv, TypeOK', DropCarry
    PROVE  LocalsOK' /\ Sum' /\ CounterStep
<1>1. UNCHANGED <<state, ring, pc, hand>>
  BY DEF DropCarry
<1>2. /\ carry.count + poller.freed <= state.out
      /\ AddUp(Cells(ring, Empty, poller.freed + carry.count, hand),
               NumCells, state.out)
  BY Basics, MoveCarryFreed
<1>3. CASE Droppable(carry, poller.cutoff)
  <2>1. Plus(poller.freed, carry.count) = poller.freed + carry.count
    <3>1. /\ carry.count \in Nat /\ poller.freed \in Nat
          /\ state.out \in Nat /\ state.out <= MaxWord
      BY Basics
    <3>2. poller.freed + carry.count <= MaxWord
      BY <1>2, <3>1, Basics
    <3> QED BY <3>2 DEF Plus
  <2>2. /\ carry' = Empty
        /\ poller'.freed = poller.freed + carry.count /\ poller'.at = "free"
    <3>1. poller' = [poller EXCEPT !.at = "free",
                       !.freed = poller.freed + carry.count]
      BY <1>3, <2>1 DEF DropCarry
    <3> QED BY <1>3, <3>1 DEF DropCarry, IInv, TypeOK
  <2>3. LocalsOK'
    BY <1>1, <2>2 DEF IInv, LocalsOK
  <2>4. Sum'
    <3>1. AddUp(Cells(ring', carry', poller'.freed, hand'), NumCells, state'.out)
      BY <1>1, <1>2, <2>2
    <3> QED BY <3>1, SumNext
  <2> QED BY <1>1, <2>3, <2>4, CounterStutter
<1>4. CASE ~Droppable(carry, poller.cutoff)
  <2>1. /\ UNCHANGED carry
        /\ poller'.freed = poller.freed /\ poller'.at = "free"
    BY <1>4 DEF DropCarry, IInv, TypeOK
  <2>2. LocalsOK'
    BY <1>1, <2>1 DEF IInv, LocalsOK
  <2>3. Sum'
    BY <1>1, <2>1 DEF IInv, Sum
  <2> QED BY <1>1, <2>2, <2>3, CounterStutter
<1> QED BY <1>3, <1>4

\* The unchecked subtraction takes away no more than there is.
LEMMA SubtractFreedStep ==
    ASSUME IInv, TypeOK', SubtractFreed
    PROVE  LocalsOK' /\ Sum' /\ CounterStep
<1>1. /\ poller.freed <= state.out
      /\ AddUp(Cells(ring, carry, 0, hand), NumCells, state.out - poller.freed)
  BY Basics, ChangeFreed
<1>2. /\ poller.freed \in Nat /\ state.out \in Nat
      /\ Minus(state.out, poller.freed) = state.out - poller.freed
  <2>1. poller.freed \in Nat /\ state.out \in Nat
    BY Basics
  <2> QED BY <1>1, <2>1 DEF Minus
<1>3. /\ state'.out = state.out - poller.freed /\ state'.warm = state.warm
      /\ poller'.freed = 0 /\ UNCHANGED <<ring, carry, pc, hand>>
  <2>1. state' = [state EXCEPT !.out = state.out - poller.freed]
    BY <1>2 DEF SubtractFreed
  <2>2. state'.out = state.out - poller.freed /\ state'.warm = state.warm
    BY <2>1, Basics
  <2> QED BY <2>2 DEF SubtractFreed, Idle
<1>4. LocalsOK'
  BY <1>3 DEF IInv, LocalsOK
<1>5. Sum'
  <2>1. AddUp(Cells(ring', carry', poller'.freed, hand'), NumCells, state'.out)
    BY <1>1, <1>3
  <2> QED BY <2>1, SumNext
<1>6. Counter!Account
  <2>1. state'.out \in 0..state.out
    BY <1>1, <1>2, <1>3
  <2> QED BY <1>3, <2>1 DEF Counter!Account
<1> QED BY <1>4, <1>5, <1>6 DEF CounterStep, Counter!Next

-----------------------------------------------------------------------------
LEMMA InitInv == Init => IInv
<1> SUFFICES ASSUME Init PROVE IInv
  OBVIOUS
<1>1. TypeOK
  <2>1. 0 \in Half
    BY LedgerAssumption DEF Half
  <2> QED BY <2>1, WordTypes, LedgerAssumption DEF Init, TypeOK, Idle
<1>2. LocalsOK
  BY DEF Init, LocalsOK, Idle, Empty
<1>3. AddUp(Cells(ring, carry, poller.freed, hand), NumCells, 0)
  <2> DEFINE f == Cells(ring, carry, poller.freed, hand)
  <2>1. /\ \A j \in Slots : ring[j].count = 0
        /\ carry.count = 0 /\ poller.freed = 0 /\ 0 \in Nat
        /\ \A c \in Callers : hand[c].count = 0
    BY DEF Init, Idle, Empty
  <2>2. CellValues(f, ring, carry, poller.freed, hand)
    BY <1>1, <2>1, CellsType DEF TypeOK
  <2> HIDE DEF f
  <2>3. ASSUME NEW i \in 0..(NumCells - 1) PROVE f[i] = 0
    <3>1. CASE i \in Slots
      BY <2>1, <2>2, <3>1 DEF CellValues
    <3>2. CASE i = RingSize \/ i = RingSize + 1
      BY <2>1, <2>2, <3>2 DEF CellValues
    <3>3. ASSUME NEW c \in Callers, i = RingSize + 1 + c PROVE f[i] = 0
      BY <2>1, <2>2, <3>3 DEF CellValues
    <3> QED BY <3>1, <3>2, <3>3, CellKinds
  <2>4. NumCells \in Nat
    BY <2>2 DEF CellValues
  <2>5. AddUp(f, NumCells, 0)
    BY <2>3, <2>4, AddUpZero
  <2> QED BY <2>5 DEF f
<1>4. Sum
  <2>1. state.out = 0 /\ Half \subseteq Nat
    BY DEF Init, Half
  <2>2. /\ ring \in [Slots -> Word] /\ carry \in Word /\ poller.freed \in Half
        /\ hand \in [Callers -> Word] /\ state.out \in Half
    BY <1>1 DEF TypeOK
  <2> QED BY <1>3, <2>1, <2>2 DEF Sum, IsCells
<1> QED BY <1>1, <1>2, <1>4 DEF IInv

\* The steps of a caller.
LEMMA CallerSteps ==
    ASSUME IInv, TypeOK', NEW c \in Callers,
           (\E now \in Seconds : Reserve(c, now)) \/ Finish(c)
    PROVE  LocalsOK' /\ Sum' /\ CounterStep
<1>1. ASSUME NEW now \in Seconds, Reserve(c, now)
      PROVE  LocalsOK' /\ Sum' /\ CounterStep
  BY <1>1, ReserveStep
<1>2. CASE Record(c)
  BY <1>2, RecordStep
<1>3. CASE AddCarry(c)
  BY <1>3, AddCarryStep
<1>4. CASE Keep(c)
  <2>1. /\ pc[c] \in {"held", "test", "takeCarry", "scan"}
        /\ pc' = [pc EXCEPT ![c] = "idle"]
        /\ UNCHANGED <<state, ring, carry, hand, poller>>
    BY <1>4 DEF Keep, Reset, Goto
  <2> QED BY <2>1, LocalStep
<1>5. CASE ReleaseAt(c)
  <2> DEFINE i == SlotOf(ticket[c])
  <2>1. i \in Slots
    BY Basics, SlotType
  <2>2. pc[c] = "held"
    BY <1>5 DEF ReleaseAt
  <2>3. CASE ring[i].count > 0 /\ ring[i].sec = ticket[c]
    <3>1. /\ ring' = [ring EXCEPT ![i] = Taken(ring[i])]
          /\ hand' = [hand EXCEPT ![c] = [sec |-> 0, count |-> 1]]
          /\ pc' = [pc EXCEPT ![c] = "decrement"]
          /\ UNCHANGED <<state, carry, poller>>
      BY <1>5, <2>3 DEF ReleaseAt, Goto
    <3> HIDE DEF i
    <3> QED BY <2>1, <2>2, <2>3, <3>1, TakeRingStep
  <2>4. CASE ~(ring[i].count > 0 /\ ring[i].sec = ticket[c])
    <3>1. /\ pc' = [pc EXCEPT ![c] = "test"]
          /\ UNCHANGED <<state, ring, carry, hand, poller>>
      BY <1>5, <2>4 DEF ReleaseAt, Goto
    <3> QED BY <2>2, <3>1, LocalStep
  <2> QED BY <2>3, <2>4
<1>6. CASE TestCleared(c)
  <2>1. /\ pc[c] \in {"held", "test", "takeCarry", "scan"}
        /\ UNCHANGED <<state, ring, carry, hand, poller>>
        /\ \/ pc' = [pc EXCEPT ![c] = "idle"]
           \/ pc' = [pc EXCEPT ![c] = "takeCarry"]
    BY <1>6 DEF TestCleared, Reset, Goto
  <2> QED BY <2>1, LocalStep
<1>7. CASE TakeCarryAt(c)
  BY <1>7, TakeCarryStep DEF TakeCarryAt
<1>8. CASE Decrement(c)
  BY <1>8, DecrementStep
<1>9. ASSUME NEW now \in Seconds, Release(c, now)
      PROVE  LocalsOK' /\ Sum' /\ CounterStep
  <2>1. /\ pc[c] \in {"held", "test", "takeCarry", "scan"}
        /\ pc' = [pc EXCEPT ![c] = "scan"]
        /\ UNCHANGED <<state, ring, carry, hand, poller>>
    BY <1>9 DEF Release, Goto
  <2> QED BY <2>1, LocalStep
<1>10. CASE TakeOne(c)
  <2> DEFINE i == SlotOf(ticket[c] + RingSize - scan[c])
  <2>1. i \in Slots
    <3>1. ticket[c] \in Nat /\ scan[c] \in 0..RingSize /\ RingSize \in Nat
      BY Basics
    <3>2. ticket[c] + RingSize - scan[c] \in Nat
      BY <3>1
    <3> QED BY <3>2, SlotType
  <2>2. pc[c] = "scan"
    BY <1>10 DEF TakeOne
  <2>3. CASE ring[i].count > 0
    <3>1. /\ ring' = [ring EXCEPT ![i] = Taken(ring[i])]
          /\ hand' = [hand EXCEPT ![c] = [sec |-> 0, count |-> 1]]
          /\ pc' = [pc EXCEPT ![c] = "decrement"]
          /\ UNCHANGED <<state, carry, poller>>
      BY <1>10, <2>3 DEF TakeOne, Goto
    <3> HIDE DEF i
    <3> QED BY <2>1, <2>2, <2>3, <3>1, TakeRingStep
  <2>4. CASE ~(ring[i].count > 0)
    <3>1. UNCHANGED <<state, ring, carry, hand, poller, pc>>
      BY <1>10, <2>4 DEF TakeOne
    <3>2. pc' = [pc EXCEPT ![c] = "scan"]
      BY <2>2, <3>1 DEF IInv, TypeOK
    <3> QED BY <2>2, <3>1, <3>2, LocalStep
  <2> QED BY <2>3, <2>4
<1>11. CASE TakeCarryAny(c)
  BY <1>11, TakeCarryStep DEF TakeCarryAny
<1> QED BY <1>1, <1>2, <1>3, <1>4, <1>5, <1>6, <1>7, <1>8, <1>9, <1>10, <1>11
        DEF Finish

\* One step keeps the invariant and is a step of the counter, or a stutter.
LEMMA NextInv == IInv /\ [Next]_vars => IInv' /\ CounterStep
<1> SUFFICES ASSUME IInv, [Next]_vars PROVE IInv' /\ CounterStep
  OBVIOUS
<1>1. CASE UNCHANGED vars
  BY <1>1, CounterStutter DEF vars, IInv, TypeOK, LocalsOK, Sum
<1>2. ASSUME NEW c \in Callers,
             (\E now \in Seconds : Reserve(c, now)) \/ Finish(c)
      PROVE  IInv' /\ CounterStep
  <2>1. TypeOK'
    BY <1>2, CallerTypes DEF IInv
  <2> QED BY <1>2, <2>1, CallerSteps DEF IInv
<1>3. ASSUME (\E n \in Reports, cutoff \in Cutoffs : Poll(n, cutoff)) \/ PollerStep
      PROVE  IInv' /\ CounterStep
  <2>1. TypeOK'
    BY <1>3, PollerTypes DEF IInv
  <2> QED BY <1>3, <2>1, SetWarmStep, RaiseClearedStep, DropBucketStep,
             DropCarryStep, SubtractFreedStep DEF Poll, PollerStep, IInv
<1> QED BY <1>1, <1>2, <1>3 DEF Next

\* What the state word says is reserved is at any moment what the buckets, carry, the
\* poller and the callers' hands count together (ledger.go:24-27 and 333): nothing is
\* counted twice or dropped.
THEOREM AccountingAlways == Spec => []Accounting
<1>1. IInv => Accounting
  <2> SUFFICES ASSUME IInv PROVE Accounting
    OBVIOUS
  <2> DEFINE cells == Cells(ring, carry, poller.freed, hand)
  <2>1. Cardinality(Units(cells, NumCells)) = state.out
    BY Basics DEF IsCells, AddUp
  <2>2. \A i \in 0..(NumCells - 1) : cells[i] = Count(i)
    BY DEF Cells, Count
  <2> HIDE DEF cells
  <2>3. Units(cells, NumCells) = Counted
    BY <2>2 DEF Units, Counted
  <2> QED BY <2>1, <2>3 DEF Accounting
<1> QED BY <1>1, InitInv, NextInv, PTL DEF Spec

\* The unchecked subtraction in clearBefore never wraps, and a release that took
\* a count always finds one to give back (ledger.go:243 and 333-337): whatever
\* a thread holds is part of the sum that the state word equals.
THEOREM NoUnderflowAlways == Spec => []NoUnderflow
<1>1. IInv => NoUnderflow
  <2> SUFFICES ASSUME IInv PROVE NoUnderflow
    OBVIOUS
  <2>1. poller.freed <= state.out
    BY Basics, ChangeFreed
  <2>2. ASSUME NEW c \in Callers, pc[c] = "decrement" PROVE state.out > 0
    <3>1. hand[c].count = 1
      BY <2>2 DEF IInv, LocalsOK
    <3>2. \A v \in Word : hand[c].count <= state.out
      BY Basics, ChangeHand
    <3>3. state.out \in Nat /\ Empty \in Word
      BY Basics
    <3>4. 1 <= state.out
      BY <3>1, <3>2, <3>3
    <3> QED BY <3>3, <3>4
  <2> QED BY <2>1, <2>2 DEF NoUnderflow
<1> QED BY <1>1, InitInv, NextInv, PTL DEF Spec

\* The ledger implements the reservation counter of registry.go:374-392: no
\* thread's step, whatever it interleaves with, does to the capacity and the
\* reservations anything a claim, an undo or a report may not do.
THEOREM LedgerImplementsCounter == Spec => ImplementsCounter
<1>1. Init => Counter!Init
  BY DEF Init, Counter!Init
<1>2. IInv /\ [Next]_vars => [Counter!Next]_(Counter!vars)
  BY NextInv DEF CounterStep
<1>3. IInv /\ [Next]_vars => IInv'
  BY NextInv
<1> QED BY <1>1, <1>2, <1>3, InitInv, PTL DEF Spec, ImplementsCounter, Counter!Spec

=============================================================================
