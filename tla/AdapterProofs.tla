----------------------------- MODULE AdapterProofs -----------------------------
(***************************************************************************)
(* Proofs about the adapters' side: module E2B, and module Reaper in       *)
(* the last part, for every value of the constants they allow.             *)
(*                                                                         *)
(* About E2B: for any specs, timeout, TTLs, tolerance, delay of the        *)
(* service and length of its lists, any number of calls and sandboxes, and *)
(* answers lost at any time, a key never has two sandboxes, and a Lookup   *)
(* that finds nothing is right for good, Doubtful sandboxes apart.         *)
(*                                                                         *)
(* A sandbox is Spent when no call should hand it out any more: it is gone *)
(* or going, it started after the deadline of the call that asked for it,  *)
(* or that deadline has passed and it has not started.  A sandbox that is  *)
(* Spent remains so, and of those the adapter has in sight at most one is  *)
(* not.                                                                    *)
(***************************************************************************)
EXTENDS E2B, Reaper, SequenceTheorems, FiniteSetTheorems, TLAPS

Box == [at : {"asked", "running", "killing", "gone"}, spec : Specs, asked : Nat,
        deadline : Nat, expires : Nat, short : Nat, started : Nat, end : Nat]

Places == {"idle", "list", "next", "drop", "promote", "detail", "create", "created",
           "extend", "confirm"}

Calls == [pc : Places, op : {"", "claim", "lookup"}, spec : Specs \cup {AnySpec},
          deadline : Nat, seen : Seq(Box), left : SUBSET Nat, on : Nat]

Types ==
    /\ now \in 0..MaxTime /\ calls \in 0..MaxCalls /\ hold \in Nat
    /\ boxes \in Seq(Box) /\ Len(boxes) <= MaxBoxes
    /\ call \in Calls
    /\ kills \cup given \cup buried \cup strays \subseteq 1..Len(boxes)

\* The places at which a call deals with one sandbox.
Handling == {"drop", "promote", "detail", "created", "extend", "confirm"}

\* The places after the list has been read.
Sifting == {"next", "drop", "promote", "detail"}

\* A call may hand it out, as far as its times go.
Known(b) == Late(b) => Unmarked(b)

\* Promoted tells the sandboxes that started late from the others, if they are marked.
Distinct(b) == ~Known(b) => ~Promoted(b)

\* The times of a sandbox at time t.
Timed(b, t) ==
    /\ b.asked <= t /\ b.asked <= b.deadline /\ b.deadline <= b.asked + Timeout
    /\ b.short \in 1..Timeout
    /\ b.at # "asked" => b.started <= t
    /\ b.at = "asked" => b.started = 0
    /\ Distinct(b)

Times == \A i \in 1..Len(boxes) : Timed(boxes[i], now)

Gone(b) == b.at \in {"killing", "gone"}

Spent(b, t) ==
    \/ Gone(b)
    \/ b.at = "asked" /\ b.deadline < t
    \/ b.at = "running" /\ Late(b)

\* Nothing is expected of it any more.
Past(i) == Spent(boxes[i], now) \/ i \in strays

Alone == \A i, j \in 1..Len(boxes) : i = j \/ Past(i) \/ Past(j)

Answers == \A i \in given : boxes[i].at # "asked" /\ Known(boxes[i])

Graves == \A i \in buried : /\ Past(i)
                            /\ i \in given => Late(boxes[i]) \/ i \in strays

Handles ==
    /\ call.pc # "idle" => call.op \in {"claim", "lookup"}
    /\ call.op = "claim" => call.spec \in Specs
    /\ call.pc \in {"create", "created", "extend"} => call.op = "claim"
    /\ call.pc \in Handling => call.on \in 1..Len(boxes)
    /\ call.pc # "idle" => call.deadline <= now + Timeout /\ hold <= now

\* A listed sandbox s as it is now, b.
Listed(s, b) ==
    /\ b.at # "asked"
    /\ s.started = b.started /\ s.deadline = b.deadline
    /\ s.short = b.short /\ s.expires = b.expires
    /\ Distinct(s)

Sifted ==
    call.pc \in Sifting =>
        /\ Len(call.seen) = Len(boxes)
        /\ call.left \subseteq 1..Len(boxes)
        /\ \A i \in call.left : Listed(call.seen[i], boxes[i])
        /\ \A i \in 1..Len(boxes) :
              \/ i \in call.left
              \/ call.pc \in {"promote", "detail"} /\ i = call.on
              \/ Past(i)

\* The sandbox a call deals with passes for one in time; when it makes one, nothing is
\* expected of the others.
Handled ==
    /\ call.pc \in {"promote", "detail", "extend", "confirm"} =>
          boxes[call.on].at # "asked" /\ Known(boxes[call.on])
    /\ call.pc \in {"created", "extend"} => boxes[call.on].deadline = call.deadline
    /\ call.pc = "create" => \A i \in 1..Len(boxes) : Past(i)

\* What nobody waits for any more starts late, if a call may begin at all.
Waited ==
    \A i \in 1..Len(boxes) :
        boxes[i].at = "asked" =>
            \/ call.pc = "created" /\ call.on = i
            \/ boxes[i].deadline < now
            \/ boxes[i].deadline < hold
            \/ i \in strays

Base == Types /\ Times /\ Handles

Safe == Alone /\ Answers /\ Graves /\ Sifted /\ Handled /\ Waited

IInv == Base /\ Safe

-----------------------------------------------------------------------------
(* The constants.                                                          *)

LEMMA Numbers ==
    /\ Timeout \in Nat /\ MaxDelay \in Nat /\ MaxTime \in Nat /\ Slack \in Nat
    /\ MaxBoxes \in Nat /\ MaxCalls \in Nat
    /\ Timeout > 0 /\ \A ttl \in TTLs : ttl \in Nat /\ ttl > 0
  BY E2BAssumption DEF E2BAssumption

-----------------------------------------------------------------------------
(* What may become of the sandboxes in a step that asks for none.          *)

Moves(b, c) ==
    /\ c.spec = b.spec /\ c.asked = b.asked
    /\ c.deadline = b.deadline /\ c.expires = b.expires /\ c.short = b.short
    /\ Gone(b) => Gone(c)
    /\ b.at # "asked" => c.at # "asked" /\ c.started = b.started
    /\ b.at = "asked" => c = b \/ (c.at = "running" /\ c.started = now)
    /\ Distinct(c)

Evolves ==
    /\ boxes' \in Seq(Box) /\ Len(boxes') = Len(boxes)
    /\ now' \in 0..MaxTime /\ now <= now'
    /\ strays \subseteq strays' /\ strays' \subseteq 1..Len(boxes)
    /\ \A i \in 1..Len(boxes) : Moves(boxes[i], boxes'[i])

LEMMA MovesSpent ==
  ASSUME NEW b \in Box, NEW c \in Box, Moves(b, c), NEW t \in Nat, now \in Nat,
         now <= t, Spent(b, now)
  PROVE  Spent(c, t)
<1>1. CASE Gone(b)
  BY <1>1 DEF Moves, Spent
<1>2. CASE b.at = "asked" /\ b.deadline < now
  <2>1. CASE c = b
    BY <2>1, <1>2 DEF Box, Spent
  <2>2. CASE c.at = "running" /\ c.started = now
    BY <2>2, <1>2 DEF Box, Moves, Spent, Late
  <2> QED BY <1>2, <2>1, <2>2 DEF Moves
<1>3. CASE b.at = "running" /\ Late(b)
  <2>1. c.at \in {"running", "killing", "gone"} /\ Late(c)
    BY <1>3 DEF Box, Moves, Late
  <2> QED BY <2>1 DEF Spent, Gone
<1> QED BY <1>1, <1>2, <1>3 DEF Spent

LEMMA MovesTimed ==
  ASSUME NEW b \in Box, NEW c \in Box, Moves(b, c), NEW t \in Nat, now \in Nat,
         now <= t, Timed(b, now)
  PROVE  Timed(c, t)
<1>1. CASE b.at = "asked" /\ c = b
  BY <1>1, Numbers DEF Box, Timed
<1>2. CASE b.at = "asked" /\ c.at = "running" /\ c.started = now
  BY <1>2, Numbers DEF Box, Timed, Moves
<1>3. CASE b.at # "asked"
  BY <1>3, Numbers DEF Box, Timed, Moves
<1> QED BY <1>1, <1>2, <1>3 DEF Moves

LEMMA Elements ==
  ASSUME NEW s \in Seq(Box)
  PROVE  Len(s) \in Nat /\ \A i \in 1..Len(s) : s[i] \in Box
  OBVIOUS

LEMMA Evolution ==
  ASSUME Base, Evolves
  PROVE  /\ Times'
         /\ \A i \in 1..Len(boxes) : Past(i) => Past(i)'
         /\ Alone => Alone'
         /\ Answers /\ given' = given => Answers'
         /\ Graves /\ given' = given /\ buried' = buried => Graves'
<1>1. /\ now \in Nat /\ now' \in Nat /\ now <= now'
      /\ Len(boxes') = Len(boxes)
      /\ given \subseteq 1..Len(boxes) /\ buried \subseteq 1..Len(boxes)
  BY Numbers DEF Base, Types, Evolves
<1>2. \A i \in 1..Len(boxes) : boxes[i] \in Box /\ boxes'[i] \in Box
  BY <1>1, Elements DEF Base, Types, Evolves
<1>3. \A i \in 1..Len(boxes) : Past(i) => Past(i)'
  <2>1. \A i \in 1..Len(boxes) : Spent(boxes[i], now) => Spent(boxes'[i], now')
    BY <1>1, <1>2, MovesSpent DEF Evolves
  <2> QED BY <2>1 DEF Evolves, Past
<1>4. Times'
  BY <1>1, <1>2, MovesTimed DEF Base, Times, Evolves
<1>5. Alone => Alone'
  BY <1>1, <1>3 DEF Alone
<1>6. Answers /\ given' = given => Answers'
  <2> SUFFICES ASSUME Answers, given' = given, NEW i \in given
               PROVE  boxes'[i].at # "asked" /\ Known(boxes'[i])
    BY DEF Answers
  <2>1. boxes[i].at # "asked" /\ Known(boxes[i]) /\ Moves(boxes[i], boxes'[i])
    BY <1>1 DEF Answers, Evolves
  <2> QED BY <2>1 DEF Moves, Known, Late, Unmarked
<1>7. Graves /\ given' = given /\ buried' = buried => Graves'
  <2> SUFFICES ASSUME Graves, given' = given, buried' = buried, NEW i \in buried
               PROVE  /\ Past(i)'
                      /\ i \in given => Late(boxes'[i]) \/ i \in strays'
    BY DEF Graves
  <2>1. Past(i) /\ Moves(boxes[i], boxes'[i]) /\ boxes[i] \in Box /\ Timed(boxes[i], now)
    BY <1>1, <1>2 DEF Graves, Evolves, Base, Times
  <2>2. Late(boxes[i]) => Late(boxes'[i])
    BY <2>1 DEF Moves, Late, Box, Timed
  <2> QED BY <1>1, <1>3, <2>1, <2>2 DEF Graves, Evolves
<1> QED BY <1>3, <1>4, <1>5, <1>6, <1>7

\* Nothing happens to the sandboxes.
LEMMA Still ==
  ASSUME Base, UNCHANGED <<boxes, now>>,
         strays \subseteq strays', strays' \subseteq 1..Len(boxes)
  PROVE  Evolves
<1>1. \A i \in 1..Len(boxes) : Moves(boxes[i], boxes[i])
  BY DEF Base, Times, Timed, Moves
<1> QED BY <1>1, Numbers DEF Base, Types, Evolves

\* One sandbox changes.
LEMMA Changed ==
  ASSUME Base, NEW i \in 1..Len(boxes), NEW b \in Box, Moves(boxes[i], b),
         boxes' = [boxes EXCEPT ![i] = b], UNCHANGED <<now, strays>>
  PROVE  Evolves
<1>1. /\ boxes \in Seq(Box) /\ boxes' \in Seq(Box) /\ Len(boxes') = Len(boxes)
      /\ \A j \in 1..Len(boxes) : boxes'[j] = IF j = i THEN b ELSE boxes[j]
  BY ExceptSeq DEF Base, Types
<1>2. \A j \in 1..Len(boxes) : Moves(boxes[j], boxes[j])
  BY DEF Base, Times, Timed, Moves
<1> QED BY <1>1, <1>2, Numbers DEF Base, Types, Evolves

\* The service deletes a sandbox, if it runs.
LEMMA DeletedEvolves ==
  ASSUME Base, NEW i \in 1..Len(boxes), boxes' = Deleted(i), UNCHANGED <<now, strays>>
  PROVE  Evolves
<1>1. CASE boxes[i].at = "running"
  <2> DEFINE b == [boxes[i] EXCEPT !.at = "killing"]
  <2>1. boxes[i] \in Box
    BY Elements DEF Base, Types
  <2>2. boxes' = [boxes EXCEPT ![i] = b]
    BY <1>1 DEF Deleted
  <2>3. b \in Box /\ Moves(boxes[i], b)
    BY <1>1, <2>1 DEF Base, Times, Timed, Distinct, Known, Unmarked, Promoted, Late,
                      Moves, Box, Gone
  <2> QED BY <2>2, <2>3, Changed
<1>2. CASE boxes[i].at # "running"
  BY <1>2, Still DEF Deleted, Base, Types
<1> QED BY <1>1, <1>2

\* Setting the timeout of a sandbox that passed for one in time.
LEMMA ExtendedEvolves ==
  ASSUME Base, NEW i \in 1..Len(boxes), boxes' = Extended(i), UNCHANGED <<now, strays>>,
         boxes[i].at # "asked", Known(boxes[i])
  PROVE  Evolves
<1> DEFINE b == [boxes[i] EXCEPT !.end = boxes[i].expires]
<1>1. boxes[i] \in Box
  BY Elements DEF Base, Types
<1>2. boxes' = [boxes EXCEPT ![i] = b]
  BY DEF Extended
<1>3. b \in Box /\ Moves(boxes[i], b)
  BY <1>1 DEF Distinct, Known, Unmarked, Late, Moves, Box, Gone
<1> QED BY <1>2, <1>3, Changed

-----------------------------------------------------------------------------
(* Steps by what they do to the call.                                      *)

\* The service and the background: the call goes on as it was.
LEMMA WorldStep ==
  ASSUME IInv, Evolves, UNCHANGED <<call, given, buried, hold, calls>>, kills' \subseteq kills
  PROVE  IInv'
<1>1. /\ Times' /\ Alone' /\ Answers' /\ Graves'
      /\ \A i \in 1..Len(boxes) : Past(i) => Past(i)'
  BY Evolution DEF IInv, Safe
<1>2. /\ Len(boxes') = Len(boxes) /\ now \in Nat /\ now' \in Nat /\ now <= now'
      /\ \A i \in 1..Len(boxes) : Moves(boxes[i], boxes'[i])
      /\ \A i \in 1..Len(boxes) : boxes[i] \in Box
      /\ hold \in Nat /\ call \in Calls /\ Timeout \in Nat
  BY Numbers, Elements DEF IInv, Base, Types, Evolves
<1>3. Types'
  BY <1>2 DEF IInv, Base, Types, Evolves
<1>4. Handles'
  <2>1. call.deadline \in Nat
    BY <1>2 DEF Calls
  <2>2. call.pc # "idle" => call.deadline <= now' + Timeout /\ hold <= now'
    BY <1>2, <2>1 DEF IInv, Base, Handles
  <2> QED BY <1>2, <2>2 DEF IInv, Base, Handles
<1>5. Sifted'
  <2> SUFFICES ASSUME call.pc \in Sifting
               PROVE  /\ Len(call.seen) = Len(boxes)
                      /\ call.left \subseteq 1..Len(boxes)
                      /\ \A i \in call.left : Listed(call.seen[i], boxes'[i])
                      /\ \A i \in 1..Len(boxes) :
                            \/ i \in call.left
                            \/ call.pc \in {"promote", "detail"} /\ i = call.on
                            \/ Past(i)'
    BY <1>2 DEF Sifted
  <2>1. /\ Len(call.seen) = Len(boxes)
        /\ call.left \subseteq 1..Len(boxes)
        /\ \A i \in call.left : Listed(call.seen[i], boxes[i])
    BY DEF IInv, Safe, Sifted
  <2>2. \A i \in call.left : Listed(call.seen[i], boxes'[i])
    BY <1>2, <2>1 DEF Listed, Moves
  <2> QED BY <1>1, <2>1, <2>2 DEF IInv, Safe, Sifted
<1>6. Handled'
  <2>1. call.pc \in {"promote", "detail", "created", "extend", "confirm"} =>
          call.on \in 1..Len(boxes) /\ Moves(boxes[call.on], boxes'[call.on])
    BY <1>2 DEF IInv, Base, Handles, Handling
  <2>2. call.pc \in {"promote", "detail", "extend", "confirm"} =>
          boxes'[call.on].at # "asked" /\ Known(boxes'[call.on])
    BY <2>1 DEF IInv, Safe, Handled, Moves, Known, Unmarked, Late
  <2>3. call.pc \in {"created", "extend"} => boxes'[call.on].deadline = call.deadline
    BY <2>1 DEF IInv, Safe, Handled, Moves
  <2>4. call.pc = "create" => \A i \in 1..Len(boxes) : Past(i)'
    BY <1>1 DEF IInv, Safe, Handled
  <2> QED BY <1>2, <2>2, <2>3, <2>4 DEF Handled
<1>7. Waited'
  <2> SUFFICES ASSUME NEW i \in 1..Len(boxes), boxes'[i].at = "asked"
               PROVE  \/ call.pc = "created" /\ call.on = i
                      \/ boxes'[i].deadline < now'
                      \/ boxes'[i].deadline < hold
                      \/ i \in strays'
    BY <1>2 DEF Waited
  <2>1. boxes[i].at = "asked" /\ boxes'[i] = boxes[i]
    BY <1>2 DEF Moves
  <2>2. boxes[i].deadline \in Nat
    BY <1>2 DEF Box
  <2> QED BY <1>2, <2>1, <2>2 DEF IInv, Safe, Waited, Evolves
<1> QED BY <1>1, <1>3, <1>4, <1>5, <1>6, <1>7 DEF IInv, Base, Safe

LEMMA IdleFacts ==
  /\ Idle \in Calls /\ Idle.pc = "idle" /\ Idle.op = ""
  BY DEF Idle, Calls, Places

\* No call is under way.
LEMMA Resting ==
  ASSUME Types, call = Idle
  PROVE  Handles /\ Sifted /\ Handled
  BY IdleFacts DEF Handles, Sifted, Handled, Handling, Sifting

\* The call ends, perhaps with a sandbox i that passes for one in time and runs.
LEMMA ReturnStep ==
  ASSUME IInv, Evolves, UNCHANGED <<now, hold, calls, buried>>, call' = Idle,
         kills' \subseteq 1..Len(boxes),
         \/ given' = given
         \/ \E i \in 1..Len(boxes) : /\ given' = given \cup {i}
                                     /\ boxes[i].at = "running" /\ Known(boxes[i]),
         call.pc = "created" => \/ boxes[call.on].at # "asked"
                                \/ boxes[call.on].deadline < now
                                \/ call.on \in strays'
  PROVE  IInv'
<1>1. /\ Times' /\ Alone'
      /\ \A i \in 1..Len(boxes) : Past(i) => Past(i)'
  BY Evolution DEF IInv, Safe
<1>2. /\ Len(boxes') = Len(boxes) /\ now \in Nat
      /\ \A i \in 1..Len(boxes) : Moves(boxes[i], boxes'[i])
      /\ given \subseteq 1..Len(boxes) /\ buried \subseteq 1..Len(boxes)
      /\ given' \subseteq 1..Len(boxes)
  BY Numbers DEF IInv, Base, Types, Evolves
<1>3. Types'
  BY <1>2, IdleFacts DEF IInv, Base, Types, Evolves
<1>4. Handles' /\ Sifted' /\ Handled'
  <2>1. call'.pc = "idle" /\ call'.op = ""
    BY IdleFacts
  <2> QED BY <2>1 DEF Handles, Sifted, Handled, Handling, Sifting
<1>5. \A i \in given' : boxes[i].at # "asked" /\ Known(boxes[i])
  BY DEF IInv, Safe, Answers
<1>6. Answers'
  BY <1>2, <1>5 DEF Answers, Moves, Known, Unmarked, Late
<1>7. Graves'
  <2>1. \A i \in buried : Past(i) /\ (i \in given' => Late(boxes[i]) \/ i \in strays)
    BY DEF IInv, Safe, Graves, Past, Spent, Gone
  <2>2. \A i \in given' : Late(boxes[i]) => Late(boxes'[i])
    BY <1>2, <1>5 DEF Moves, Late
  <2> QED BY <1>1, <1>2, <2>1, <2>2 DEF Graves, Evolves
<1>8. Waited'
  <2> SUFFICES ASSUME NEW i \in 1..Len(boxes), boxes'[i].at = "asked"
               PROVE  \/ boxes'[i].deadline < now \/ boxes'[i].deadline < hold
                      \/ i \in strays'
    BY <1>2 DEF Waited
  <2>1. boxes[i].at = "asked" /\ boxes'[i] = boxes[i]
    BY <1>2 DEF Moves
  <2> QED BY <2>1 DEF IInv, Safe, Waited, Evolves
<1> QED BY <1>1, <1>3, <1>4, <1>6, <1>7, <1>8 DEF IInv, Base, Safe

-----------------------------------------------------------------------------
(* The service and the background.                                         *)

LEMMA StartStep ==
  ASSUME IInv, NEW i \in 1..Len(boxes), Start(i)
  PROVE  IInv'
<1> DEFINE b == boxes[i]
           c == [b EXCEPT !.at = "running", !.started = now,
                          !.end = now + b.short]
<1>1. b \in Box /\ Timed(b, now) /\ b.at = "asked" /\ now <= b.asked + MaxDelay
  BY Elements DEF IInv, Base, Types, Times, Start
<1>2. now \in Nat
  BY Numbers DEF IInv, Base, Types
<1>3. c \in Box
  <2>1. now + b.short \in Nat
    BY <1>1, <1>2 DEF Box
  <2> QED BY <1>1, <1>2, <2>1 DEF Box
<1>4. boxes' = [boxes EXCEPT ![i] = c]
  BY DEF Start
<1>5. Distinct(c)
  BY <1>1, <1>2, Numbers DEF Box, Distinct, Known, Unmarked, Promoted
<1>6. Moves(b, c)
  BY <1>1, <1>5 DEF Moves, Box, Gone
<1>7. Evolves
  BY <1>3, <1>4, <1>6, Changed DEF IInv, Start, callers
<1> QED BY <1>7, WorldStep DEF Start, callers

LEMMA VanishStep ==
  ASSUME IInv, NEW i \in 1..Len(boxes), Vanish(i)
  PROVE  IInv'
<1> DEFINE c == [boxes[i] EXCEPT !.at = "gone"]
<1>1. boxes[i] \in Box /\ Timed(boxes[i], now) /\ boxes[i].at = "killing"
  BY Elements DEF IInv, Base, Types, Times, Vanish
<1>2. c \in Box /\ Moves(boxes[i], c)
  BY <1>1 DEF Box, Timed, Moves, Gone, Distinct, Known, Unmarked, Promoted, Late
<1>3. boxes' = [boxes EXCEPT ![i] = c]
  BY DEF Vanish
<1>4. Evolves
  BY <1>2, <1>3, Changed DEF IInv, Vanish, callers
<1> QED BY <1>4, WorldStep DEF Vanish, callers

LEMMA DeletionStep ==
  ASSUME IInv, NEW i \in 1..Len(boxes), Expire(i) \/ Kill(i) \/ Release(i)
  PROVE  IInv'
<1>1. Base /\ (boxes' = boxes \/ boxes' = Deleted(i)) /\ UNCHANGED <<now, strays>>
  BY DEF IInv, Expire, Kill, Release, callers
<1>2. Evolves
  BY <1>1, Still, DeletedEvolves DEF Base, Types
<1>3. UNCHANGED <<call, given, buried, hold, calls>> /\ kills' \subseteq kills
  BY DEF Expire, Kill, Release, callers
<1> QED BY <1>2, <1>3, WorldStep

LEMMA TickStep ==
  ASSUME IInv, Tick
  PROVE  IInv'
<1>1. Evolves
  <2>1. \A i \in 1..Len(boxes) : Moves(boxes[i], boxes[i])
    BY DEF IInv, Base, Times, Timed, Moves
  <2> QED BY <2>1, Numbers DEF IInv, Base, Types, Evolves, Tick, callers
<1> QED BY <1>1, WorldStep DEF Tick, callers

-----------------------------------------------------------------------------
(* Claim and Lookup.                                                       *)

\* The call goes on.
LEMMA OngoingStep ==
  ASSUME IInv, Evolves, UNCHANGED <<now, hold, given, buried, kills>>,
         calls' \in 0..MaxCalls, call' \in Calls, Handles', Sifted', Handled',
         call.pc = "created" => boxes[call.on].at # "asked"
  PROVE  IInv'
<1>1. Times' /\ Alone' /\ Answers' /\ Graves'
  BY Evolution DEF IInv, Safe
<1>2. /\ Len(boxes') = Len(boxes)
      /\ \A i \in 1..Len(boxes) : Moves(boxes[i], boxes'[i])
  BY DEF Evolves
<1>3. Types'
  BY <1>2 DEF IInv, Base, Types, Evolves
<1>4. Waited'
  <2> SUFFICES ASSUME NEW i \in 1..Len(boxes), boxes'[i].at = "asked"
               PROVE  \/ boxes'[i].deadline < now \/ boxes'[i].deadline < hold
                      \/ i \in strays'
    BY <1>2 DEF Waited
  <2>1. boxes[i].at = "asked" /\ boxes'[i] = boxes[i]
    BY <1>2 DEF Moves
  <2> QED BY <2>1 DEF IInv, Safe, Waited, Evolves
<1> QED BY <1>1, <1>3, <1>4 DEF IInv, Base, Safe

\* The fields of a call that is rewritten.
LEMMA CallKnown ==
  ASSUME Types
  PROVE  /\ call = [pc |-> call.pc, op |-> call.op, spec |-> call.spec,
                    deadline |-> call.deadline, seen |-> call.seen,
                    left |-> call.left, on |-> call.on]
         /\ call.pc \in Places /\ call.op \in {"", "claim", "lookup"}
         /\ call.spec \in Specs \cup {AnySpec} /\ call.deadline \in Nat
         /\ call.seen \in Seq(Box) /\ call.left \subseteq Nat /\ call.on \in Nat
         /\ now \in Nat /\ hold \in Nat /\ Len(boxes) \in Nat
<1>1. /\ now \in Nat /\ hold \in Nat /\ Len(boxes) \in Nat
  BY Numbers, Elements DEF Types
<1>2. call \in Calls
  BY DEF Types
<1> QED BY <1>1, <1>2 DEF Calls

LEMMA BeginStep ==
  ASSUME IInv, NEW op \in {"claim", "lookup"}, NEW spec \in Specs \cup {AnySpec},
         op = "claim" => spec \in Specs, Begin(op, spec)
  PROVE  IInv'
<1>1. Evolves
  BY Still DEF IInv, Base, Types, Begin
<1>2. now \in Nat /\ hold \in Nat /\ calls \in 0..MaxCalls
  BY CallKnown DEF IInv, Base, Types
<1>3. /\ call'.pc = "list" /\ call'.op = op /\ call'.spec = spec
      /\ call'.deadline = now + Timeout
  BY DEF Begin, First, Idle
<1>4. call' \in Calls
  <2>1. call' = [pc |-> "list", op |-> op, spec |-> spec, deadline |-> now + Timeout,
                 seen |-> <<>>, left |-> {}, on |-> 0]
    BY DEF Begin, First, Idle
  <2>2. now + Timeout \in Nat /\ <<>> \in Seq(Box)
    BY <1>2, Numbers
  <2> QED BY <2>1, <2>2 DEF Calls, Places
<1>5. Handles'
  <2>1. hold' <= now' /\ call'.deadline <= now' + Timeout
    BY <1>2, <1>3, Numbers DEF Begin
  <2> QED BY <1>3, <2>1 DEF Handles, Handling
<1>6. Sifted' /\ Handled'
  BY <1>3 DEF Sifted, Handled, Sifting
<1> QED BY <1>1, <1>2, <1>4, <1>5, <1>6, OngoingStep, Numbers DEF Begin, At

LEMMA ListStep ==
  ASSUME IInv, List
  PROVE  IInv'
<1>0. PICK page \in Pages :
        /\ call' = [call EXCEPT !.pc = "next", !.seen = boxes, !.left = page]
        /\ strays' = strays \cup (Present \ page)
  BY DEF List
<1>1. Evolves
  BY <1>0, Still DEF IInv, Base, Types, List, Present
<1>2. Types /\ Times /\ Handles
  BY DEF IInv, Base
<1>3. call.pc = "list" /\ UNCHANGED <<now, boxes, hold, calls>>
  BY DEF List, At
<1>4. /\ call'.pc = "next" /\ call'.op = call.op /\ call'.spec = call.spec
      /\ call'.deadline = call.deadline /\ call'.seen = boxes
      /\ call'.left = page /\ page \subseteq Present
      /\ strays' = strays \cup (Present \ page)
  BY <1>2, <1>0, CallKnown DEF Pages
<1>5. call' \in Calls
  <2> DEFINE l == page
  <2>1. l \in SUBSET Nat /\ boxes \in Seq(Box)
    <3>1. \A i \in 1..Len(boxes) : i \in Nat
      OBVIOUS
    <3>2. l \subseteq Nat
      BY <1>4, <3>1 DEF Present
    <3> QED BY <1>2, <3>2 DEF Types
  <2>2. call' = [pc |-> "next", op |-> call.op, spec |-> call.spec,
                 deadline |-> call.deadline, seen |-> boxes, left |-> l,
                 on |-> call.on]
    BY <1>0, <1>2, CallKnown
  <2> HIDE DEF l
  <2> QED BY <1>2, <2>1, <2>2, CallKnown DEF Calls, Places
<1>6. Handles'
  BY <1>2, <1>3, <1>4 DEF Handles, Handling
<1>7. Sifted'
  <2>1. \A i \in 1..Len(boxes) : boxes[i] \in Box /\ Timed(boxes[i], now)
    BY <1>2, Elements DEF Types, Times
  <2>2. \A i \in call'.left : Listed(boxes[i], boxes[i])
    BY <1>4, <2>1 DEF Listed, Timed, Present
  <2>3. \A i \in 1..Len(boxes) : i \in call'.left \/ Past(i)'
    <3> SUFFICES ASSUME NEW i \in 1..Len(boxes), i \notin Present, i \notin strays
                 PROVE  Spent(boxes[i], now)
      BY <1>3, <1>4 DEF Past
    <3>1. CASE boxes[i].at = "gone"
      BY <3>1 DEF Spent, Gone
    <3>2. CASE boxes[i].at = "asked"
      <4>1. boxes[i].deadline < now \/ boxes[i].deadline < hold
        BY <1>3, <3>2 DEF IInv, Safe, Waited
      <4>2. hold <= now /\ boxes[i].deadline \in Nat /\ hold \in Nat /\ now \in Nat
        BY <1>2, <1>3, <2>1, CallKnown DEF Handles, Box
      <4> QED BY <3>2, <4>1, <4>2 DEF Spent
    <3> QED BY <2>1, <3>1, <3>2 DEF Box, Present
  <2>4. call'.left \subseteq 1..Len(boxes)
    BY <1>4 DEF Present
  <2> QED BY <1>3, <1>4, <2>2, <2>3, <2>4 DEF Sifted
<1>8. Handled'
  BY <1>4 DEF Handled
<1> QED BY <1>1, <1>2, <1>3, <1>5, <1>6, <1>7, <1>8, OngoingStep DEF List, Types

\* What is known of the sandbox the call picks from its list.
LEMMA Verdicts ==
  ASSUME IInv, At("next"), NEW i \in call.left,
         NEW v, v = Verdict(call.seen[i])
  PROVE  /\ v \in {"busy", "conflict", "detail", "drop", "promote"}
         /\ i \in 1..Len(boxes) /\ boxes[i].at # "asked"
         /\ v \in {"detail", "promote"} => Known(boxes[i])
         /\ v = "drop" => Spent(boxes[i], now)
<1>1. /\ i \in 1..Len(boxes) /\ Listed(call.seen[i], boxes[i])
      /\ Len(call.seen) = Len(boxes)
  BY DEF IInv, Safe, Sifted, Sifting, At
<1>2. call.seen[i] \in Box /\ boxes[i] \in Box
  BY <1>1, Elements, CallKnown DEF IInv, Base, Types
<1>3. v \in {"busy", "conflict", "detail", "drop", "promote"}
  BY DEF Verdict
<1>4. v \in {"detail", "promote"} => Known(call.seen[i])
  BY <1>1, <1>2 DEF Verdict, Listed, Distinct, Known
<1>5. v = "drop" => Late(call.seen[i])
  BY DEF Verdict
<1>6. /\ Late(boxes[i]) <=> Late(call.seen[i])
      /\ Known(boxes[i]) <=> Known(call.seen[i])
  BY <1>1 DEF Listed, Late, Known, Unmarked
<1>7. Late(boxes[i]) => Spent(boxes[i], now)
  BY <1>1, <1>2 DEF Listed, Spent, Gone, Box
<1> QED BY <1>1, <1>3, <1>4, <1>5, <1>6, <1>7 DEF Listed

LEMMA InspectStep ==
  ASSUME IInv, NEW i \in 1..Len(boxes), Inspect(i)
  PROVE  IInv'
<1>1. Evolves
  BY Still DEF IInv, Base, Types, Inspect, callers
<1>2. Types /\ Handles /\ At("next") /\ i \in call.left
  BY DEF IInv, Base, Inspect
<1>3. UNCHANGED <<now, boxes, hold, calls, kills, given, buried, strays>>
  BY DEF Inspect, callers
<1>4. PICK v : v = Verdict(call.seen[i])
  OBVIOUS
<1>5. /\ v \in {"busy", "conflict", "detail", "drop", "promote"}
      /\ boxes[i].at # "asked"
      /\ v \in {"detail", "promote"} => Known(boxes[i])
      /\ v = "drop" => Spent(boxes[i], now)
  BY <1>2, <1>4, Verdicts
<1>6. CASE v \in {"busy", "conflict"}
  <2>1. call' = Idle
    BY <1>4, <1>6 DEF Inspect, Fail
  <2>2. kills' \subseteq 1..Len(boxes) /\ call.pc # "created"
    BY <1>2, <1>3 DEF Types, At
  <2> QED BY <1>1, <1>3, <2>1, <2>2, ReturnStep
<1>7. CASE v \in {"detail", "drop", "promote"}
  <2>1. call' = [call EXCEPT !.pc = v, !.on = i, !.left = @ \ {i}]
    BY <1>4, <1>7 DEF Inspect
  <2>2. /\ call'.pc = v /\ call'.op = call.op /\ call'.spec = call.spec
        /\ call'.deadline = call.deadline /\ call'.seen = call.seen
        /\ call'.left = call.left \ {i} /\ call'.on = i
    BY <1>2, <2>1, CallKnown
  <2>3. call' \in Calls
    BY <1>2, <1>7, <2>1, CallKnown DEF Calls, Places
  <2>4. Handles'
    BY <1>2, <1>3, <1>7, <2>2 DEF Handles, Handling, At
  <2>5. /\ Len(call.seen) = Len(boxes)
        /\ call.left \subseteq 1..Len(boxes)
        /\ \A j \in call.left : Listed(call.seen[j], boxes[j])
        /\ \A j \in 1..Len(boxes) : j \in call.left \/ Past(j)
    BY <1>2 DEF IInv, Safe, Sifted, Sifting, At
  <2>6. \A j \in 1..Len(boxes) :
          \/ j \in call.left \ {i}
          \/ v \in {"promote", "detail"} /\ j = i
          \/ Past(j)
    BY <1>5, <1>7, <2>5 DEF Past
  <2>7. Sifted'
    BY <1>3, <2>2, <2>5, <2>6 DEF Sifted, Past
  <2>8. Handled'
    BY <1>3, <1>5, <1>7, <2>2 DEF Handled
  <2> QED BY <1>1, <1>2, <1>3, <2>3, <2>4, <2>7, <2>8, OngoingStep DEF Types, At
<1> QED BY <1>5, <1>6, <1>7

LEMMA NotFoundStep ==
  ASSUME IInv, NotFound
  PROVE  IInv'
<1>1. UNCHANGED <<now, boxes, given, strays, hold, calls, kills>> /\ call.pc = "next"
  BY DEF NotFound, At
<1>2. Types /\ Times /\ Handles
  BY DEF IInv, Base
<1>3. Len(call.seen) = Len(boxes) /\ \A i \in 1..Len(boxes) : Past(i)
  BY <1>1 DEF IInv, Safe, Sifted, Sifting, NotFound
<1>4. buried' = buried \cup ((1..Len(boxes)) \ given)
  BY <1>3 DEF NotFound
<1>5. call' \in Calls /\ Handles' /\ Sifted' /\ Handled'
  <2>1. CASE call.op = "lookup"
    <3>1. call' = Idle
      BY <2>1 DEF NotFound, Fail
    <3> QED BY <3>1, IdleFacts DEF Handles, Sifted, Handled, Handling, Sifting
  <2>2. CASE call.op # "lookup"
    <3>1. call' = [call EXCEPT !.pc = "create", !.seen = <<>>]
      BY <2>2 DEF NotFound
    <3>2. call.op = "claim" /\ call.spec \in Specs
      BY <1>1, <1>2, <2>2 DEF Handles
    <3>3. /\ call'.pc = "create" /\ call'.op = call.op /\ call'.spec = call.spec
          /\ call'.deadline = call.deadline
      BY <1>2, <3>1, CallKnown
    <3>4. call' \in Calls
      <4>1. call' = [pc |-> "create", op |-> call.op, spec |-> call.spec,
                     deadline |-> call.deadline, seen |-> <<>>, left |-> call.left,
                     on |-> call.on]
        BY <1>2, <3>1, CallKnown
      <4>2. <<>> \in Seq(Box)
        OBVIOUS
      <4> QED BY <1>2, <4>1, <4>2, CallKnown DEF Calls, Places
    <3>5. Handles'
      BY <1>1, <1>2, <3>2, <3>3 DEF Handles, Handling
    <3>6. Sifted' /\ Handled'
      BY <1>1, <1>3, <3>3 DEF Sifted, Handled, Sifting, Past
    <3> QED BY <3>4, <3>5, <3>6
  <2> QED BY <2>1, <2>2
<1>6. Types'
  BY <1>1, <1>2, <1>4, <1>5 DEF Types
<1>7. Times' /\ Alone' /\ Answers'
  BY <1>1 DEF IInv, Base, Safe, Times, Alone, Answers, Past
<1>8. Graves'
  <2>1. \A i \in buried' : Past(i)
    BY <1>2, <1>3, <1>4 DEF Types
  <2> QED BY <1>1, <1>4, <2>1 DEF IInv, Safe, Graves, Past
<1>9. Waited'
  <2> SUFFICES ASSUME NEW i \in 1..Len(boxes), boxes[i].at = "asked"
               PROVE  boxes[i].deadline < now \/ i \in strays
    BY <1>1 DEF Waited
  <2> QED BY <1>3 DEF Past, Spent, Gone
<1> QED BY <1>5, <1>6, <1>7, <1>8, <1>9 DEF IInv, Base, Safe

\* The call goes on to another place and keeps the rest.
LEMMA GoKnown ==
  ASSUME Types, NEW pc \in Places, Go(pc)
  PROVE  /\ call' \in Calls
         /\ call'.pc = pc /\ call'.op = call.op /\ call'.spec = call.spec
         /\ call'.deadline = call.deadline /\ call'.seen = call.seen
         /\ call'.left = call.left /\ call'.on = call.on
<1>1. call' = [pc |-> pc, op |-> call.op, spec |-> call.spec,
               deadline |-> call.deadline, seen |-> call.seen,
               left |-> call.left, on |-> call.on]
  BY CallKnown DEF Go
<1> QED BY <1>1, CallKnown DEF Calls

\* Among the listed, the one the call looked at gives way to the next.
LEMMA SiftingStep ==
  ASSUME IInv, Evolves, UNCHANGED <<now, hold, given, buried, kills, calls>>,
         call.pc \in {"drop", "promote", "detail"},
         NEW pc \in {"next", "detail"}, Go(pc),
         call.pc = "detail" => Past(call.on),
         pc = "detail" => call.pc = "promote",
         pc = "next" => call.pc # "promote"
  PROVE  IInv'
<1>1. /\ call' \in Calls
      /\ call'.pc = pc /\ call'.op = call.op /\ call'.spec = call.spec
      /\ call'.deadline = call.deadline /\ call'.seen = call.seen
      /\ call'.left = call.left /\ call'.on = call.on
  BY GoKnown DEF IInv, Base, Places
<1>2. /\ Len(boxes') = Len(boxes)
      /\ \A i \in 1..Len(boxes) : Moves(boxes[i], boxes'[i])
      /\ \A i \in 1..Len(boxes) : Past(i) => Past(i)'
  BY Evolution DEF IInv, Evolves
<1>3. Handles'
  BY <1>1, <1>2 DEF IInv, Base, Handles, Handling
<1>4. /\ Len(call.seen) = Len(boxes)
      /\ call.left \subseteq 1..Len(boxes)
      /\ \A i \in call.left : Listed(call.seen[i], boxes[i])
      /\ \A i \in 1..Len(boxes) :
            \/ i \in call.left
            \/ call.pc \in {"promote", "detail"} /\ i = call.on
            \/ Past(i)
  BY DEF IInv, Safe, Sifted, Sifting
<1>5. \A i \in call.left : Listed(call.seen[i], boxes'[i])
  BY <1>2, <1>4 DEF Listed, Moves
<1>6. \A i \in 1..Len(boxes) :
        \/ i \in call.left
        \/ pc = "detail" /\ i = call.on
        \/ Past(i)'
  BY <1>2, <1>4
<1>7. Sifted'
  BY <1>1, <1>2, <1>4, <1>5, <1>6 DEF Sifted
<1>8. Handled'
  <2>1. call.on \in 1..Len(boxes)
    BY DEF IInv, Base, Handles, Handling
  <2>2. pc = "detail" => boxes'[call.on].at # "asked" /\ Known(boxes'[call.on])
    BY <1>2, <2>1 DEF IInv, Safe, Handled, Moves, Known, Unmarked, Late
  <2> QED BY <1>1, <1>2, <2>2 DEF Handled
<1> QED BY <1>1, <1>3, <1>7, <1>8, OngoingStep DEF IInv, Base, Types

LEMMA DropStep ==
  ASSUME IInv, Drop
  PROVE  IInv'
<1>1. /\ call.pc = "drop" /\ Go("next")
      /\ UNCHANGED <<now, kills, given, buried, strays, hold, calls>>
      /\ boxes' = boxes \/ boxes' = Deleted(call.on)
  BY DEF Drop, At, callers
<1>2. call.on \in 1..Len(boxes)
  BY <1>1 DEF IInv, Base, Handles, Handling
<1>3. Evolves
  BY <1>1, <1>2, Still, DeletedEvolves DEF IInv, Base, Types
<1> QED BY <1>1, <1>3, SiftingStep

LEMMA PromoteStep ==
  ASSUME IInv, Promote
  PROVE  IInv'
<1>1. /\ Go("detail") \/ call' = Idle
      /\ UNCHANGED <<now, kills, given, buried, strays, hold, calls>>
      /\ boxes' = Extended(call.on) /\ boxes[call.on].at = "running"
  BY DEF Promote, At, Fail, callers
<1>2. call.on \in 1..Len(boxes) /\ call.pc = "promote" /\ Known(boxes[call.on])
  BY DEF IInv, Base, Safe, Handles, Handling, Handled, Promote, At
<1>3. Evolves
  BY <1>1, <1>2, ExtendedEvolves DEF IInv
<1>4. CASE Go("detail")
  BY <1>1, <1>2, <1>3, <1>4, SiftingStep
<1>5. CASE call' = Idle
  BY <1>1, <1>2, <1>3, <1>5, ReturnStep DEF IInv, Base, Types
<1> QED BY <1>1, <1>4, <1>5

LEMMA DetailStep ==
  ASSUME IInv, Detail
  PROVE  IInv'
<1>1. /\ call.pc \in {"detail", "confirm"}
      /\ UNCHANGED <<now, boxes, kills, buried, strays, hold, calls>>
  BY DEF Detail, At
<1>2. call.on \in 1..Len(boxes) /\ Known(boxes[call.on])
  BY <1>1 DEF IInv, Base, Safe, Handles, Handling, Handled
<1>3. Evolves
  BY <1>1, Still DEF IInv, Base, Types
<1>4. CASE boxes[call.on].at = "gone" /\ At("detail") /\ Go("next") /\ UNCHANGED given
  BY <1>1, <1>3, <1>4, SiftingStep DEF Past, Spent, Gone, At
<1>5. CASE call' = Idle /\ UNCHANGED given
  BY <1>1, <1>3, <1>5, ReturnStep DEF IInv, Base, Types
<1>6. CASE boxes[call.on].at = "running" /\ Succeed(call.on)
  <2>1. call' = Idle /\ given' = given \cup {call.on}
    BY <1>6 DEF Succeed
  <2> QED BY <1>1, <1>2, <1>3, <1>6, <2>1, ReturnStep DEF IInv, Base, Types
<1> QED BY <1>4, <1>5, <1>6 DEF Detail, Fail, Runs

-----------------------------------------------------------------------------
(* The create and its extension.                                           *)

LEMMA CreateStep ==
  ASSUME IInv, Create
  PROVE  IInv'
<1> DEFINE n == Len(boxes) + 1
           made(ttl) == [at |-> "asked", spec |-> call.spec, asked |-> now,
                         deadline |-> call.deadline, expires |-> now + ttl,
                         short |-> Least(ttl, call.deadline - now),
                         started |-> 0, end |-> 0]
<1>0. PICK ttl \in TTLs : boxes' = Append(boxes, made(ttl))
  BY DEF Create
<1> DEFINE b == made(ttl)
<1>1. /\ call.pc = "create" /\ now < call.deadline /\ Len(boxes) < MaxBoxes
      /\ UNCHANGED <<now, kills, given, buried, strays, hold, calls>>
      /\ boxes' = Append(boxes, b)
  BY <1>0 DEF Create, At, callers
<1>2. Types /\ Times /\ Handles /\ now \in Nat /\ call.deadline \in Nat
  BY CallKnown DEF IInv, Base
<1>3. call.op = "claim" /\ call.spec \in Specs /\ hold <= now
  BY <1>1, <1>2 DEF Handles
<1>4. b \in Box /\ b.short \in 1..Timeout
  <2>1. ttl \in Nat /\ ttl > 0 /\ call.deadline <= now + Timeout
    BY <1>1, <1>2, Numbers DEF Handles
  <2>2. now + ttl \in Nat /\ b.short \in 1..Timeout /\ b.short \in Nat
    BY <1>1, <1>2, <2>1, Numbers DEF Least
  <2> QED BY <1>2, <1>3, <2>2 DEF Box
<1>5. Timed(b, now)
  BY <1>1, <1>2, <1>4, Numbers DEF Timed, Distinct, Known, Late, Handles
<1>6. b.at = "asked" /\ b.deadline = call.deadline
  OBVIOUS
<1> HIDE DEF b, made
<1>7. /\ boxes' \in Seq(Box) /\ Len(boxes') = n /\ Len(boxes) \in Nat
      /\ boxes'[n] = b /\ \A i \in 1..Len(boxes) : boxes'[i] = boxes[i]
  BY <1>1, <1>2, <1>4, AppendProperties DEF Types
<1>8. \A i \in 1..Len(boxes') : i = n \/ (i # n /\ i \in 1..Len(boxes))
  BY <1>7
<1>9. /\ call'.pc = "created" /\ call'.op = call.op /\ call'.spec = call.spec
      /\ call'.deadline = call.deadline /\ call'.on = n
  BY <1>2, CallKnown DEF Create
<1>10. call' \in Calls
  <2>1. call' = [pc |-> "created", op |-> call.op, spec |-> call.spec,
                 deadline |-> call.deadline, seen |-> call.seen,
                 left |-> call.left, on |-> n]
    BY <1>2, CallKnown DEF Create
  <2>2. n \in Nat
    BY <1>7
  <2> QED BY <1>2, <2>1, <2>2, CallKnown DEF Calls, Places
<1>11. n \in 1..n /\ 1..Len(boxes) \subseteq 1..n /\ n <= MaxBoxes
  BY <1>1, <1>7, Numbers
<1>12. Types'
  BY <1>1, <1>2, <1>7, <1>10, <1>11 DEF Types
<1>13. Times'
  BY <1>1, <1>2, <1>5, <1>7, <1>8 DEF Times
<1>14. Handles'
  BY <1>1, <1>2, <1>7, <1>9, <1>11 DEF Handles, Handling
<1>15. \A i \in 1..Len(boxes) : Past(i) /\ Past(i)'
  BY <1>1, <1>7 DEF IInv, Safe, Handled, Past
<1>16. Alone'
  BY <1>1, <1>7, <1>8, <1>15 DEF Alone
<1>17. Answers' /\ Graves'
  <2>1. given \subseteq 1..Len(boxes) /\ buried \subseteq 1..Len(boxes)
    BY <1>2 DEF Types
  <2> QED BY <1>1, <1>7, <1>15, <2>1 DEF IInv, Safe, Answers, Graves
<1>18. Sifted' /\ Handled'
  BY <1>1, <1>6, <1>7, <1>8, <1>9, <1>15 DEF Sifted, Sifting, Handled
<1>19. Waited'
  <2> SUFFICES ASSUME NEW i \in 1..Len(boxes'), boxes'[i].at = "asked", i # n
               PROVE  boxes'[i].deadline < now \/ i \in strays
    BY <1>1, <1>9 DEF Waited
  <2>1. Past(i)'
    BY <1>7, <1>8, <1>15
  <2> QED BY <1>1, <2>1 DEF Past, Spent, Gone
<1> QED BY <1>12, <1>13, <1>14, <1>16, <1>17, <1>18, <1>19 DEF IInv, Base, Safe

\* Refusals before anything was made; another Lookup may follow.
LEMMA RefusedStep ==
  ASSUME IInv, RequestFails \/ CreateRefused
  PROVE  IInv'
<1>1. /\ call.pc # "created"
      /\ UNCHANGED <<now, boxes, kills, given, buried, strays, hold, calls>>
  BY DEF RequestFails, CreateRefused, At, callers
<1>2. Evolves
  BY <1>1, Still DEF IInv, Base, Types
<1>3. CASE call' = Idle
  BY <1>1, <1>2, <1>3, ReturnStep DEF IInv, Base, Types
<1>4. CASE call.pc = "create" /\ call' = [call EXCEPT !.pc = "list", !.op = "lookup"]
  <2>1. call' = [pc |-> "list", op |-> "lookup", spec |-> call.spec,
                 deadline |-> call.deadline, seen |-> call.seen,
                 left |-> call.left, on |-> call.on]
    BY <1>4, CallKnown DEF IInv, Base
  <2>2. call' \in Calls
    BY <2>1, CallKnown DEF IInv, Base, Calls, Places
  <2>3. Handles'
    BY <1>1, <1>4, <2>1 DEF IInv, Base, Handles, Handling
  <2>4. Sifted' /\ Handled'
    BY <2>1 DEF Sifted, Sifting, Handled
  <2> QED BY <1>1, <1>2, <2>2, <2>3, <2>4, OngoingStep DEF IInv, Base, Types
<1> QED BY <1>3, <1>4 DEF RequestFails, CreateRefused, Fail, At

\* The call keeps the sandbox that it made.
LEMMA KeepStep ==
  ASSUME IInv, Evolves, UNCHANGED <<now, given, buried, kills, hold, calls>>,
         call.pc \in {"created", "extend"}, boxes[call.on].at # "asked",
         Known(boxes[call.on]), NEW pc \in {"extend", "confirm"}, Go(pc)
  PROVE  IInv'
<1>1. /\ call' \in Calls
      /\ call'.pc = pc /\ call'.op = call.op /\ call'.spec = call.spec
      /\ call'.deadline = call.deadline /\ call'.on = call.on
  BY GoKnown DEF IInv, Base, Places
<1>2. call.on \in 1..Len(boxes) /\ Len(boxes') = Len(boxes) /\
      Moves(boxes[call.on], boxes'[call.on])
  BY DEF IInv, Base, Handles, Handling, Evolves
<1>3. Handles'
  BY <1>1, <1>2 DEF IInv, Base, Handles, Handling
<1>4. /\ boxes'[call.on].at # "asked" /\ Known(boxes'[call.on])
      /\ boxes'[call.on].deadline = boxes[call.on].deadline
  BY <1>2 DEF Moves, Known, Unmarked, Late
<1>5. Sifted' /\ Handled'
  BY <1>1, <1>4 DEF IInv, Safe, Sifted, Sifting, Handled
<1> QED BY <1>1, <1>3, <1>5, OngoingStep DEF IInv, Base, Types

LEMMA CreatedStep ==
  ASSUME IInv, Created
  PROVE  IInv'
<1>1. /\ call.pc = "created" /\ boxes[call.on].at # "asked"
      /\ UNCHANGED <<now, boxes, buried, strays, hold, calls>>
  BY DEF Created, At
<1>2. Types /\ Times /\ Handles /\ call.on \in 1..Len(boxes)
  BY <1>1 DEF IInv, Base, Handles, Handling
<1>3. Evolves
  BY <1>1, Still DEF IInv, Base, Types
<1>4. CASE InTime
  <2>1. ~Late(boxes[call.on])
    <3>1. boxes[call.on] \in Box /\ boxes[call.on].started <= now
      BY <1>1, <1>2, Elements DEF Types, Times, Timed
    <3>2. boxes[call.on].deadline = call.deadline /\ now <= call.deadline
      BY <1>1, <1>4 DEF IInv, Safe, Handled, InTime
    <3>3. now \in Nat /\ call.deadline \in Nat
      BY <1>2, CallKnown
    <3> QED BY <3>1, <3>2, <3>3 DEF Late, Box
  <2>2. Known(boxes[call.on])
    BY <2>1 DEF Known
  <2>3. ASSUME NEW pc \in {"extend", "confirm"}, Go(pc), UNCHANGED <<kills, given>>
        PROVE  IInv'
    BY <1>1, <1>3, <2>2, <2>3, KeepStep
  <2>4. CASE call' = Idle /\ UNCHANGED <<kills, given>>
    BY <1>1, <1>2, <1>3, <2>4, ReturnStep DEF Types
  <2>5. CASE Succeed(call.on) /\ UNCHANGED kills /\ boxes[call.on].at = "running"
    BY <1>1, <1>2, <1>3, <2>2, <2>5, ReturnStep DEF Types, Succeed
  <2> QED BY <1>4, <2>3, <2>4, <2>5 DEF Created, Confirmed, Fail, Runs
<1>5. CASE ~InTime
  <2>1. call' = Idle /\ kills' = kills \cup {call.on} /\ UNCHANGED given
    BY <1>5 DEF Created, Fail
  <2> QED BY <1>1, <1>2, <1>3, <2>1, ReturnStep DEF Types
<1> QED BY <1>4, <1>5

\* Either the sandbox has started, or its deadline has passed, or it is a stray.
LEMMA CreateLostStep ==
  ASSUME IInv, CreateLost
  PROVE  IInv'
<1>1. /\ call.pc = "created" /\ call' = Idle
      /\ UNCHANGED <<now, boxes, kills, given, buried, hold, calls>>
      /\ strays' = IF InTime /\ boxes[call.on].at = "asked" THEN strays \cup {call.on}
                   ELSE strays
  BY DEF CreateLost, Fail, At
<1>2. call.on \in 1..Len(boxes)
  BY <1>1 DEF IInv, Base, Handles, Handling
<1>3. Evolves
  BY <1>1, <1>2, Still DEF IInv, Base, Types
<1>4. boxes[call.on].deadline = call.deadline
  BY <1>1 DEF IInv, Safe, Handled
<1>5. now \in Nat /\ call.deadline \in Nat
  BY CallKnown DEF IInv, Base
<1>6. \/ boxes[call.on].at # "asked" \/ boxes[call.on].deadline < now
      \/ call.on \in strays'
  BY <1>1, <1>4, <1>5 DEF InTime
<1> QED BY <1>1, <1>3, <1>6, ReturnStep DEF IInv, Base, Types

LEMMA ExtensionStep ==
  ASSUME IInv, Extend \/ ExtendFails
  PROVE  IInv'
<1>1. /\ call.pc = "extend" /\ UNCHANGED <<now, buried, strays, hold, calls>>
      /\ \/ boxes' = boxes
         \/ boxes' = Extended(call.on) /\ boxes[call.on].at = "running"
  BY DEF Extend, ExtendFails, At
<1>2. Types /\ call.on \in 1..Len(boxes)
  BY <1>1 DEF IInv, Base, Handles, Handling
<1>3. boxes[call.on].at # "asked" /\ Known(boxes[call.on])
  BY <1>1 DEF IInv, Safe, Handled
<1>4. Evolves
  BY <1>1, <1>2, <1>3, Still, ExtendedEvolves DEF IInv, Base, Types
<1>5. CASE call' = Idle /\ kills' = kills \cup {call.on} /\ given' = given
  <2>1. kills' \subseteq 1..Len(boxes)
    BY <1>2, <1>5 DEF Types
  <2> QED BY <1>1, <1>4, <1>5, <2>1, ReturnStep
<1>6. CASE Succeed(call.on) /\ UNCHANGED kills /\ boxes[call.on].at = "running"
  BY <1>1, <1>2, <1>3, <1>4, <1>6, ReturnStep DEF Types, Succeed
<1>7. CASE Go("confirm") /\ UNCHANGED <<given, kills>>
  BY <1>1, <1>3, <1>4, <1>7, KeepStep
<1> QED BY <1>5, <1>6, <1>7 DEF Extend, ExtendFails, Confirmed, Fail

\* The next leader waits until whatever was asked for has passed its deadline.
LEMMA CrashStep ==
  ASSUME IInv, Crash
  PROVE  IInv'
<1>1. /\ call' = Idle /\ kills' = {} /\ hold' = now + Timeout + 1
      /\ UNCHANGED <<now, boxes, given, buried, strays, calls>>
  BY DEF Crash, HoldOff
<1>2. Types /\ Times /\ now \in Nat
  BY CallKnown DEF IInv, Base
<1>3. Types'
  <2>1. now + Timeout + 1 \in Nat
    BY <1>2, Numbers
  <2>2. kills' \cup given \cup buried \cup strays \subseteq 1..Len(boxes)
    BY <1>1, <1>2 DEF Types
  <2> QED BY <1>1, <1>2, <2>1, <2>2, IdleFacts DEF Types
<1>4. Handles' /\ Sifted' /\ Handled'
  BY <1>1, IdleFacts DEF Handles, Sifted, Handled, Handling, Sifting
<1>5. Times' /\ Alone' /\ Answers' /\ Graves'
  BY <1>1 DEF IInv, Base, Safe, Times, Alone, Answers, Graves, Past
<1>6. Waited'
  <2> SUFFICES ASSUME NEW i \in 1..Len(boxes)
               PROVE  boxes[i].deadline < now + Timeout + 1
    BY <1>1 DEF Waited
  <2>1. boxes[i] \in Box /\ Timed(boxes[i], now)
    BY <1>2, Elements DEF Types, Times
  <2> QED BY <1>2, <2>1, Numbers DEF Timed, Box
<1> QED BY <1>3, <1>4, <1>5, <1>6 DEF IInv, Base, Safe

-----------------------------------------------------------------------------
(* What is so of every reachable state.                                    *)

LEMMA InitIInv == Init => IInv
<1> SUFFICES ASSUME Init PROVE IInv
  OBVIOUS
<1>1. boxes = <<>> /\ boxes \in Seq(Box) /\ Len(boxes) = 0 /\ call = Idle
  BY DEF Init
<1>2. Types
  <2>1. now \in 0..MaxTime /\ calls \in 0..MaxCalls /\ hold \in Nat
    BY Numbers DEF Init
  <2>2. kills \cup given \cup buried \cup strays \subseteq 1..Len(boxes)
    BY DEF Init
  <2>3. boxes \in Seq(Box) /\ Len(boxes) <= MaxBoxes
    BY <1>1, Numbers
  <2>4. call \in Calls
    BY <1>1, IdleFacts
  <2> QED BY <2>1, <2>2, <2>3, <2>4 DEF Types
<1>3. Handles /\ Sifted /\ Handled
  BY <1>1, <1>2, Resting
<1>4. Times /\ Alone /\ Answers /\ Graves /\ Waited
  BY <1>1 DEF Init, Times, Alone, Answers, Graves, Waited
<1> QED BY <1>2, <1>3, <1>4 DEF IInv, Base, Safe

LEMMA NextIInv ==
  ASSUME IInv, [Next]_vars
  PROVE  IInv'
<1>1. CASE \E spec \in Specs : Begin("claim", spec)
  BY <1>1, BeginStep
<1>2. CASE \E spec \in Specs \cup {AnySpec} : Begin("lookup", spec)
  BY <1>2, BeginStep
<1>3. CASE List \/ NotFound \/ Drop \/ Promote \/ Detail \/ RequestFails
  BY <1>3, ListStep, NotFoundStep, DropStep, PromoteStep, DetailStep, RefusedStep
<1>4. CASE Create \/ CreateRefused \/ Created \/ CreateLost \/ Extend \/ ExtendFails
  BY <1>4, CreateStep, RefusedStep, CreatedStep, CreateLostStep, ExtensionStep
<1>5. CASE Crash \/ Tick
  BY <1>5, CrashStep, TickStep
<1>6. CASE \E i \in 1..Len(boxes) :
             Start(i) \/ Expire(i) \/ Vanish(i) \/ Inspect(i) \/ Kill(i) \/ Release(i)
  BY <1>6, StartStep, VanishStep, DeletionStep, InspectStep
<1>7. CASE UNCHANGED vars
  <2>1. Evolves
    BY <1>7, Still DEF IInv, Base, Types, vars
  <2> QED BY <1>7, <2>1, WorldStep DEF vars
<1> QED BY <1>1, <1>2, <1>3, <1>4, <1>5, <1>6, <1>7 DEF Next

\* Every reachable state has the invariant.
THEOREM Invariance == Spec => []IInv
<1>1. IInv /\ [Next]_vars => IInv'
  BY NextIInv
<1> QED BY <1>1, InitIInv, PTL DEF Spec

\* e2b.go: a key's callers never have two sandboxes that run, and no two sandboxes of a
\* key run for their whole TTL, however late the service starts them and whichever
\* calls fail, time out, lose their answer or are cut off by a crash; but for those that
\* started in time after their create's answer was lost or a list left them out, and
\* those that started late with a TTL too short to show it.
THEOREM OneSandboxAlways ==
  Spec => []OneSandbox
<1>1. ASSUME IInv PROVE OneSandbox
  <2>1. \A i \in 1..Len(boxes) : boxes[i] \in Box /\ Timed(boxes[i], now)
    BY <1>1, Elements DEF IInv, Base, Types, Times
  <2>2. TypeOK
    BY <1>1, <2>1 DEF IInv, Base, Types, Handles, Handling, TypeOK, Calls, Places, Box,
                     Timed
  <2>3. ASSUME NEW i \in 1..Len(boxes), NEW j \in 1..Len(boxes), Runs(i), Runs(j),
               ~Doubtful(i), ~Doubtful(j),
               \/ {i, j} \subseteq given
               \/ Promoted(boxes[i]) /\ Promoted(boxes[j])
        PROVE  i = j
    <3>1. \A k \in {i, j} : Known(boxes[k])
      <4>1. CASE {i, j} \subseteq given
        BY <1>1, <4>1 DEF IInv, Safe, Answers
      <4>2. CASE Promoted(boxes[i]) /\ Promoted(boxes[j])
        BY <2>1, <4>2 DEF Timed, Distinct
      <4> QED BY <2>3, <4>1, <4>2
    <3>2. \A k \in {i, j} : ~Late(boxes[k]) /\ k \notin strays
      BY <2>3, <3>1 DEF Known, Doubtful, Late
    <3>3. ~Past(i) /\ ~Past(j)
      BY <2>3, <3>2 DEF Runs, Past, Spent, Gone
    <3> QED BY <1>1, <3>3 DEF IInv, Safe, Alone
  <2> QED BY <2>2, <2>3 DEF OneSandbox
<1> QED BY <1>1, Invariance, PTL

\* provider.go:119-124, for the E2B adapter: once a Lookup has found nothing, no sandbox
\* that was asked for before is ever handed out, but for the same ones.
THEOREM NotFoundIsFinalAlways ==
  Spec => []NotFoundIsFinal
<1>1. ASSUME IInv, NEW i \in given \cap buried PROVE Doubtful(i)
  <2>1. Known(boxes[i]) /\ (Late(boxes[i]) \/ i \in strays)
    BY <1>1 DEF IInv, Safe, Answers, Graves
  <2> QED BY <2>1 DEF Known, Late, Doubtful
<1>2. IInv => NotFoundIsFinal
  BY <1>1 DEF NotFoundIsFinal
<1> QED BY <1>2, Invariance, PTL

-----------------------------------------------------------------------------
(* The reaper, beside the deletions of an adapter that honours versions.   *)
(*                                                                         *)
(* A deletion names the version of a sandbox whose expiry had passed when  *)
(* the reaper listed it, and what has expired remains so.  The handles a   *)
(* pass still has to deal with and the deletions it has asked for are      *)
(* together at most MaxPerCycle.                                           *)

\* Everything but the pass and its deletions.
Outside ==
    /\ box \in [Keys -> [ver : 0..MaxVersion, live : BOOLEAN]]
    /\ past \subseteq Keys \X Versions
    /\ cached \in [Keys -> 0..MaxVersion]
    /\ target \in BOOLEAN
    /\ faults \in 0..MaxFaults
    /\ \A k \in Keys : box[k].live => box[k].ver # 0

Overdue == {d \in Item : <<d.k, d.ver>> \in past}

Passes == [at : {"idle", "list", "reap", "wait"}, page : 0..MaxPages,
           todo : Seq(Overdue), answer : {"none", "gone", "error"}, sent : Nat]

\* What a pass may hold at each of its places.
Within(p) ==
    /\ p.at = "idle" => p.sent = 0
    /\ p.at = "list" => p.sent = 0 /\ Len(p.todo) <= MaxPerCycle /\ p.page < MaxPages
    /\ p.at = "reap" => p.sent + Len(p.todo) <= MaxPerCycle
    /\ p.at = "wait" => p.todo # <<>> /\ p.sent + Len(p.todo) - 1 <= MaxPerCycle

ReaperInv == Outside /\ wire \subseteq Overdue /\ pass \in Passes /\ Within(pass)

\* The constants are numbers.
LEMMA CyclesAreNumbers ==
    /\ NumKeys \in Nat /\ PageSize \in Nat /\ MaxPages \in Nat \ {0}
    /\ MaxPerCycle \in Nat \ {0} /\ MaxVersion \in Nat /\ MaxFaults \in Nat
  BY ReaperAssumption

\* A pass that has ended.
LEMMA NoPassIsWithin ==
    NoPass \in Passes /\ Within(NoPass)
<1>1. <<>> \in Seq(Overdue)
  BY EmptySeq
<1>2. 0 \in 0..MaxPages
  BY CyclesAreNumbers
<1> QED BY <1>1, <1>2 DEF NoPass, Passes, Within

\* The reaper starts with no pass under way.
LEMMA ReaperBegins == ASSUME ReaperInit PROVE ReaperInv
<1>1. 0 \in 0..MaxVersion /\ 0 \in 0..MaxFaults
  BY CyclesAreNumbers
<1>2. [ver |-> 0, live |-> FALSE] \in [ver : 0..MaxVersion, live : BOOLEAN]
  BY <1>1
<1>3. Outside
  BY <1>1, <1>2 DEF ReaperInit, Outside
<1>4. wire = {} /\ pass = NoPass
  BY DEF ReaperInit
<1> QED BY <1>3, <1>4, NoPassIsWithin DEF ReaperInv

\* The handles in a list in order are those of its set, and not too many.
LEMMA InOrderIs ==
    ASSUME NEW S, IsFiniteSet(S), NEW s \in InOrder(S)
    PROVE  s \in Seq(S) /\ Len(s) \in Nat /\ \A i \in 1..Len(s) : s[i] \in S
<1>1. Cardinality(S) \in Nat
  BY FS_CardinalityType
<1>2. s \in [1..Cardinality(S) -> S]
  BY DEF InOrder
<1>3. s \in Seq(S)
  BY <1>1, <1>2, IsASeq
<1> QED BY <1>3, ElementOfSeq, LenProperties

\* What is left to do stays overdue when the expiries that have passed become more.
LEMMA PassUnmoved ==
    ASSUME ReaperInv, Outside', past \subseteq past', pass' = pass, wire' = wire
    PROVE  ReaperInv'
<1>1. Overdue \subseteq Overdue'
  BY DEF Overdue
<1>2. Seq(Overdue) \subseteq Seq(Overdue')
  BY <1>1, SeqMonotonic
<1>3. pass.todo \in Seq(Overdue')
  BY <1>2 DEF ReaperInv, Passes
<1>4. Passes' = [at : {"idle", "list", "reap", "wait"}, page : 0..MaxPages,
                todo : Seq(Overdue'), answer : {"none", "gone", "error"}, sent : Nat]
  BY DEF Passes
<1>5. pass \in Passes'
  BY <1>3, <1>4 DEF ReaperInv, Passes
<1> QED BY <1>1, <1>5 DEF ReaperInv, Within

\* A claim makes a sandbox, with a version, or changes the cached handles.
LEMMA BindOutside ==
    ASSUME Outside, NEW k \in Keys, Bind(k)
    PROVE  Outside' /\ past' = past /\ pass' = pass /\ wire' = wire
<1>1. CASE UNCHANGED box
  BY <1>1 DEF Bind, Lives, Outside
<1>2. CASE box' = [box EXCEPT ![k] = [ver |-> box[k].ver + 1, live |-> TRUE]] /\
           box[k].ver < MaxVersion /\ cached' = [cached EXCEPT ![k] = box[k].ver + 1]
  <2>1. [ver |-> box[k].ver + 1, live |-> TRUE] \in [ver : 0..MaxVersion, live : BOOLEAN]
    BY <1>2, CyclesAreNumbers DEF Outside
  <2>2. UNCHANGED <<past, target, pass, wire, faults>>
    BY DEF Bind
  <2>3. box[k].ver + 1 \in 0..MaxVersion /\ box[k].ver + 1 # 0
    BY <1>2, CyclesAreNumbers DEF Outside
  <2> QED BY <1>2, <2>1, <2>2, <2>3 DEF Outside
<1> QED BY <1>1, <1>2 DEF Bind

\* So does a release.
LEMMA ReleaseOutside ==
    ASSUME Outside, NEW k \in Keys, ClientRelease(k)
    PROVE  Outside' /\ past' = past /\ pass' = pass /\ wire' = wire
<1>1. faults' \in 0..MaxFaults
  BY CyclesAreNumbers DEF ClientRelease, Fault, Outside
<1>2. 0 \in 0..MaxVersion
  BY CyclesAreNumbers
<1> QED BY <1>1, <1>2 DEF ClientRelease, Outside

\* Time only adds to the expiries that have passed.
LEMMA ExpiresOutside ==
    ASSUME Outside, NEW k \in Keys, Expires(k)
    PROVE  Outside' /\ past \subseteq past' /\ pass' = pass /\ wire' = wire
<1>1. box[k].ver \in Versions
  BY CyclesAreNumbers DEF Expires, Lives, Versions, Outside
<1> QED BY <1>1 DEF Expires, Outside

\* A fault counts, and leaves the rest of the world alone.
LEMMA FaultOutside ==
    ASSUME Outside, UNCHANGED <<box, past, cached>>, target' \in BOOLEAN,
           Fault \/ UNCHANGED faults
    PROVE  Outside' /\ Overdue' = Overdue
<1>1. faults' \in 0..MaxFaults
  BY CyclesAreNumbers DEF Fault, Outside
<1> QED BY <1>1 DEF Outside, Overdue

\* Claims, releases, time and the set of targets leave the pass alone.
LEMMA AroundThePass ==
    ASSUME ReaperInv,
           \/ \E k \in Keys : Bind(k) \/ ClientRelease(k) \/ Expires(k)
           \/ SetTarget \/ RemoveTarget
    PROVE  ReaperInv'
<1>1. ASSUME NEW k \in Keys, Bind(k) \/ ClientRelease(k) \/ Expires(k) PROVE ReaperInv'
  BY <1>1, BindOutside, ReleaseOutside, ExpiresOutside, PassUnmoved DEF ReaperInv
<1>2. CASE SetTarget \/ RemoveTarget
  <2>1. Outside'
    BY <1>2, FaultOutside DEF SetTarget, RemoveTarget, world, ReaperInv
  <2> QED BY <1>2, <2>1, PassUnmoved DEF SetTarget, RemoveTarget, world
<1> QED BY <1>1, <1>2

\* A pass begins, or ends for whatever reason, with nothing to do.
LEMMA BeginsOrEnds ==
    ASSUME ReaperInv,
           RunOnce \/ ListFails \/ Finish \/ CutShort
    PROVE  ReaperInv'
<1>1. Outside' /\ Overdue' = Overdue /\ wire' = wire
  BY FaultOutside DEF RunOnce, ListFails, Finish, CutShort, world, ReaperInv,
                      Outside
<1>2. Passes' = Passes
  BY <1>1 DEF Passes
<1>3. pass' = NoPass \/ pass' = [NoPass EXCEPT !.at = "list"]
  BY DEF RunOnce, ListFails, Finish, CutShort
<1>4. [NoPass EXCEPT !.at = "list"] \in Passes
  BY NoPassIsWithin DEF Passes
<1>5. Within([NoPass EXCEPT !.at = "list"])
  <2>1. Len(<<>>) = 0
    BY EmptySeq
  <2> QED BY <2>1, CyclesAreNumbers DEF NoPass, Within
<1> QED BY <1>1, <1>2, <1>3, <1>4, <1>5, NoPassIsWithin DEF ReaperInv

\* What a page adds has expired and fits into the room there is.
LEMMA ListOwnedStep ==
    ASSUME ReaperInv, ListOwned
    PROVE  ReaperInv'
<1>1. Outside' /\ Overdue' = Overdue /\ wire' = wire
  BY FaultOutside DEF ListOwned, world, ReaperInv, Outside
<1>2. Passes' = Passes
  BY <1>1 DEF Passes
<1>3. PICK list \in InOrder({k \in Keys : box[k].live}) :
      \E old \in InOrder(Old(Page(list, pass.page))) :
         LET tripped == Len(old) > Room
             taken   == IF tripped THEN Room ELSE Len(old)
         IN  pass' = [pass EXCEPT
               !.todo = @ \o [i \in 1..taken |-> [k |-> old[i], ver |-> box[old[i]].ver]],
               !.at = IF tripped \/ ~More(list, pass.page) \/ pass.page + 1 = MaxPages
                      THEN "reap" ELSE "list",
               !.page = @ + 1]
  BY DEF ListOwned
<1> DEFINE page == Page(list, pass.page)
<1>4. PICK old \in InOrder(Old(page)) :
         LET tripped == Len(old) > Room
             taken   == IF tripped THEN Room ELSE Len(old)
         IN  pass' = [pass EXCEPT
               !.todo = @ \o [i \in 1..taken |-> [k |-> old[i], ver |-> box[old[i]].ver]],
               !.at = IF tripped \/ ~More(list, pass.page) \/ pass.page + 1 = MaxPages
                      THEN "reap" ELSE "list",
               !.page = @ + 1]
  BY <1>3
<1> DEFINE tripped == Len(old) > Room
           taken   == IF tripped THEN Room ELSE Len(old)
           new     == [i \in 1..taken |-> [k |-> old[i], ver |-> box[old[i]].ver]]
<1>5. page \subseteq Keys
  <2>1. IsFiniteSet(Keys)
    BY CyclesAreNumbers, FS_Interval DEF Keys
  <2>2. {k \in Keys : box[k].live} \in SUBSET Keys
    OBVIOUS
  <2>3. IsFiniteSet({k \in Keys : box[k].live})
    BY <2>1, <2>2, FS_Subset
  <2>4. \A i \in 1..Len(list) : list[i] \in Keys
    BY <2>3, InOrderIs
  <2>5. DOMAIN list = 1..Len(list)
    BY <2>3, InOrderIs, LenProperties
  <2> QED BY <2>4, <2>5 DEF Page
<1>6. /\ old \in Seq(Old(page)) /\ Len(old) \in Nat
      /\ \A i \in 1..Len(old) : old[i] \in Old(page)
  <2>1. IsFiniteSet(Keys)
    BY CyclesAreNumbers, FS_Interval DEF Keys
  <2>2. Old(page) \in SUBSET Keys
    BY <1>5 DEF Old
  <2>3. IsFiniteSet(Old(page))
    BY <2>1, <2>2, FS_Subset
  <2> QED BY <2>3, InOrderIs
<1>7. pass.at = "list" /\ Within(pass) /\ pass \in Passes /\ pass.todo \in Seq(Overdue)
  BY DEF ListOwned, ReaperInv, Passes
<1>8. Len(pass.todo) \in Nat /\ Len(pass.todo) <= MaxPerCycle /\ Room \in Nat
  BY <1>7, LenProperties, CyclesAreNumbers DEF Room, Within
<1>9. taken \in Nat /\ taken <= Len(old) /\ Len(pass.todo) + taken <= MaxPerCycle
  <2>1. Room = MaxPerCycle - Len(pass.todo) /\ Room \in Nat /\ Len(old) \in Nat
    BY <1>6, <1>8 DEF Room
  <2>2. taken \in Nat /\ taken <= Len(old) /\ taken <= Room
    BY <2>1
  <2> HIDE DEF taken
  <2> QED BY <1>8, <2>1, <2>2, CyclesAreNumbers
<1>10. \A i \in 1..taken : [k |-> old[i], ver |-> box[old[i]].ver] \in Overdue
  <2> TAKE i \in 1..taken
  <2>1. old[i] \in Old(page)
    BY <1>6, <1>9
  <2>2. old[i] \in Keys /\ <<old[i], box[old[i]].ver>> \in past
    BY <2>1, <1>5 DEF Old, Expired
  <2> QED BY <2>2 DEF Overdue, Item, ReaperInv, Outside
<1>11. new \in Seq(Overdue) /\ Len(new) = taken
  <2> HIDE DEF taken
  <2>1. new \in [1..taken -> Overdue]
    BY <1>10
  <2> QED BY <1>9, <2>1, IsASeq, LenProperties
<1>12. pass.todo \o new \in Seq(Overdue) /\ Len(pass.todo \o new) = Len(pass.todo) + taken
  <2> HIDE DEF new, taken
  <2> QED BY <1>7, <1>11, ConcatProperties
<1>13. pass' = [pass EXCEPT !.todo = pass.todo \o new,
                 !.at = IF tripped \/ ~More(list, pass.page) \/ pass.page + 1 = MaxPages
                        THEN "reap" ELSE "list",
                 !.page = pass.page + 1]
  BY <1>4
<1> HIDE DEF new, taken, tripped, page
<1>14. pass' \in Passes
  <2>1. pass.page + 1 \in 0..MaxPages
    BY <1>7, CyclesAreNumbers DEF Passes, Within
  <2> QED BY <1>7, <1>12, <1>13, <2>1 DEF Passes
<1>15. Within(pass')
  BY <1>7, <1>8, <1>9, <1>12, <1>13, CyclesAreNumbers DEF Passes, Within
<1> QED BY <1>1, <1>2, <1>14, <1>15 DEF ReaperInv

\* A deletion that is sent leaves the list for the wire.
LEMMA SendStep == ASSUME ReaperInv, Send PROVE ReaperInv'
<1>1. Outside' /\ Overdue' = Overdue
  BY FaultOutside DEF Send, world, ReaperInv, Outside
<1>2. Passes' = Passes
  BY <1>1 DEF Passes
<1>3. pass.at = "reap" /\ pass.todo # <<>> /\ pass \in Passes /\ Within(pass) /\
      pass.todo \in Seq(Overdue) /\ pass.sent \in Nat
  BY DEF Send, ReaperInv, Passes
<1>4. Head(pass.todo) \in Overdue /\ Len(pass.todo) \in Nat
  BY <1>3, HeadTailProperties, LenProperties
<1>5. pass' \in Passes
  <2>1. pass' = [pass EXCEPT !.at = "wait", !.answer = "none", !.sent = pass.sent + 1]
    BY DEF Send
  <2>2. pass.sent + 1 \in Nat
    BY <1>3
  <2> QED BY <1>3, <2>1, <2>2 DEF Passes
<1>6. Within(pass')
  BY <1>3, <1>4, CyclesAreNumbers DEF Send, Within, Passes
<1>7. wire' \subseteq Overdue
  BY <1>4 DEF Send, ReaperInv
<1> QED BY <1>1, <1>2, <1>5, <1>6, <1>7 DEF ReaperInv

\* The answer changes nothing but itself.
LEMMA ServeStep ==
    ASSUME ReaperInv, NEW d \in wire, Serve(d)
    PROVE  ReaperInv'
<1>1. d.k \in Keys
  BY DEF ReaperInv, Overdue, Item
<1>2. Outside'
  BY <1>1 DEF Serve, ReaperInv, Outside
<1>3. Overdue' = Overdue
  BY DEF Serve, Overdue
<1>4. Passes' = Passes
  BY <1>3 DEF Passes
<1>5. pass' = pass \/ \E a \in {"gone", "error"} : pass' = [pass EXCEPT !.answer = a]
  BY DEF Serve
<1>6. pass' \in Passes /\ Within(pass')
  BY <1>5 DEF ReaperInv, Passes, Within
<1>7. wire' \subseteq Overdue
  BY DEF Serve, ReaperInv
<1> QED BY <1>2, <1>3, <1>4, <1>6, <1>7 DEF ReaperInv

\* After an answer, or without one, the pass goes on with the rest.
LEMMA ContinuedStep ==
    ASSUME ReaperInv, Answered \/ TimesOut
    PROVE  ReaperInv'
<1>1. pass.at = "wait" /\ pass.todo # <<>> /\ pass \in Passes /\ Within(pass) /\
      pass.todo \in Seq(Overdue) /\ pass.sent \in Nat
  BY DEF Answered, TimesOut, ReaperInv, Passes, Within
<1>2. Overdue' = Overdue /\ wire' = wire /\ pass' = Continued
  BY DEF Answered, TimesOut, world, Overdue
<1>3. Passes' = Passes
  BY <1>2 DEF Passes
<1>4. Outside'
  <2>1. CASE Answered
    <3>1. Head(pass.todo) \in Overdue
      BY <1>1, HeadTailProperties
    <3>2. 0 \in 0..MaxVersion
      BY CyclesAreNumbers
    <3> QED BY <2>1, <3>1, <3>2 DEF Answered, ReaperInv, Outside, Overdue, Item
  <2>2. CASE TimesOut
    BY <2>2, FaultOutside DEF TimesOut, world, ReaperInv, Outside
  <2> QED BY <2>1, <2>2
<1>5. Tail(pass.todo) \in Seq(Overdue) /\ Len(Tail(pass.todo)) = Len(pass.todo) - 1 /\
      Len(pass.todo) \in Nat
  BY <1>1, HeadTailProperties, LenProperties
<1>6. Continued \in Passes
  BY <1>1, <1>5 DEF Continued, Passes
<1>7. Within(Continued)
  BY <1>1, <1>5, CyclesAreNumbers DEF Continued, Within, Passes
<1> QED BY <1>2, <1>3, <1>4, <1>6, <1>7 DEF ReaperInv

\* Every step of the reaper and of what is around it keeps the invariant.
LEMMA ReaperGoesOn ==
    ASSUME ReaperInv, [ReaperNext]_reaperVars
    PROVE  ReaperInv'
<1>1. CASE \/ \E k \in Keys : Bind(k) \/ ClientRelease(k) \/ Expires(k)
           \/ SetTarget \/ RemoveTarget
  BY <1>1, AroundThePass
<1>2. CASE RunOnce \/ ListFails \/ Finish \/ CutShort
  BY <1>2, BeginsOrEnds
<1>3. CASE ListOwned
  BY <1>3, ListOwnedStep
<1>4. CASE Send
  BY <1>4, SendStep
<1>5. CASE \E d \in wire : Serve(d)
  BY <1>5, ServeStep
<1>6. CASE Answered \/ TimesOut
  BY <1>6, ContinuedStep
<1>7. CASE UNCHANGED reaperVars
  <2>1. UNCHANGED <<box, past, cached, target, pass, wire, faults>>
    BY <1>7 DEF reaperVars
  <2>2. Outside'
    BY <2>1 DEF ReaperInv, Outside
  <2> QED BY <2>1, <2>2, PassUnmoved
<1> QED BY <1>1, <1>2, <1>3, <1>4, <1>5, <1>6, <1>7 DEF ReaperNext, Pass

\* Every reachable state of the reaper has the invariant.
LEMMA ReaperAlways ==
    ReaperSpec => []ReaperInv
<1>1. ReaperInv /\ [ReaperNext]_reaperVars => ReaperInv'
  BY ReaperGoesOn
<1>2. ReaperInit => ReaperInv
  BY ReaperBegins
<1> QED BY <1>1, <1>2, PTL DEF ReaperSpec

\* reaper.go:255-285: however the list shifts between its pages and whatever fails, a
\* pass never asks for more than MaxPerCycle deletions, for every number of keys, size
\* of the pages and number of faults.
THEOREM CircuitBreakerAlways ==
    ReaperSpec => []CircuitBreaker
<1>1. ASSUME ReaperInv PROVE CircuitBreaker
  <2>1. pass.todo \in Seq(Item) /\ wire \subseteq Item
    <3>1. Overdue \subseteq Item
      BY DEF Overdue
    <3>2. Seq(Overdue) \subseteq Seq(Item)
      BY <3>1, SeqMonotonic
    <3> QED BY <1>1, <3>1, <3>2 DEF ReaperInv, Passes
  <2>2. ReaperTypeOK
    BY <1>1, <2>1 DEF ReaperInv, Outside, Passes, ReaperTypeOK
  <2>3. pass.sent <= MaxPerCycle
    <3>1. pass.at \in {"idle", "list", "reap", "wait"} /\ pass.sent \in Nat /\
          pass.todo \in Seq(Item)
      BY <1>1, <2>1 DEF ReaperInv, Passes
    <3>2. Len(pass.todo) \in Nat /\ (pass.todo # <<>> => Len(pass.todo) > 0)
      BY <3>1, LenProperties, EmptySeq
    <3> QED BY <1>1, <3>1, <3>2, CyclesAreNumbers DEF ReaperInv, Within
  <2> QED BY <2>2, <2>3 DEF CircuitBreaker
<1> QED BY <1>1, ReaperAlways, PTL

\* provider.go:162-167, agentsandbox.go:385-389: "a background reap cannot delete a
\* newly created replacement that reused the same ID". What is on the wire is overdue,
\* and stays so however late it is served.
THEOREM OnlyExpiredAlways ==
    ReaperSpec => OnlyExpired
<1>1. ASSUME ReaperInv, [ReaperNext]_reaperVars, wire' # wire, NEW k \in Keys, Lives(k)
      PROVE  box'[k].live
  <2>1. CASE Send
    BY <1>1, <2>1 DEF Send, world, Lives
  <2>2. ASSUME NEW d \in wire, Serve(d) PROVE box'[k].live
    <3>1. <<d.k, d.ver>> \in past
      BY <1>1 DEF ReaperInv, Overdue
    <3>2. k = d.k => ~Matches(d)
      BY <1>1, <3>1 DEF Lives, Expired, Matches
    <3> QED BY <1>1, <2>2, <3>2 DEF Serve, Lives, ReaperInv, Outside
  <2>3. Send \/ \E d \in wire : Serve(d)
    BY <1>1 DEF ReaperNext, Pass, Bind, ClientRelease, Expires, SetTarget, RemoveTarget,
                RunOnce, ListOwned, Answered, Finish, ListFails, TimesOut,
                CutShort, world, reaperVars
  <2> QED BY <2>1, <2>2, <2>3
<1>2. ReaperInv /\ [ReaperNext]_reaperVars =>
        [wire' # wire => \A k \in Keys : Lives(k) => box'[k].live]_reaperVars
  BY <1>1
<1> QED BY <1>2, ReaperAlways, PTL DEF ReaperSpec, OnlyExpired
=============================================================================
