----------------------------- MODULE LeaderProofs ------------------------------
(***************************************************************************)
(* Proofs about Leader for every set of replicas, providers and timeouts   *)
(* and any number of processes: while a leader accepts placement requests  *)
(* no creation of another process can still take effect that was given as  *)
(* long as an attempt the leader knows of, or less, and the Service        *)
(* selects no other replica.                                               *)
(*                                                                         *)
(* The lease makes the leader unique (Led).  A new leader counts its age   *)
(* from the moment nobody else can send a creation, so what others have    *)
(* sent has at most its whole time less that age to live (Late).           *)
(***************************************************************************)
EXTENDS Leader, TLAPS, WellFoundedInduction

Targets == [Providers -> {0} \cup Timeouts]

Proc == [up : BOOLEAN, proc : 0..MaxProcs, at : {"clearing", "waiting", "serving"},
         lead : BOOLEAN, armed : BOOLEAN, age : 0..MaxHold, quiet : 0..RenewTime,
         known : Targets, admits : BOOLEAN, flight : Targets, due : 0..ClaimTimeout,
         closing : {"no", "server", "closed"}]

Attempt == [by : 1..MaxProcs, span : 1..ClaimTimeout, left : 1..MaxHold, open : BOOLEAN]

Unique ==
    /\ \A r \in Replicas : rep[r].proc <= procs /\ (rep[r].up => rep[r].proc >= 1)
    /\ \A r, s \in Replicas : r # s => rep[r].proc # rep[s].proc \/ rep[r].proc = 0

Led ==
    \A r \in Replicas :
        /\ rep[r].lead => /\ rep[r].up /\ Holds(r)
                          /\ lease.left = LeaseTime - rep[r].quiet
        /\ rep[r].armed => rep[r].lead
        /\ rep[r].admits \/ rep[r].due > 0 => rep[r].armed

Late ==
    /\ \A a \in attempts : a.left <= a.span + Grace
    /\ \A r \in Replicas : rep[r].armed =>
          \A a \in attempts : a.by = rep[r].proc \/ a.left <= a.span + Grace - rep[r].age

Labelled == \A r \in Replicas : Ready(r) /\ label[r] => rep[r].lead

IInv == TypeOK /\ Unique /\ Led /\ Late /\ Labelled
-----------------------------------------------------------------------------
(* Bounds and durations.                                                   *)

LEMMA MinOfTwo ==
    ASSUME NEW i \in Int, NEW j \in Int
    PROVE  Min({i, j}) = IF i <= j THEN i ELSE j
<1>1. \E x \in {i, j} : \A y \in {i, j} : x <= y
  <2>1. CASE i <= j BY <2>1
  <2>2. CASE j <= i BY <2>2
  <2> QED BY <2>1, <2>2
<1>2. Min({i, j}) \in {i, j} /\ \A y \in {i, j} : Min({i, j}) <= y
  BY <1>1, Zenon DEF Min
<1> QED BY <1>2

LEMMA MaxOfTwo ==
    ASSUME NEW i \in Int, NEW j \in Int
    PROVE  Max({i, j}) = IF i <= j THEN j ELSE i
<1>1. \E x \in {i, j} : \A y \in {i, j} : x >= y
  <2>1. CASE i <= j BY <2>1
  <2>2. CASE j <= i BY <2>2
  <2> QED BY <2>1, <2>2
<1>2. Max({i, j}) \in {i, j} /\ \A y \in {i, j} : Max({i, j}) >= y
  BY <1>1, Zenon DEF Max
<1> QED BY <1>2

\* A set of numbers below a bound has a greatest: of the bounds the least.
LEMMA MaxBound ==
    ASSUME NEW S \in SUBSET Nat, S # {}, NEW b \in Nat, \A x \in S : x <= b
    PROVE  Max(S) \in S /\ \A x \in S : x <= Max(S)
<1> DEFINE T == {c \in Nat : \A x \in S : x <= c}
<1>1. T \subseteq Nat /\ T # {}
  OBVIOUS
<1>2. PICK m \in T : \A k \in T : <<k, m>> \notin OpToRel(<, Nat)
  BY <1>1, WFMin, NatLessThanWellFounded, Zenon
<1>3. m \in Nat /\ (\A x \in S : x <= m) /\ \A k \in T : ~(k < m)
  BY <1>2, <1>1, Zenon DEF OpToRel
<1>4. m \in S
  <2> SUFFICES ASSUME m \notin S PROVE FALSE
    OBVIOUS
  <2>1. \A x \in S : x <= m - 1
    BY <1>3
  <2>2. m > 0
    <3>1. PICK x \in S : x <= m /\ x # m /\ x \in Nat
      BY <1>3
    <3> QED BY <3>1, <1>3
  <2>3. m - 1 \in T
    BY <2>1, <2>2, <1>3
  <2> QED BY <2>3, <1>3
<1>5. \A x \in S : m >= x
  BY <1>3
<1>6. Max(S) \in S /\ \A x \in S : Max(S) >= x
  BY <1>4, <1>5, Zenon DEF Max
<1> QED BY <1>6, <1>3

LEMMA Constants ==
    /\ ClaimTimeout \in Nat \ {0} /\ Default \in Nat \ {0} /\ Grace \in Nat \ {0}
    /\ LeaseTime \in Nat \ {0} /\ RenewTime \in Nat \ {0} /\ RenewTime < LeaseTime
    /\ MaxProcs \in Nat \ {0} /\ Timeouts \subseteq Nat \ {0}
    /\ MaxHold \in Nat /\ MaxHold = ClaimTimeout + Grace
<1>1. ClaimTimeout \in Nat /\ Grace \in Nat
  BY LeaderAssumption
<1> QED BY <1>1, LeaderAssumption DEF MaxHold

\* The longest attempt a replica knows of, by which its hold-off goes, covers each of its
\* targets, up to the time any request has.
LEMMA LongestKnownIs ==
    ASSUME TypeOK, NEW r \in Replicas
    PROVE  /\ LongestKnown(r) \in Nat
           /\ \A p \in Providers :
                 rep[r].known[p] <= LongestKnown(r) \/ ClaimTimeout <= LongestKnown(r)
<1> DEFINE S == {Default} \cup {rep[r].known[q] : q \in Providers}
<1>1. \A q \in Providers : rep[r].known[q] \in {0} \cup Timeouts
  BY DEF TypeOK
<1>2. S \in SUBSET Nat /\ S # {}
  <2>1. \A x \in S : x \in Nat
    BY <1>1, Constants
  <2> QED BY <2>1
<1>3. PICK b \in Timeouts : \A t \in Timeouts : t <= b
  BY LeaderAssumption
<1>4. b \in Nat /\ Default \in Nat
  BY <1>3, Constants
<1>5. PICK c \in Nat : \A x \in S : x <= c
  <2>1. \A x \in S : x <= b + Default
    BY <1>1, <1>3, <1>4, Constants
  <2>2. b + Default \in Nat
    BY <1>4
  <2> HIDE DEF S
  <2> QED BY <2>1, <2>2
<1>6. \A p \in Providers : rep[r].known[p] \in S
  OBVIOUS
<1> HIDE DEF S
<1>7. Max(S) \in S /\ \A x \in S : x <= Max(S)
  BY <1>2, <1>5, MaxBound
<1>8. Max(S) \in Nat /\ ClaimTimeout \in Nat
  BY <1>2, <1>7, Constants
<1>9. LongestKnown(r) = IF ClaimTimeout <= Max(S) THEN ClaimTimeout ELSE Max(S)
  BY <1>8, MinOfTwo DEF LongestKnown, S
<1> QED BY <1>6, <1>7, <1>8, <1>9

\* A flight with time and a target left has time for an attempt.
LEMMA DurationRange ==
    ASSUME TypeOK, NEW r \in Replicas, NEW p \in Providers,
           rep[r].due > 0, rep[r].flight[p] > 0
    PROVE  attemptDuration(r, p) \in 1..ClaimTimeout
<1>1. rep[r].due \in 0..ClaimTimeout /\ rep[r].flight[p] \in {0} \cup Timeouts
  BY DEF TypeOK
<1>2. {0} \cup Timeouts \subseteq Int /\ ClaimTimeout \in Int
  BY Constants
<1>3. rep[r].flight[p] \in Int
  BY <1>1, <1>2
<1>4. rep[r].due \in Int /\ rep[r].due <= ClaimTimeout
  BY <1>1, <1>2
<1>5. attemptDuration(r, p)
        = IF rep[r].flight[p] <= rep[r].due THEN rep[r].flight[p] ELSE rep[r].due
  BY <1>3, <1>4, MinOfTwo DEF attemptDuration
<1> QED BY <1>2, <1>3, <1>4, <1>5
-----------------------------------------------------------------------------
(* Steps that change one process.                                          *)

\* TypeOK in parts that a step treats alike.
LEMMA Types ==
    TypeOK <=> /\ lease \in [holder : 0..MaxProcs, left : 0..LeaseTime]
               /\ rep \in [Replicas -> Proc]
               /\ label \in [Replicas -> BOOLEAN]
               /\ attempts \subseteq Attempt
               /\ procs \in 0..MaxProcs
  BY DEF TypeOK, Proc, Targets, Attempt

LEMMA Numbers ==
    ASSUME TypeOK, Unique, NEW r \in Replicas
    PROVE  /\ rep[r].proc \in Nat /\ rep[r].age \in Nat /\ rep[r].quiet \in Nat
           /\ lease.left \in Nat /\ lease.holder \in Nat
           /\ rep[r].proc <= procs /\ procs <= MaxProcs /\ procs \in Nat
           /\ rep[r].quiet <= RenewTime
<1>1. rep[r] \in Proc /\ RenewTime \in Nat /\ MaxHold \in Nat
      /\ MaxProcs \in Nat /\ LeaseTime \in Nat
  BY Types, Constants
<1>2. rep[r].age \in Nat /\ rep[r].quiet \in Nat /\ rep[r].proc \in Nat /\ rep[r].quiet <= RenewTime
  BY <1>1 DEF Proc
<1>3. lease.left \in Nat /\ lease.holder \in Nat /\ procs \in Nat /\ procs <= MaxProcs
  BY <1>1, Types
<1> QED BY <1>2, <1>3 DEF Unique

LEMMA Replaced ==
    ASSUME TypeOK, NEW r \in Replicas, NEW x \in Proc, rep' = [rep EXCEPT ![r] = x]
    PROVE  /\ rep' \in [Replicas -> Proc] /\ rep'[r] = x
           /\ \A s \in Replicas : s # r => rep'[s] = rep[s]
  BY Types

\* No two replicas lead at once, and whoever leads is a process.
LEMMA OneLeader ==
    ASSUME TypeOK, Unique, Led, NEW r \in Replicas, NEW s \in Replicas,
           rep[r].lead, rep[s].lead
    PROVE  r = s /\ rep[r].up /\ rep[r].proc >= 1
  BY DEF Unique, Led, Holds

LEMMA ProcessType ==
    ASSUME NEW n \in 0..MaxProcs
    PROVE  Process(n) \in Proc /\ Down(n) \in Proc
<1>1. /\ 0 \in 0..MaxHold /\ 0 \in 0..RenewTime /\ 0 \in 0..ClaimTimeout
      /\ NoTargets \in Targets
  BY Constants DEF Targets, NoTargets
<1> QED BY <1>1 DEF Process, Down, Proc

LEMMA StartStep ==
    ASSUME IInv, NEW r \in Replicas, Start(r)
    PROVE  IInv'
<1> USE DEF IInv
<1>1. procs + 1 \in 0..MaxProcs /\ procs \in Nat
  BY Types, Constants DEF Start
<1> DEFINE x == Process(procs + 1)
<1>2. x \in Proc /\ x.up /\ x.proc = procs + 1 /\ ~x.lead /\ ~x.armed /\ ~x.admits
      /\ ~(x.due > 0) /\ x.at = "clearing"
  BY <1>1, ProcessType DEF Process
<1>3. /\ rep' \in [Replicas -> Proc] /\ rep'[r] = x
      /\ \A s \in Replicas : s # r => rep'[s] = rep[s]
  BY <1>2, Replaced DEF Start
<1> HIDE DEF x
<1>4. ~rep[r].up /\ UNCHANGED <<lease, label, attempts>> /\ procs' = procs + 1
  BY DEF Start
<1>5. TypeOK'
  BY <1>1, <1>3, <1>4 DEF TypeOK, Proc, Targets, Attempt
<1>6. Unique'
  BY <1>1, <1>2, <1>3, <1>4, Numbers DEF Unique
<1>7. Led'
  BY <1>2, <1>3, <1>4 DEF Led, Holds
<1>8. Late'
  BY <1>2, <1>3, <1>4 DEF Late
<1>9. Labelled'
  BY <1>2, <1>3, <1>4 DEF Labelled, Ready
<1> QED BY <1>5, <1>6, <1>7, <1>8, <1>9
\* A step of a process that changes neither who leads nor what is on its way.
LEMMA Aside ==
    ASSUME IInv, NEW r \in Replicas, NEW x \in Proc, rep' = [rep EXCEPT ![r] = x],
           x.up = rep[r].up, x.proc = rep[r].proc, x.lead = rep[r].lead,
           x.armed = rep[r].armed, x.age = rep[r].age, x.quiet = rep[r].quiet,
           x.admits \/ x.due > 0 => x.armed,
           label' \in [Replicas -> BOOLEAN], UNCHANGED <<lease, attempts, procs>>,
           Labelled'
    PROVE  IInv'
<1> USE DEF IInv
<1>1. /\ rep' \in [Replicas -> Proc] /\ rep'[r] = x
      /\ \A s \in Replicas : s # r => rep'[s] = rep[s]
  BY Replaced
<1>2. TypeOK'
  BY <1>1 DEF TypeOK, Proc, Targets, Attempt
<1>3. Unique'
  BY <1>1 DEF Unique
<1>4. Led'
  BY <1>1 DEF Led, Holds
<1>5. Late'
  BY <1>1 DEF Late
<1> QED BY <1>2, <1>3, <1>4, <1>5

LEMMA TargetStep ==
    ASSUME IInv, NEW r \in Replicas, NEW p \in Providers,
           (\E t \in Timeouts : SetTarget(r, p, t)) \/ RemoveTarget(r, p)
    PROVE  IInv'
<1>1. rep[r] \in Proc /\ TypeOK /\ Labelled /\ Led /\ rep \in [Replicas -> Proc]
  BY Types DEF IInv
<1>2. PICK t \in {0} \cup Timeouts : /\ rep' = [rep EXCEPT ![r].known[p] = t]
                                      /\ UNCHANGED <<lease, label, attempts, procs>>
  BY DEF SetTarget, RemoveTarget
<1> DEFINE x == [rep[r] EXCEPT !.known = [@ EXCEPT ![p] = t]]
<1>3. /\ x \in Proc /\ x.up = rep[r].up /\ x.proc = rep[r].proc /\ x.lead = rep[r].lead
      /\ x.armed = rep[r].armed /\ x.age = rep[r].age /\ x.quiet = rep[r].quiet
      /\ x.admits = rep[r].admits /\ x.due = rep[r].due /\ x.at = rep[r].at
  BY <1>1 DEF Proc, Targets
<1>4. rep' = [rep EXCEPT ![r] = x]
  BY <1>1, <1>2
<1> HIDE DEF x
<1>5. Labelled'
  BY <1>1, <1>2, <1>3, <1>4, Replaced DEF Labelled, Ready
<1>6. x.admits \/ x.due > 0 => x.armed
  BY <1>1, <1>3 DEF Led
<1>7. label' \in [Replicas -> BOOLEAN]
  BY <1>1, <1>2, Types
<1> QED BY <1>2, <1>3, <1>4, <1>5, <1>6, <1>7, Aside

\* The shutdown's stages, and a request that is let past the hold-off and its flight.
LEMMA StageStep ==
    ASSUME IInv, NEW r \in Replicas,
           Terminate(r) \/ Shutdown(r) \/ Admit(r) \/ executeFlight(r) \/ FlightEnds(r)
    PROVE  IInv'
<1>1. rep[r] \in Proc /\ TypeOK /\ Labelled /\ Led
  BY Types DEF IInv
<1>2. rep[r].admits \/ rep[r].due > 0 => rep[r].armed
  BY <1>1 DEF Led
<1>3. PICK x \in Proc :
        /\ rep' = [rep EXCEPT ![r] = x]
        /\ x.up = rep[r].up /\ x.proc = rep[r].proc /\ x.lead = rep[r].lead
        /\ x.armed = rep[r].armed /\ x.age = rep[r].age /\ x.quiet = rep[r].quiet
        /\ x.at = rep[r].at /\ (x.admits \/ x.due > 0 => x.armed)
  <2>1. CASE Terminate(r)
    <3> DEFINE x == [rep[r] EXCEPT !.closing = "server"]
    <3>1. x \in Proc /\ rep' = [rep EXCEPT ![r] = x]
      BY <1>1, <2>1 DEF Terminate, Proc
    <3> QED BY <1>1, <1>2, <3>1 DEF Proc
  <2>2. CASE Shutdown(r)
    <3> DEFINE x == [rep[r] EXCEPT !.closing = "closed"]
    <3>1. x \in Proc /\ rep' = [rep EXCEPT ![r] = x]
      BY <1>1, <2>2 DEF Shutdown, Proc
    <3> QED BY <1>1, <1>2, <3>1 DEF Proc
  <2>3. CASE Admit(r)
    <3> DEFINE x == [rep[r] EXCEPT !.admits = TRUE]
    <3>1. x \in Proc /\ rep' = [rep EXCEPT ![r] = x]
      BY <1>1, <2>3 DEF Admit, Proc
    <3>2. rep[r].armed
      BY <2>3 DEF Admit, Serves
    <3> QED BY <1>1, <3>1, <3>2 DEF Proc
  <2>4. CASE executeFlight(r)
    <3> DEFINE x == [rep[r] EXCEPT !.admits = FALSE, !.flight = rep[r].known,
                                   !.due = ClaimTimeout]
    <3>1. ClaimTimeout \in 0..ClaimTimeout
      BY Constants
    <3>2. x \in Proc
      BY <1>1, <3>1 DEF Proc
    <3>3. rep[r].armed /\ rep' = [rep EXCEPT ![r] = x]
      BY <1>1, <1>2, <2>4 DEF executeFlight
    <3> QED BY <1>1, <3>2, <3>3 DEF Proc
  <2>5. CASE FlightEnds(r)
    <3> DEFINE x == [rep[r] EXCEPT !.flight = NoTargets, !.due = 0]
    <3>1. NoTargets \in Targets /\ 0 \in 0..ClaimTimeout
      BY Constants DEF Targets, NoTargets
    <3>2. x \in Proc
      BY <1>1, <3>1 DEF Proc
    <3>3. rep' = [rep EXCEPT ![r] = x]
      BY <1>1, <2>5 DEF FlightEnds
    <3>4. /\ x.up = rep[r].up /\ x.proc = rep[r].proc /\ x.lead = rep[r].lead
          /\ x.armed = rep[r].armed /\ x.age = rep[r].age /\ x.quiet = rep[r].quiet
          /\ x.at = rep[r].at /\ x.admits = rep[r].admits /\ x.due = 0
      BY <1>1 DEF Proc
    <3>5. x.admits \/ x.due > 0 => x.armed
      BY <1>2, <3>4
    <3> HIDE DEF x
    <3> QED BY <3>2, <3>3, <3>4, <3>5
  <2> QED BY <2>1, <2>2, <2>3, <2>4, <2>5
<1>4. UNCHANGED <<lease, label, attempts, procs>>
  BY DEF Terminate, Shutdown, Admit, executeFlight, FlightEnds
<1>5. Labelled'
  BY <1>1, <1>3, <1>4, Replaced DEF Labelled, Ready
<1>6. label' \in [Replicas -> BOOLEAN]
  BY <1>1, <1>4, Types
<1> QED BY <1>3, <1>4, <1>5, <1>6, Aside

\* A patch of the label, and the labeler's next place.
LEMMA LabelStep ==
    ASSUME IInv, NEW r \in Replicas,
           Clear(r) \/ ClearFails(r) \/ SetLabel(r) \/ SetFails(r) \/ Unlabel(r)
    PROVE  IInv'
<1>1. rep[r] \in Proc /\ TypeOK /\ Labelled /\ Led /\ label \in [Replicas -> BOOLEAN]
      /\ rep \in [Replicas -> Proc]
  BY Types DEF IInv
<1>2. PICK x \in Proc :
        /\ rep' = [rep EXCEPT ![r] = x]
        /\ x.up = rep[r].up /\ x.proc = rep[r].proc /\ x.lead = rep[r].lead
        /\ x.armed = rep[r].armed /\ x.age = rep[r].age /\ x.quiet = rep[r].quiet
        /\ x.admits = rep[r].admits /\ x.due = rep[r].due
  <2>1. CASE Clear(r)
    <3> DEFINE x == [rep[r] EXCEPT !.at = "waiting"]
    <3>1. x \in Proc /\ rep' = [rep EXCEPT ![r] = x]
      BY <1>1, <2>1 DEF Clear, Proc
    <3> QED BY <1>1, <3>1 DEF Proc
  <2>2. CASE SetLabel(r)
    <3> DEFINE x == [rep[r] EXCEPT !.at = "serving"]
    <3>1. x \in Proc /\ rep' = [rep EXCEPT ![r] = x]
      BY <1>1, <2>2 DEF SetLabel, Proc
    <3> QED BY <1>1, <3>1 DEF Proc
  <2>3. CASE rep' = rep
    <3>1. rep' = [rep EXCEPT ![r] = rep[r]]
      BY <1>1, <2>3
    <3> QED BY <1>1, <3>1
  <2> QED BY <2>1, <2>2, <2>3 DEF ClearFails, SetFails, Unlabel
<1>3. UNCHANGED <<lease, attempts, procs>> /\ label' \in [Replicas -> BOOLEAN]
  BY <1>1 DEF Clear, ClearFails, SetLabel, SetFails, Unlabel
<1>4. Labelled'
  <2>1. \A s \in Replicas : s # r => rep'[s] = rep[s] /\ label'[s] = label[s]
    BY <1>1, <1>2, Replaced DEF Clear, ClearFails, SetLabel, SetFails, Unlabel
  <2>2. rep'[r].lead = rep[r].lead
    BY <1>1, <1>2, Replaced
  <2>3. label'[r] => rep[r].lead
    BY <1>1 DEF Clear, ClearFails, SetLabel, SetFails, Unlabel, Leads
  <2> QED BY <1>1, <2>1, <2>2, <2>3 DEF Labelled, Ready
<1>5. x.admits \/ x.due > 0 => x.armed
  BY <1>1, <1>2 DEF Led
<1> QED BY <1>2, <1>3, <1>4, <1>5, Aside
-----------------------------------------------------------------------------
(* The lease, the hold-off and the attempts.                               *)

\* The lease is free only while nobody leads.
LEMMA AcquireStep ==
    ASSUME IInv, NEW r \in Replicas, Acquire(r)
    PROVE  IInv'
<1> USE DEF IInv
<1>1. rep[r] \in Proc /\ 0 \in 0..RenewTime /\ LeaseTime \in 0..LeaseTime
      /\ rep[r].proc \in 0..MaxProcs
  BY Types, Constants DEF Proc
<1> DEFINE x == [rep[r] EXCEPT !.lead = TRUE, !.quiet = 0]
<1>2. /\ x \in Proc /\ x.up = rep[r].up /\ x.proc = rep[r].proc /\ x.lead
      /\ x.armed = rep[r].armed /\ x.age = rep[r].age /\ x.quiet = 0
      /\ x.admits = rep[r].admits /\ x.due = rep[r].due /\ x.at = rep[r].at
  BY <1>1 DEF Proc
<1>3. /\ rep[r].up /\ ~rep[r].lead /\ lease.left = 0
      /\ lease' = [holder |-> rep[r].proc, left |-> LeaseTime]
      /\ rep' = [rep EXCEPT ![r] = x] /\ UNCHANGED <<label, attempts, procs>>
  BY <1>1 DEF Acquire, Proc
<1> HIDE DEF x
<1>4. /\ rep' \in [Replicas -> Proc] /\ rep'[r] = x
      /\ \A s \in Replicas : s # r => rep'[s] = rep[s]
  BY <1>2, <1>3, Replaced
<1>5. \A s \in Replicas : ~rep[s].lead /\ ~rep[s].armed /\ ~rep[s].admits
       /\ ~(rep[s].due > 0)
  <2> TAKE s \in Replicas
  <2>1. rep[s].lead => LeaseTime - rep[s].quiet = 0
    BY <1>3 DEF Led
  <2>2. LeaseTime - rep[s].quiet > 0
    BY Numbers, Constants
  <2> QED BY <2>1, <2>2 DEF Led
<1>6. TypeOK'
  BY <1>1, <1>3, <1>4 DEF TypeOK, Proc, Targets, Attempt
<1>7. Unique'
  BY <1>2, <1>3, <1>4 DEF Unique
<1>8. Led'
  <2>1. lease'.holder = x.proc /\ lease'.left = LeaseTime - x.quiet
    BY <1>2, <1>3, Constants
  <2> QED BY <2>1, <1>2, <1>3, <1>4, <1>5 DEF Led, Holds
<1>9. Late'
  BY <1>2, <1>3, <1>4, <1>5 DEF Late
<1>10. Labelled'
  BY <1>2, <1>3, <1>4 DEF Labelled, Ready
<1> QED BY <1>6, <1>7, <1>8, <1>9, <1>10

LEMMA RenewStep ==
    ASSUME IInv, NEW r \in Replicas, Renew(r)
    PROVE  IInv'
<1> USE DEF IInv
<1>1. rep[r] \in Proc /\ 0 \in 0..RenewTime /\ LeaseTime \in 0..LeaseTime
  BY Types, Constants DEF Proc
<1> DEFINE x == [rep[r] EXCEPT !.quiet = 0]
<1>2. /\ x \in Proc /\ x.up = rep[r].up /\ x.proc = rep[r].proc /\ x.lead = rep[r].lead
      /\ x.armed = rep[r].armed /\ x.age = rep[r].age /\ x.quiet = 0
      /\ x.admits = rep[r].admits /\ x.due = rep[r].due /\ x.at = rep[r].at
  BY <1>1 DEF Proc
<1>3. /\ rep[r].up /\ rep[r].lead /\ lease.holder = rep[r].proc
      /\ lease' = [lease EXCEPT !.left = LeaseTime]
      /\ rep' = [rep EXCEPT ![r] = x] /\ UNCHANGED <<label, attempts, procs>>
  BY <1>1 DEF Renew, Leads, Holds, Proc
<1> HIDE DEF x
<1>4. /\ rep' \in [Replicas -> Proc] /\ rep'[r] = x
      /\ \A s \in Replicas : s # r => rep'[s] = rep[s]
  BY <1>2, <1>3, Replaced
<1>5. lease' \in [holder : 0..MaxProcs, left : 0..LeaseTime]
      /\ lease'.holder = lease.holder /\ lease'.left = LeaseTime
  BY <1>1, <1>3, Types
<1>6. TypeOK'
  BY <1>3, <1>4, <1>5 DEF TypeOK, Proc, Targets, Attempt
<1>7. Unique'
  BY <1>2, <1>3, <1>4 DEF Unique
<1>8. Led'
  <2>1. \A s \in Replicas : s # r => ~rep[s].lead /\ ~rep[s].armed /\ ~rep[s].admits
         /\ ~(rep[s].due > 0)
    BY <1>3, OneLeader DEF Led
  <2>2. lease'.holder = x.proc /\ lease'.left = LeaseTime - x.quiet
    BY <1>2, <1>3, <1>5, Constants
  <2> QED BY <2>1, <2>2, <1>2, <1>3, <1>4 DEF Led, Holds
<1>9. Late'
  BY <1>2, <1>3, <1>4 DEF Late
<1>10. Labelled'
  BY <1>2, <1>3, <1>4 DEF Labelled, Ready
<1> QED BY <1>6, <1>7, <1>8, <1>9, <1>10

\* Nothing that is on its way has longer to live than the longest attempt.
LEMMA NotifyElectedStep ==
    ASSUME IInv, NEW r \in Replicas, NotifyElected(r)
    PROVE  IInv'
<1> USE DEF IInv
<1>1. rep[r] \in Proc /\ 0 \in 0..MaxHold
  BY Types, Constants DEF Proc
<1> DEFINE x == [rep[r] EXCEPT !.armed = TRUE, !.age = 0]
<1>2. /\ x \in Proc /\ x.up = rep[r].up /\ x.proc = rep[r].proc /\ x.lead = rep[r].lead
      /\ x.armed /\ x.age = 0 /\ x.quiet = rep[r].quiet
      /\ x.admits = rep[r].admits /\ x.due = rep[r].due /\ x.at = rep[r].at
  BY <1>1 DEF Proc
<1>3. /\ rep[r].up /\ rep[r].lead
      /\ rep' = [rep EXCEPT ![r] = x] /\ UNCHANGED <<lease, label, attempts, procs>>
  BY <1>1 DEF NotifyElected, Leads, Proc
<1> HIDE DEF x
<1>4. /\ rep' \in [Replicas -> Proc] /\ rep'[r] = x
      /\ \A s \in Replicas : s # r => rep'[s] = rep[s]
  BY <1>2, <1>3, Replaced
<1>6. TypeOK'
  BY <1>3, <1>4 DEF TypeOK, Proc, Targets, Attempt
<1>7. Unique'
  BY <1>2, <1>3, <1>4 DEF Unique
<1>8. Led'
  BY <1>2, <1>3, <1>4 DEF Led, Holds
<1>9. Late'
  <2>1. \A a \in attempts : a.left <= a.span + Grace - 0
    BY Types, Constants DEF Late, Attempt
  <2> QED BY <2>1, <1>2, <1>3, <1>4 DEF Late
<1>10. Labelled'
  BY <1>2, <1>3, <1>4 DEF Labelled, Ready
<1> QED BY <1>6, <1>7, <1>8, <1>9, <1>10
\* A process that ends leaves what it sent on its way.
LEMMA DiesStep ==
    ASSUME IInv, NEW r \in Replicas, Crash(r) \/ LoseLease(r) \/ Exit(r)
    PROVE  IInv'
<1> USE DEF IInv
<1>1. rep[r] \in Proc /\ rep[r].proc \in 0..MaxProcs
  BY Types DEF Proc
<1> DEFINE x == Down(rep[r].proc)
<1>2. /\ x \in Proc /\ ~x.up /\ x.proc = rep[r].proc /\ ~x.lead /\ ~x.armed
      /\ ~x.admits /\ ~(x.due > 0) /\ x.at = "clearing"
  BY <1>1, ProcessType DEF Process, Down
<1>3. /\ rep' = [rep EXCEPT ![r] = x] /\ UNCHANGED <<label, procs>>
      /\ attempts' = {[a EXCEPT !.open = @ /\ a.by # rep[r].proc] : a \in attempts}
  BY <1>1 DEF Crash, LoseLease, Exit, Dies
<1> HIDE DEF x
<1>4. /\ rep' \in [Replicas -> Proc] /\ rep'[r] = x
      /\ \A s \in Replicas : s # r => rep'[s] = rep[s]
  BY <1>2, <1>3, Replaced
<1>5. \/ lease' = lease
      \/ rep[r].lead /\ lease' = [holder |-> 0, left |-> 0]
  <2>1. CASE Crash(r) \/ LoseLease(r)
    BY <2>1 DEF Crash, LoseLease
  <2>2. CASE Exit(r)
    BY <2>2 DEF Exit, Leads
  <2> QED BY <2>1, <2>2
<1>6. \A b \in attempts' : \E a \in attempts :
        b.by = a.by /\ b.span = a.span /\ b.left = a.left /\ b.open \in BOOLEAN
        /\ b = [a EXCEPT !.open = b.open]
  <2>1. ASSUME NEW b \in attempts'
        PROVE  \E a \in attempts :
                  b.by = a.by /\ b.span = a.span /\ b.left = a.left /\ b.open \in BOOLEAN
                  /\ b = [a EXCEPT !.open = b.open]
    <3>1. PICK a \in attempts : b = [a EXCEPT !.open = @ /\ a.by # rep[r].proc]
      BY <1>3, <2>1
    <3>2. a \in Attempt
      BY Types
    <3> QED BY <3>1, <3>2 DEF Attempt
  <2> QED BY <2>1
<1>7. TypeOK'
  <2>1. attempts' \subseteq Attempt
    <3>1. ASSUME NEW b \in attempts' PROVE b \in Attempt
      <4>1. PICK a \in attempts : b.open \in BOOLEAN /\ b = [a EXCEPT !.open = b.open]
        BY <1>6, <3>1
      <4>2. a \in Attempt
        BY Types
      <4> QED BY <4>1, <4>2 DEF Attempt
    <3> QED BY <3>1
  <2>2. lease' \in [holder : 0..MaxProcs, left : 0..LeaseTime]
    BY <1>5, Types, Constants
  <2> QED BY <2>1, <2>2, <1>3, <1>4 DEF TypeOK, Proc, Targets, Attempt
<1>8. Unique'
  BY <1>2, <1>3, <1>4 DEF Unique
<1>9. Led'
  <2>1. rep[r].lead => \A s \in Replicas : s # r =>
          ~rep[s].lead /\ ~rep[s].armed /\ ~rep[s].admits
          /\ ~(rep[s].due > 0)
    BY OneLeader DEF Led
  <2> QED BY <2>1, <1>2, <1>4, <1>5 DEF Led, Holds
<1>10. Late'
  BY <1>2, <1>4, <1>6 DEF Late
<1>11. Labelled'
  BY <1>2, <1>3, <1>4 DEF Labelled, Ready
<1> QED BY <1>7, <1>8, <1>9, <1>10, <1>11

\* Only the leader claims, so what others have on its way does not grow.
LEMMA ClaimStep ==
    ASSUME IInv, NEW r \in Replicas, NEW p \in Providers, Claim(r, p)
    PROVE  IInv'
<1> USE DEF IInv
<1> DEFINE d == attemptDuration(r, p)
           n == [by |-> rep[r].proc, span |-> d, left |-> d + Grace, open |-> TRUE]
<1>1. /\ rep[r].due > 0 /\ rep[r].flight[p] > 0 /\ attempts' = attempts \cup {n}
      /\ UNCHANGED <<lease, rep, label, procs>>
  BY DEF Claim
<1>2. rep[r].lead /\ rep[r].armed /\ rep[r].proc >= 1
  BY <1>1, OneLeader DEF Led
<1>3. d \in 1..ClaimTimeout
  BY <1>1, DurationRange
<1>4. /\ n.by = rep[r].proc /\ n.span = d /\ n.left = d + Grace
      /\ n.left \in 1..MaxHold /\ n.left <= n.span + Grace
  BY <1>3, Constants
<1>5. n \in Attempt
  <2>1. rep[r].proc \in 1..MaxProcs
    BY <1>2, Numbers, Constants
  <2> QED BY <2>1, <1>3, <1>4 DEF Attempt
<1> HIDE DEF n
<1>6. TypeOK'
  BY <1>1, <1>5 DEF TypeOK, Attempt
<1>7. Unique' /\ Led' /\ Labelled'
  BY <1>1 DEF Unique, Led, Labelled, Holds, Ready
<1>8. Late'
  <2>1. \A s \in Replicas : rep[s].armed => n.by = rep[s].proc
    BY <1>2, <1>4, OneLeader DEF Led
  <2> QED BY <2>1, <1>1, <1>4 DEF Late
<1> QED BY <1>6, <1>7, <1>8

LEMMA AttemptStep ==
    ASSUME IInv, NEW a \in attempts, Answered(a) \/ TimesOut(a)
    PROVE  IInv'
<1> USE DEF IInv
<1>1. a \in Attempt
  BY Types
<1> DEFINE n == [a EXCEPT !.open = FALSE]
<1>2. /\ n \in Attempt
      /\ n.by = a.by /\ n.span = a.span /\ n.left = a.left
  BY <1>1 DEF Attempt
<1>3. attempts' \subseteq attempts \cup {n} /\ UNCHANGED <<lease, rep, label, procs>>
  BY DEF Answered, TimesOut, Replaces
<1> HIDE DEF n
<1>4. TypeOK'
  BY <1>2, <1>3 DEF TypeOK, Attempt
<1>5. Unique' /\ Led' /\ Labelled'
  BY <1>3 DEF Unique, Led, Labelled, Holds, Ready
<1>6. Late'
  BY <1>2, <1>3 DEF Late
<1> QED BY <1>4, <1>5, <1>6

\* Ages grow as what is on its way runs out; a leader's lease runs down as its
\* quiet grows, and time waits for what is overdue.
LEMMA TickStep ==
    ASSUME IInv, Tick
    PROVE  IInv'
<1> USE DEF IInv
<1>1. /\ ~Overdue /\ lease' = [lease EXCEPT !.left = Max({0, @ - 1})]
      /\ UNCHANGED <<label, procs>>
  BY DEF Tick
<1>2. \A r \in Replicas :
        rep'[r] = [rep[r] EXCEPT
                     !.age = IF rep[r].armed THEN Min({MaxHold, @ + 1}) ELSE 0,
                     !.quiet = IF Leads(r) THEN @ + 1 ELSE 0,
                     !.due = Max({0, @ - 1}),
                     !.flight = IF rep[r].due > 1 THEN @ ELSE NoTargets]
  BY DEF Tick
<1>3. \A r \in Replicas :
        /\ rep'[r] \in Proc
        /\ rep'[r].up = rep[r].up /\ rep'[r].proc = rep[r].proc
        /\ rep'[r].lead = rep[r].lead /\ rep'[r].armed = rep[r].armed
        /\ rep'[r].admits = rep[r].admits /\ rep'[r].at = rep[r].at
        /\ rep'[r].due > 0 => rep[r].due > 0
        /\ Leads(r) => rep'[r].quiet = rep[r].quiet + 1 /\ rep[r].quiet < RenewTime
        /\ rep[r].armed => \/ rep'[r].age = rep[r].age + 1
                           \/ rep'[r].age = MaxHold /\ rep[r].age = MaxHold
  <2> TAKE r \in Replicas
  <2>1. rep[r] \in Proc /\ rep[r].age \in 0..MaxHold /\ rep[r].quiet \in 0..RenewTime
        /\ rep[r].due \in 0..ClaimTimeout /\ rep[r].flight \in Targets
    BY Types DEF Proc
  <2> DEFINE ag == IF rep[r].armed THEN Min({MaxHold, rep[r].age + 1}) ELSE 0
             qu == IF Leads(r) THEN rep[r].quiet + 1 ELSE 0
             du == Max({0, rep[r].due - 1})
             fl == IF rep[r].due > 1 THEN rep[r].flight ELSE NoTargets
  <2>2. MaxHold \in Nat /\ RenewTime \in Nat /\ ClaimTimeout \in Nat
    BY Constants
  <2>3. Min({MaxHold, rep[r].age + 1})
          = IF MaxHold <= rep[r].age + 1 THEN MaxHold ELSE rep[r].age + 1
    BY <2>1, <2>2, MinOfTwo
  <2>4. /\ ag \in 0..MaxHold
        /\ rep[r].armed => ag = rep[r].age + 1 \/ (ag = MaxHold /\ rep[r].age = MaxHold)
    BY <2>1, <2>2, <2>3
  <2>5. Leads(r) => rep[r].quiet < RenewTime
    BY <2>1, <2>2, <1>1 DEF Overdue
  <2>6. Leads(r) => qu = rep[r].quiet + 1
    BY <2>1, <2>2, <2>5
  <2>7. du = IF 0 <= rep[r].due - 1 THEN rep[r].due - 1 ELSE 0
    BY <2>1, <2>2, MaxOfTwo
  <2>8. du \in 0..ClaimTimeout /\ (du > 0 => rep[r].due > 0)
    BY <2>1, <2>2, <2>7
  <2>9. fl \in Targets
    BY <2>1 DEF Targets, NoTargets
  <2>10. rep'[r] = [rep[r] EXCEPT !.age = ag, !.quiet = qu, !.due = du, !.flight = fl]
    BY <1>2
  <2>11. qu \in 0..RenewTime
    BY <2>1, <2>2, <2>5
  <2> HIDE DEF ag, qu, du, fl
  <2>12. /\ rep'[r] \in Proc /\ rep'[r].age = ag /\ rep'[r].quiet = qu /\ rep'[r].due = du
         /\ rep'[r].up = rep[r].up /\ rep'[r].proc = rep[r].proc
         /\ rep'[r].lead = rep[r].lead /\ rep'[r].armed = rep[r].armed
         /\ rep'[r].admits = rep[r].admits /\ rep'[r].at = rep[r].at
    BY <2>1, <2>4, <2>8, <2>9, <2>10, <2>11 DEF Proc
  <2> QED BY <2>12, <2>4, <2>5, <2>6, <2>8, <2>11
<1>4. /\ lease'.holder = lease.holder
      /\ lease' \in [holder : 0..MaxProcs, left : 0..LeaseTime]
      /\ lease.left >= 1 => lease'.left = lease.left - 1
  <2>1. /\ lease \in [holder : 0..MaxProcs, left : 0..LeaseTime]
        /\ lease.left \in 0..LeaseTime
    BY Types
  <2>2. Max({0, lease.left - 1}) = IF 0 <= lease.left - 1 THEN lease.left - 1 ELSE 0
    BY <2>1, MaxOfTwo, Constants
  <2>3. Max({0, lease.left - 1}) \in 0..LeaseTime
    BY <2>1, <2>2, Constants
  <2>4. lease' \in [holder : 0..MaxProcs, left : 0..LeaseTime]
        /\ lease'.holder = lease.holder /\ lease'.left = Max({0, lease.left - 1})
    BY <1>1, <2>1, <2>3
  <2> QED BY <2>1, <2>2, <2>4, Constants
<1>5. \A b \in attempts' : \E a \in attempts :
        /\ b.by = a.by /\ b.span = a.span /\ b.left = a.left - 1 /\ a.left > 1
        /\ b \in Attempt
  <2>1. \A a \in attempts : a \in Attempt
    BY Types
  <2>2. attempts' = {[a EXCEPT !.left = @ - 1] : a \in {b \in attempts : b.left > 1}}
    BY DEF Tick
  <2>3. ASSUME NEW b \in attempts'
        PROVE  \E a \in attempts :
                 /\ b.by = a.by /\ b.span = a.span /\ b.left = a.left - 1 /\ a.left > 1
                 /\ b \in Attempt
    <3>1. PICK a \in attempts : a.left > 1 /\ b = [a EXCEPT !.left = a.left - 1]
      BY <2>2
    <3>2. a.left \in 1..MaxHold /\ a.left - 1 \in 1..MaxHold
      BY <2>1, <3>1, Constants DEF Attempt
    <3> QED BY <2>1, <3>1, <3>2 DEF Attempt
  <2> QED BY <2>3
<1>6. TypeOK'
  <2>1. rep' = [r \in Replicas |-> rep'[r]]
    BY DEF Tick
  <2>2. rep' \in [Replicas -> Proc]
    BY <2>1, <1>3
  <2>3. procs \in 0..MaxProcs /\ label \in [Replicas -> BOOLEAN]
    BY Types
  <2>4. attempts' \subseteq Attempt
    BY <1>5
  <2> QED BY <2>2, <2>3, <2>4, <1>1, <1>4 DEF TypeOK, Proc, Targets, Attempt
<1>7. Unique'
  BY <1>1, <1>3 DEF Unique
<1>8. Led'
  <2> SUFFICES ASSUME NEW r \in Replicas
               PROVE  /\ rep'[r].lead => /\ rep'[r].up /\ lease'.holder = rep'[r].proc
                                         /\ lease'.left = LeaseTime - rep'[r].quiet
                      /\ rep'[r].armed => rep'[r].lead
                      /\ rep'[r].admits \/ rep'[r].due > 0 => rep'[r].armed
    BY DEF Led, Holds
  <2>1. CASE rep[r].lead
    <3>1. Leads(r) /\ lease.holder = rep[r].proc /\ lease.left = LeaseTime - rep[r].quiet
      BY <2>1 DEF Led, Leads, Holds
    <3>2. rep[r].quiet \in Nat /\ rep[r].quiet < RenewTime
          /\ rep'[r].quiet = rep[r].quiet + 1
      BY <3>1, <1>3, Numbers
    <3>3. lease'.left = LeaseTime - rep'[r].quiet
      BY <3>1, <3>2, <1>4, Constants
    <3> QED BY <2>1, <3>1, <3>3, <1>3, <1>4 DEF Led
  <2>2. CASE ~rep[r].lead
    BY <2>2, <1>3 DEF Led
  <2> QED BY <2>1, <2>2
<1>9. Late'
  <2>1. \A b \in attempts' : b.left <= b.span + Grace
    <3> TAKE b \in attempts'
    <3>1. PICK a \in attempts : b.span = a.span /\ b.left = a.left - 1 /\ a.left > 1
      BY <1>5
    <3>2. a.left \in Int /\ a.span \in Int /\ a.left <= a.span + Grace
      BY Types, Constants DEF Late, Attempt
    <3> QED BY <3>1, <3>2, Constants
  <2>2. ASSUME NEW r \in Replicas, rep'[r].armed, NEW b \in attempts'
        PROVE  b.by = rep'[r].proc \/ b.left <= b.span + Grace - rep'[r].age
    <3>1. PICK a \in attempts :
            b.by = a.by /\ b.span = a.span /\ b.left = a.left - 1 /\ a.left > 1
      BY <1>5
    <3>2. a.left \in Int /\ a.span \in 1..ClaimTimeout /\ rep[r].age \in Nat
          /\ rep[r].armed
      BY <1>3, <2>2, Types, Constants, Numbers DEF Attempt
    <3>3. a.by = rep[r].proc \/ a.left <= a.span + Grace - rep[r].age
      BY <3>2 DEF Late
    <3>4. a.span + Grace \in Nat /\ a.span + Grace <= MaxHold /\ MaxHold \in Nat
      BY <3>2, Constants
    <3>5. \/ rep'[r].age = rep[r].age + 1
          \/ rep'[r].age = MaxHold /\ rep[r].age = MaxHold
      BY <1>3, <3>2
    <3>6. rep'[r].proc = rep[r].proc
      BY <1>3
    <3> QED BY <3>1, <3>2, <3>3, <3>4, <3>5, <3>6, Constants
  <2> QED BY <2>1, <2>2 DEF Late
<1>10. Labelled'
  BY <1>1, <1>3 DEF Labelled, Ready
<1> QED BY <1>6, <1>7, <1>8, <1>9, <1>10

-----------------------------------------------------------------------------
(* The invariant and what follows from it.                                 *)

LEMMA InitIInv == Init => IInv
<1> SUFFICES ASSUME Init PROVE IInv
  OBVIOUS
<1> DEFINE x == Down(0)
<1>1. /\ x \in Proc /\ ~x.up /\ ~x.lead /\ ~x.armed /\ ~x.admits
      /\ ~(x.due > 0) /\ x.proc = 0
      /\ x.at = "clearing"
  BY ProcessType, Constants DEF Process, Down
<1>2. rep = [r \in Replicas |-> x]
  BY DEF Init
<1> HIDE DEF x
<1>3. rep \in [Replicas -> Proc] /\ \A r \in Replicas : rep[r] = x
  BY <1>1, <1>2
<1>4. TypeOK
  BY <1>3, Types, Constants DEF Init
<1>5. Unique /\ Led /\ Late /\ Labelled
  BY <1>1, <1>3 DEF Init, Unique, Led, Late, Labelled, Ready
<1> QED BY <1>4, <1>5 DEF IInv

LEMMA NextIInv == IInv /\ [Next]_vars => IInv'
<1> SUFFICES ASSUME IInv, [Next]_vars PROVE IInv'
  OBVIOUS
<1>1. CASE Tick
  BY <1>1, TickStep
<1>2. CASE \E r \in Replicas : Lives(r) \/ Renew(r) \/ Fails(r) \/ Terminate(r)
                               \/ Unlabel(r) \/ Admit(r)
                               \/ executeFlight(r) \/ FlightEnds(r)
  <2>1. PICK r \in Replicas : Lives(r) \/ Renew(r) \/ Fails(r) \/ Terminate(r)
                              \/ Unlabel(r) \/ Admit(r)
                              \/ executeFlight(r) \/ FlightEnds(r)
    BY <1>2
  <2>2. CASE Lives(r)
    BY <2>2, StartStep, AcquireStep, NotifyElectedStep, LabelStep, StageStep, DiesStep
       DEF Lives
  <2>3. CASE Fails(r)
    BY <2>3, DiesStep, LabelStep DEF Fails
  <2> QED BY <2>1, <2>2, <2>3, RenewStep, StageStep, LabelStep
<1>3. CASE \E r \in Replicas, p \in Providers :
             \/ \E t \in Timeouts : SetTarget(r, p, t)
             \/ RemoveTarget(r, p) \/ Claim(r, p)
  BY <1>3, TargetStep, ClaimStep
<1>4. CASE \E a \in attempts : Answered(a) \/ TimesOut(a)
  BY <1>4, AttemptStep
<1>5. CASE UNCHANGED vars
  BY <1>5 DEF vars, IInv, TypeOK, Unique, Led, Late, Labelled, Holds, Ready
<1> QED BY <1>1, <1>2, <1>3, <1>4, <1>5 DEF Next

\* Every reachable state has the invariant the theorems below are read from.
THEOREM Invariance == Spec => []IInv
  BY InitIInv, NextIInv, PTL DEF Spec

\* Bind, holdOffRemaining: past the hold-off, what others have on its way was given more
\* time than any target that is known.
LEMMA Outlasted ==
    ASSUME IInv, NEW r \in Replicas, Serves(r), NEW a \in attempts, a.by # rep[r].proc
    PROVE  /\ a.span > LongestKnown(r)
           /\ \A p \in Providers : a.span > rep[r].known[p]
<1>1. rep[r].armed /\ rep[r].age >= LongestKnown(r) + Grace
  BY DEF Serves, HoldOff
<1>2. a.left <= a.span + Grace - rep[r].age
  BY <1>1 DEF IInv, Late
<1>3. a.left \in Int /\ a.left >= 1 /\ a.span \in Int /\ a.span <= ClaimTimeout
  BY Types, Constants DEF IInv, Attempt
<1>4. rep[r].age \in Nat
  BY Numbers DEF IInv
<1>5. /\ LongestKnown(r) \in Nat
      /\ \A p \in Providers :
            rep[r].known[p] <= LongestKnown(r) \/ ClaimTimeout <= LongestKnown(r)
  BY LongestKnownIs DEF IInv
<1>6. a.span > LongestKnown(r)
  BY <1>1, <1>2, <1>3, <1>4, <1>5, Constants
<1>7. \A p \in Providers : rep[r].known[p] \in Int
  <2>1. {0} \cup Timeouts \subseteq Int
    BY Constants
  <2> QED BY <2>1 DEF IInv, TypeOK
<1> QED BY <1>3, <1>5, <1>6, <1>7, Constants

\* While a leader accepts placement requests (Active, holdOffRemaining) no creation of
\* another process can still take effect, but one that was given more time than the
\* longest attempt the leader knows of.
THEOREM NoOverlapAlways == Spec => []NoOverlap
<1>1. IInv => NoOverlap
  BY Outlasted DEF NoOverlap
<1> QED BY <1>1, Invariance, PTL

\* SetTarget, holdOffRemaining: what NoOverlap excepts was given more time than any
\* target the leader knows has now, so it went to a provider the leader does not know
\* of, or one whose timeout the leader knows as a shorter one.
THEOREM NoOverlapAtKnownAlways ==
    Spec => [](\A r \in Replicas : Serves(r) =>
                 \A a \in attempts, p \in Providers :
                    a.by = rep[r].proc \/ a.span > rep[r].known[p])
<1>1. IInv => \A r \in Replicas : Serves(r) =>
                 \A a \in attempts, p \in Providers :
                    a.by = rep[r].proc \/ a.span > rep[r].known[p]
  BY Outlasted
<1> QED BY <1>1, Invariance, PTL

\* The lease: no two processes that run lead at once.
THEOREM OneLeaderAlways ==
    Spec => [](\A r, s \in Replicas : Leads(r) /\ Leads(s) => r = s)
<1>1. IInv => \A r, s \in Replicas : Leads(r) /\ Leads(s) => r = s
  BY OneLeader DEF IInv, Leads
<1> QED BY <1>1, Invariance, PTL

\* PodLabeler: the Service selects no replica that does not lead.
THEOREM OnlyLeaderSelectedAlways == Spec => []OnlyLeaderSelected
<1>1. IInv => OnlyLeaderSelected
  BY DEF IInv, Labelled, OnlyLeaderSelected
<1> QED BY <1>1, Invariance, PTL

=============================================================================
