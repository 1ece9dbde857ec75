--------------------------- MODULE ControllerProofs ---------------------------
(***************************************************************************)
(* Proofs about Controller for every set of specs and credentials and any  *)
(* number of edits, failures and reports: between reconciles a provider    *)
(* has one registration, the binder is left no target where the spec or    *)
(* missing credentials forbid claims, and a reconcile of what the last one *)
(* worked from disturbs nothing.                                           *)
(*                                                                         *)
(* Place says what the worker has done to the registration by each stage   *)
(* of its reconcile, Left what a whole reconcile leaves.                   *)
(***************************************************************************)
EXTENDS Controller, TLAPS

Parts == {"source", "target", "reaper", "built"}

Stages == {"idle", "sync", "drop", "resolve", "build", "config", "target",
           "reaper", "write"}

Worker == [at : Stages, spec : Specs, creds : Creds \cup {None}, todo : Seq(Parts),
           then : {"idle", "resolve", "write"}, observed : Statuses, new : Statuses]

Resolved(s, creds) == Refers(s) => creds # None

\* The reconcile gets as far as a provider that is built.
Comes(s, creds) ==
    /\ s.live /\ s.conf \in KnownAdapter /\ Resolved(s, creds)
    /\ <<s.conf, creds>> \in Builds

\* It ends in a deregistration.
Ends(s, creds) ==
    \/ ~s.live \/ s.conf \notin KnownAdapter
    \/ Resolved(s, creds) /\ <<s.conf, creds>> \notin Builds

\* What a reconcile of spec s with these credentials leaves.
Left(s, creds) ==
    /\ Ends(s, creds) => built = None /\ polled.source = None /\ ~target.on /\ reap = None
    /\ s.disabled => polled.source = None
    /\ s.disabled \/ ~s.claims => ~target.on
    /\ ~Resolved(s, creds) => ~target.on /\ reap = None
    /\ Comes(s, creds) =>
          /\ built = <<s.conf, creds>>
          /\ ~s.disabled => polled.source = built
          /\ target.on <=> ~s.disabled /\ s.claims /\ s.conf \in Capable
          /\ reap = IF s.conf \in Lists THEN built ELSE None

\* One registration.
Agree ==
    /\ target.of # None => target.of = built /\ polled.source = built
    /\ reap # None => reap = built

\* What the spec forbids is gone.
Cut(s) ==
    /\ s.disabled => polled.source = None
    /\ s.disabled \/ ~s.claims => target = NoTarget

\* The removals still to be done, and what those before them removed.
Deregistering(todo) ==
    \/ todo = <<"source", "target", "reaper", "built">>
    \/ todo = <<"target", "reaper", "built">> /\ polled.source = None
    \/ todo = <<"reaper", "built">> /\ polled.source = None /\ target = NoTarget
    \/ todo = <<"built">> /\ polled.source = None /\ target = NoTarget /\ reap = None
    \/ /\ todo = <<>> /\ polled.source = None /\ target = NoTarget /\ reap = None
       /\ built = None

Losing(todo) ==
    \/ todo = <<"target", "reaper">> /\ ~rec.spec.disabled
    \/ todo = <<"reaper">> /\ target = NoTarget
    \/ todo = <<>> /\ target = NoTarget /\ reap = None

Cutting(todo) ==
    \/ todo = <<"source", "target">> /\ rec.spec.disabled
    \/ todo = <<"target">> /\ (rec.spec.disabled => polled.source = None)
    \/ /\ todo = <<>> /\ target = NoTarget
       /\ rec.spec.disabled => polled.source = None

DropOK ==
    /\ reap # None => reap = built
    /\ rec.then = "idle" => ~rec.spec.live /\ Deregistering(rec.todo)
    /\ rec.then = "resolve" =>
          /\ rec.spec.live /\ rec.spec.conf \in KnownAdapter /\ rec.creds = None
          /\ rec.spec.disabled \/ ~rec.spec.claims
          /\ Cutting(rec.todo)
    /\ rec.then = "write" =>
          \/ Ends(rec.spec, rec.creds) /\ Deregistering(rec.todo)
          \/ /\ ~Resolved(rec.spec, rec.creds) /\ Losing(rec.todo)
             /\ rec.spec.live /\ rec.spec.conf \in KnownAdapter
             /\ rec.spec.disabled => polled.source = None

Reports == {"NoReport", "Reporting"}

Place ==
    /\ rec.at \in {"idle", "sync", "resolve", "build", "write"} => Agree
    /\ rec.at = "sync" => rec.creds = None
    /\ rec.at = "drop" => DropOK
    /\ rec.at \in {"resolve", "build", "config", "target", "reaper"} =>
          rec.spec.live /\ rec.spec.conf \in KnownAdapter
    /\ rec.at \in {"resolve", "build", "config", "target"} => Cut(rec.spec)
    /\ rec.at = "reaper" /\ rec.spec.disabled => polled.source = None /\ target = NoTarget
    /\ rec.at = "resolve" => rec.creds = None
    /\ rec.at = "build" => Resolved(rec.spec, rec.creds)
    /\ rec.at \in {"config", "target", "reaper"} =>
          /\ Comes(rec.spec, rec.creds) /\ built = Digest(rec)
          /\ ~rec.spec.disabled => polled.source = built
    /\ rec.at \in {"config", "target"} => ~rec.spec.disabled
    /\ rec.at \in {"target", "reaper"} /\ ~rec.spec.disabled => rec.new.ready \in Reports
    /\ rec.at = "reaper" /\ ~rec.spec.disabled =>
          target = [of |-> built, on |-> rec.spec.claims /\ rec.spec.conf \in Capable]
    /\ rec.at = "write" => /\ Left(rec.spec, rec.creds)
                           /\ last.spec = rec.spec /\ last.creds = rec.creds
                           /\ rec.new.ready \notin Reports => ~target.on

Whole ==
    /\ polled.source # None => polled.source = built
    /\ built # None => built \in Builds
    /\ target.of = None => ~target.on

LastOK == rec.at = "idle" \/ SameSoFar => Left(last.spec, last.creds)

IInv == TypeOK /\ Place /\ Whole /\ LastOK

-----------------------------------------------------------------------------
(* Types.                                                                  *)

LEMMA Typed ==
    ASSUME TypeOK
    PROVE  rec \in Worker /\ rec.spec \in Specs /\ rec.new \in Statuses
           /\ Digest(rec) \in Digests
  BY DEF TypeOK, Worker, Stages, Parts, Digest, Digests, Specs

LEMMA GoneTyped == Gone \in Specs /\ ~Gone.live /\ Offered \subseteq Specs
<1>1. Gone \in Specs
  BY ControllerAssumption DEF Gone, Specs
<1>2. \A w \in Written : w[1] \in BOOLEAN /\ w[2] \in BOOLEAN /\ w[3] \in Configs
  BY ControllerAssumption
<1>3. ASSUME NEW w \in Written
      PROVE  [live |-> TRUE, disabled |-> w[1], claims |-> w[2], conf |-> w[3]] \in Specs
  BY <1>2 DEF Specs
<1>4. Offered \subseteq Specs
  BY <1>1, <1>3 DEF Offered
<1> QED BY <1>1, <1>4 DEF Gone

LEMMA BlankTyped == Blank \in Statuses /\ Idle \in Worker
<1>1. Blank \in Statuses
  BY ControllerAssumption DEF Blank, Statuses, Reasons
<1> QED BY <1>1, GoneTyped DEF Idle, Worker, Stages

\* The variables the worker and its calls do not touch.
AsideOK ==
    /\ spec \in Specs /\ status \in Statuses /\ secret \in Creds \cup {None}
    /\ seen \in [spec : Specs, status : Statuses, secret : Creds \cup {None}]
    /\ queued \in BOOLEAN /\ timer \in BOOLEAN /\ leader \in BOOLEAN
    /\ upsets \in 0..MaxUpsets /\ reports \in 0..MaxReports

\* The worker and the parts of the registration.
PartsOK ==
    /\ rec \in Worker
    /\ built \in Digests \cup {None}
    /\ polled \in [source : Digests \cup {None}, heard : 0..MaxReports]
    /\ declared \in Configs \cup {None}
    /\ target \in [of : Digests \cup {None}, on : BOOLEAN]
    /\ reap \in Digests \cup {None}
    /\ last \in [spec : Specs, creds : Creds \cup {None}]

LEMMA TypeSplit == TypeOK <=> AsideOK /\ PartsOK
  BY DEF TypeOK, AsideOK, PartsOK, Worker, Stages, Parts

LEMMA PartsInit == Init => PartsOK
<1> SUFFICES ASSUME Init PROVE PartsOK
  OBVIOUS
<1>1. MaxReports \in Nat
  BY ControllerAssumption
<1>2. /\ rec = Idle /\ built = None /\ polled = NoSource /\ declared = None
      /\ target = NoTarget /\ reap = None /\ last = [spec |-> Gone, creds |-> None]
  BY DEF Init
<1> QED BY <1>1, <1>2, GoneTyped, BlankTyped DEF PartsOK, NoSource, NoTarget

LEMMA AsideInit == Init => AsideOK
<1> SUFFICES ASSUME Init PROVE AsideOK
  OBVIOUS
<1>1. MaxReports \in Nat /\ MaxUpsets \in Nat
  BY ControllerAssumption
<1>2. /\ spec \in Specs /\ status \in Statuses /\ secret \in Creds \cup {None}
      /\ upsets = 0 /\ reports = 0
      /\ queued \in BOOLEAN /\ timer \in BOOLEAN /\ leader \in BOOLEAN
  BY GoneTyped, BlankTyped DEF Init
<1>3. seen \in [spec : Specs, status : Statuses, secret : Creds \cup {None}]
  BY GoneTyped, BlankTyped DEF Init
<1> QED BY <1>1, <1>2, <1>3 DEF AsideOK

\* Users, informers and other replicas, and the queue.
LEMMA AsideNext ==
    ASSUME TypeOK, [Next]_vars
    PROVE  AsideOK'
<1>1. AsideOK /\ rec \in Worker
  BY TypeSplit DEF PartsOK
<1>2. MaxReports \in Nat /\ MaxUpsets \in Nat
  BY ControllerAssumption
<1>3. ASSUME Upset PROVE upsets' \in 0..MaxUpsets
  BY <1>1, <1>2, <1>3 DEF Upset, AsideOK
<1>4. CASE Edit
  BY <1>1, <1>3, <1>4, GoneTyped, BlankTyped DEF Edit, AsideOK, queue, bounds
<1>5. CASE SeesObject
  BY <1>1, <1>5 DEF SeesObject, AsideOK, server, bounds
<1>6. CASE SeesSecret
  BY <1>1, <1>6 DEF SeesSecret, AsideOK, server, bounds, Asks
<1>7. CASE TimerFires
  BY <1>1, <1>7 DEF TimerFires, AsideOK, server, bounds
<1>8. CASE OtherReplicaWrites
  <2>1. [ready |-> "Credentials", claiming |-> "Credentials", report |-> 0] \in Statuses
    BY <1>2 DEF Statuses, Reasons
  <2> QED BY <1>1, <1>3, <1>8, <2>1 DEF OtherReplicaWrites, AsideOK, queue
<1>9. CASE Elected
  BY <1>1, <1>9 DEF Elected, AsideOK, server, queue, bounds
<1>10. CASE Polls
  BY <1>1, <1>2, <1>10 DEF Polls, AsideOK, server, queue
<1>11. CASE GetFails
  BY <1>1, <1>3, <1>11 DEF GetFails, AsideOK, server, queue
<1>12. CASE Get
  BY <1>1, <1>12 DEF Get, AsideOK, server, bounds
<1>13. CASE sync \/ Remove \/ Removed \/ Resolve \/ AdapterFails \/ New
            \/ Configure \/ syncClaims \/ syncReaper
  BY <1>1, <1>13 DEF sync, Remove, Removed, Resolve, AdapterFails, New, Configure,
       syncClaims, syncReaper, AsideOK, server, queue, bounds
<1>14. CASE ResolveFails
  BY <1>1, <1>3, <1>14 DEF ResolveFails, AsideOK, server, queue
<1>15. CASE writeStatus
  <2>1. Patched(status, rec.observed, rec.new) \in Statuses
    BY <1>1 DEF AsideOK, Worker, Patched, Statuses
  <2> QED BY <1>1, <1>15, <2>1 DEF writeStatus, AsideOK, bounds, Arms
<1>16. CASE WriteFails
  BY <1>1, <1>3, <1>16 DEF WriteFails, AsideOK, server
<1>17. CASE UNCHANGED vars
  BY <1>1, <1>17 DEF vars, AsideOK, server, queue, bounds
<1> QED BY <1>4, <1>5, <1>6, <1>7, <1>8, <1>9, <1>10, <1>11, <1>12, <1>13, <1>14,
           <1>15, <1>16, <1>17 DEF Next, Informers, Reconcile

-----------------------------------------------------------------------------
(* Steps that leave the worker alone.                                      *)

Inv == PartsOK /\ Place /\ Whole /\ LastOK

LEMMA InvInit == Init => Inv
<1> SUFFICES ASSUME Init PROVE Inv
  OBVIOUS
<1>1. /\ rec = Idle /\ built = None /\ polled = NoSource /\ declared = None
      /\ target = NoTarget /\ reap = None /\ last = [spec |-> Gone, creds |-> None]
  BY DEF Init
<1>2. /\ rec.at = "idle" /\ polled.source = None /\ target.of = None /\ target.on = FALSE
      /\ last.spec = Gone
  BY <1>1 DEF Idle, NoSource, NoTarget
<1>3. Place /\ Whole
  BY <1>1, <1>2 DEF Place, Agree, Whole
<1>4. LastOK
  BY <1>1, <1>2, GoneTyped DEF LastOK, Left, Comes
<1> QED BY <1>3, <1>4, PartsInit DEF Inv

\* The registration as far as Place, Whole and LastOK speak of it.
LEMMA SameInv ==
    ASSUME Inv, PartsOK', UNCHANGED <<rec, built, target, reap, last>>,
           polled'.source = polled.source
    PROVE  Inv'
<1>1. Place'
  BY DEF Inv, Place, Agree, DropOK, Deregistering, Losing, Cutting, Cut, Comes, Ends,
         Resolved, Refers, Digest, Left, NoTarget, Reports
<1>2. Whole' /\ LastOK'
  BY DEF Inv, Whole, LastOK, SameSoFar, Left, Comes, Ends, Resolved, Refers
<1> QED BY <1>1, <1>2 DEF Inv

LEMMA AsideInv ==
    ASSUME Inv,
           \/ Edit \/ Informers \/ TimerFires \/ OtherReplicaWrites \/ Elected
           \/ Polls \/ GetFails \/ UNCHANGED vars,
           AsideOK, AsideOK'
    PROVE  Inv'
<1>1. /\ UNCHANGED <<rec, built, declared, target, reap, last>>
      /\ polled' = polled \/ polled' = [polled EXCEPT !.heard = reports']
  BY DEF Edit, Informers, SeesObject, SeesSecret, TimerFires, OtherReplicaWrites,
         Elected, Polls, GetFails, vars, parts
<1>2. polled'.source = polled.source /\ PartsOK'
  BY <1>1 DEF Inv, PartsOK, AsideOK
<1> QED BY <1>1, <1>2, SameInv

-----------------------------------------------------------------------------
(* The steps of a reconcile.                                               *)

LEMMA Todos ==
    {deregister, <<"source", "target">>, <<"target">>, <<"target", "reaper">>,
     <<"reaper">>} \subseteq Seq(Parts)
<1>1. deregister \in Seq(Parts)
  BY DEF deregister, Parts
<1>2. <<"source", "target">> \in Seq(Parts) /\ <<"target", "reaper">> \in Seq(Parts)
  BY DEF Parts
<1>3. <<"target">> \in Seq(Parts) /\ <<"reaper">> \in Seq(Parts)
  BY DEF Parts
<1> QED BY <1>1, <1>2, <1>3

LEMMA DropFields ==
    ASSUME rec \in Worker, NEW todo \in Seq(Parts),
           NEW then \in {"idle", "resolve", "write"}
    PROVE  LET r == Drop(todo, then)
           IN  /\ r \in Worker /\ r.at = "drop" /\ r.todo = todo /\ r.then = then
               /\ r.spec = rec.spec /\ r.creds = rec.creds
  BY DEF Drop, Worker, Stages

LEMMA DropSayingFields ==
    ASSUME rec \in Worker, NEW todo \in Seq(Parts), NEW ready \in Reasons,
           NEW claiming \in Reasons
    PROVE  LET r == DropSaying(todo, ready, claiming)
           IN  /\ r \in Worker /\ r.at = "drop" /\ r.todo = todo /\ r.then = "write"
               /\ r.spec = rec.spec /\ r.creds = rec.creds
<1> DEFINE d == Drop(todo, "write")
<1>1. /\ d \in Worker /\ d.at = "drop" /\ d.todo = todo /\ d.then = "write"
      /\ d.spec = rec.spec /\ d.creds = rec.creds
  BY DropFields
<1> DEFINE r == [d EXCEPT !.new.ready = ready, !.new.claiming = claiming]
<1>2. DropSaying(todo, ready, claiming) = r
  BY DEF DropSaying
<1> HIDE DEF d
<1>3. d.new \in Statuses
  BY <1>1 DEF Worker
<1>4. r = [d EXCEPT !.new = [d.new EXCEPT !.ready = ready, !.claiming = claiming]]
  BY <1>1, <1>3 DEF Worker, Statuses
<1>5. [d.new EXCEPT !.ready = ready, !.claiming = claiming] \in Statuses
  BY <1>3 DEF Statuses
<1> HIDE DEF r
<1>6. r \in Worker /\ r.at = "drop" /\ r.todo = todo /\ r.then = "write"
      /\ r.spec = rec.spec /\ r.creds = rec.creds
  BY <1>1, <1>4, <1>5 DEF Worker
<1> QED BY <1>2, <1>6

LEMMA GetInv ==
    ASSUME Inv, AsideOK, Get
    PROVE  Inv'
<1>1. /\ rec' = [Idle EXCEPT !.at = "sync", !.spec = seen.spec,
                             !.observed = seen.status, !.new = seen.status]
      /\ rec.at = "idle" /\ UNCHANGED <<built, polled, declared, target, reap, last>>
  BY DEF Get, parts
<1>2. rec' \in Worker /\ rec'.at = "sync" /\ rec'.creds = None
  BY <1>1, BlankTyped DEF AsideOK, Worker, Stages, Idle
<1>3. PartsOK'
  BY <1>1, <1>2 DEF Inv, PartsOK
<1>4. Place'
  BY <1>1, <1>2 DEF Inv, Place, Agree
<1>5. Whole' /\ LastOK'
  BY <1>1 DEF Inv, Whole, LastOK, Left, Comes, Ends, Resolved, Refers
<1> QED BY <1>3, <1>4, <1>5 DEF Inv

LEMMA syncInv ==
    ASSUME Inv, sync
    PROVE  Inv'
<1>1. /\ rec \in Worker /\ rec.at = "sync" /\ Agree /\ rec.creds = None
      /\ UNCHANGED <<built, polled, declared, target, reap, last>>
      /\ (SameSoFar => Left(last.spec, last.creds))
  BY DEF sync, parts, Inv, PartsOK, Place, LastOK
<1>2. /\ rec' \in Worker /\ rec'.spec = rec.spec /\ rec'.creds = rec.creds
      /\ \/ /\ rec'.at = "drop" /\ rec'.then = "idle" /\ rec'.todo = deregister
            /\ ~rec.spec.live
         \/ /\ rec'.at = "drop" /\ rec'.then = "write" /\ rec'.todo = deregister
            /\ rec.spec.live /\ rec.spec.conf \notin KnownAdapter
         \/ /\ rec.spec.live /\ rec.spec.conf \in KnownAdapter
            /\ \/ /\ rec'.at = "drop" /\ rec'.then = "resolve" /\ rec.spec.disabled
                  /\ rec'.todo = <<"source", "target">>
               \/ /\ rec'.at = "drop" /\ rec'.then = "resolve" /\ ~rec.spec.claims
                  /\ ~rec.spec.disabled /\ rec'.todo = <<"target">>
               \/ rec'.at = "resolve" /\ ~rec.spec.disabled /\ rec.spec.claims
  <2>1. CASE ~rec.spec.live
    <3>1. rec' = Drop(deregister, "idle")
      BY <2>1 DEF sync
    <3> QED BY <1>1, <2>1, <3>1, Todos, DropFields
  <2>2. CASE rec.spec.live /\ rec.spec.conf \notin KnownAdapter
    <3>1. rec' = DropSaying(deregister, "UnknownAdapter", "UnknownAdapter")
      BY <2>2 DEF sync
    <3>2. "UnknownAdapter" \in Reasons
      BY DEF Reasons
    <3> QED BY <1>1, <2>2, <3>1, <3>2, Todos, DropSayingFields
  <2>3. CASE rec.spec.live /\ rec.spec.conf \in KnownAdapter
    <3>1. rec' = Starts(rec.spec)
      BY <2>3 DEF sync
    <3>2. CASE rec.spec.disabled
      <4>1. rec' = Drop(<<"source", "target">>, "resolve")
        BY <3>1, <3>2 DEF Starts
      <4>2. <<"source", "target">> \in Seq(Parts)
        BY Todos
      <4>3. /\ rec' \in Worker /\ rec'.at = "drop" /\ rec'.then = "resolve"
            /\ rec'.todo = <<"source", "target">>
            /\ rec'.spec = rec.spec /\ rec'.creds = rec.creds
        BY <1>1, <4>1, <4>2, DropFields
      <4> QED BY <2>3, <3>2, <4>3
    <3>3. CASE ~rec.spec.disabled /\ ~rec.spec.claims
      <4>1. rec' = Drop(<<"target">>, "resolve")
        BY <3>1, <3>3 DEF Starts
      <4>2. <<"target">> \in Seq(Parts)
        BY Todos
      <4>3. /\ rec' \in Worker /\ rec'.at = "drop" /\ rec'.then = "resolve"
            /\ rec'.todo = <<"target">>
            /\ rec'.spec = rec.spec /\ rec'.creds = rec.creds
        BY <1>1, <4>1, <4>2, DropFields
      <4> QED BY <2>3, <3>3, <4>3
    <3>4. CASE ~rec.spec.disabled /\ rec.spec.claims
      BY <1>1, <2>3, <3>1, <3>4 DEF Starts, Worker, Stages
    <3> QED BY <3>2, <3>3, <3>4
  <2> QED BY <2>1, <2>2, <2>3
<1>3. PartsOK'
  BY <1>1, <1>2 DEF Inv, PartsOK
<1>4. Place'
  BY <1>1, <1>2 DEF Place, Agree, DropOK, Deregistering, Cutting, Cut, Ends, deregister
<1>5. Whole'
  BY <1>1 DEF Inv, Whole
<1>6. LastOK'
  BY <1>1, <1>2 DEF LastOK, SameSoFar, Left, Comes, Ends, Resolved, Refers
<1> QED BY <1>3, <1>4, <1>5, <1>6 DEF Inv

\* What Undisturbed says of one step.
Calm == SameSoFar => /\ polled'.source = polled.source /\ target'.on = target.on
                     /\ reap' = reap /\ built' = built

\* A step that disturbs nothing of what the last reconcile left, and goes on.
LEMMA StillLeft ==
    ASSUME LastOK, Calm, SameSoFar' => SameSoFar, rec'.at # "idle", UNCHANGED last
    PROVE  LastOK'
  BY DEF LastOK, Calm, Left, Comes, Ends, Resolved, Refers

LEMMA RemoveFields ==
    ASSUME Inv, Remove
    PROVE  /\ rec \in Worker /\ rec' \in Worker /\ rec.at = "drop" /\ DropOK
           /\ rec.todo # <<>> /\ rec'.todo = Tail(rec.todo) /\ Removes(Head(rec.todo))
           /\ rec'.at = "drop" /\ rec'.then = rec.then /\ rec'.spec = rec.spec
           /\ rec'.creds = rec.creds /\ last' = last
<1>1. /\ rec \in Worker /\ rec.at = "drop" /\ DropOK /\ rec.todo # <<>>
      /\ rec' = [rec EXCEPT !.todo = Tail(@)] /\ Removes(Head(rec.todo)) /\ last' = last
  BY DEF Inv, PartsOK, Place, Remove
<1>2. rec.todo \in Seq(Parts) /\ Tail(rec.todo) \in Seq(Parts)
  BY <1>1 DEF Worker
<1> QED BY <1>1, <1>2 DEF Worker

LEMMA RemovesOne ==
    ASSUME Inv, Remove
    PROVE  /\ Head(rec.todo) \in Parts
           /\ Head(rec.todo) = "source" => /\ polled' = NoSource /\ declared' = None
                                           /\ UNCHANGED <<built, target, reap>>
           /\ Head(rec.todo) = "target" => /\ target' = NoTarget
                                           /\ UNCHANGED <<built, polled, declared, reap>>
           /\ Head(rec.todo) = "reaper" => /\ reap' = None
                                           /\ UNCHANGED <<built, polled, declared, target>>
           /\ Head(rec.todo) = "built" => /\ built' = None
                                          /\ UNCHANGED <<polled, declared, target, reap>>
<1>1. Removes(Head(rec.todo)) /\ rec.todo \in Seq(Parts) /\ rec.todo # <<>>
  BY RemoveFields DEF Worker
<1>2. Head(rec.todo) \in Parts
  BY <1>1
<1> DEFINE h == Head(rec.todo)
<1>3. Removes(h) /\ h \in Parts
  BY <1>1, <1>2
<1> HIDE DEF h
<1>4. /\ h = "source" => /\ polled' = NoSource /\ declared' = None
                         /\ UNCHANGED <<built, target, reap>>
      /\ h = "target" => /\ target' = NoTarget
                         /\ UNCHANGED <<built, polled, declared, reap>>
      /\ h = "reaper" => /\ reap' = None
                         /\ UNCHANGED <<built, polled, declared, target>>
      /\ h = "built" => /\ built' = None
                        /\ UNCHANGED <<polled, declared, target, reap>>
  BY <1>3 DEF Removes, Parts
<1> QED BY <1>3, <1>4 DEF h

LEMMA HeadTail ==
    /\ Head(<<"source", "target", "reaper", "built">>) = "source"
    /\ Tail(<<"source", "target", "reaper", "built">>) = <<"target", "reaper", "built">>
    /\ Head(<<"target", "reaper", "built">>) = "target"
    /\ Tail(<<"target", "reaper", "built">>) = <<"reaper", "built">>
    /\ Head(<<"reaper", "built">>) = "reaper" /\ Tail(<<"reaper", "built">>) = <<"built">>
    /\ Head(<<"built">>) = "built" /\ Tail(<<"built">>) = <<>>
    /\ Head(<<"target", "reaper">>) = "target" /\ Tail(<<"target", "reaper">>) = <<"reaper">>
    /\ Head(<<"reaper">>) = "reaper" /\ Tail(<<"reaper">>) = <<>>
    /\ Head(<<"source", "target">>) = "source" /\ Tail(<<"source", "target">>) = <<"target">>
    /\ Head(<<"target">>) = "target" /\ Tail(<<"target">>) = <<>>
  OBVIOUS

LEMMA Cleared ==
    /\ NoSource.source = None /\ NoSource.heard = 0
    /\ NoTarget.of = None /\ NoTarget.on = FALSE
    /\ MaxReports \in Nat
  BY ControllerAssumption DEF NoSource, NoTarget

\* A removal of the deregistration.
LEMMA DeregisteringOn ==
    ASSUME Inv, Remove, Deregistering(rec.todo)
    PROVE  Deregistering(rec.todo)' /\ (reap' # None => reap' = built')
<1>1. /\ rec.todo # <<>> /\ rec'.todo = Tail(rec.todo)
      /\ reap # None => reap = built
  BY RemoveFields DEF DropOK
<1>2. CASE rec.todo = <<"source", "target", "reaper", "built">>
  <2>1. rec'.todo = <<"target", "reaper", "built">> /\ Head(rec.todo) = "source"
    BY <1>1, <1>2, HeadTail
  <2> QED BY <1>1, <2>1, RemovesOne, Cleared DEF Deregistering
<1>3. CASE rec.todo = <<"target", "reaper", "built">> /\ polled.source = None
  <2>1. rec'.todo = <<"reaper", "built">> /\ Head(rec.todo) = "target"
    BY <1>1, <1>3, HeadTail
  <2> QED BY <1>1, <1>3, <2>1, RemovesOne DEF Deregistering
<1>4. CASE rec.todo = <<"reaper", "built">> /\ polled.source = None /\ target = NoTarget
  <2>1. rec'.todo = <<"built">> /\ Head(rec.todo) = "reaper"
    BY <1>1, <1>4, HeadTail
  <2> QED BY <1>1, <1>4, <2>1, RemovesOne DEF Deregistering
<1>5. CASE rec.todo = <<"built">> /\ polled.source = None /\ target = NoTarget /\ reap = None
  <2>1. rec'.todo = <<>> /\ Head(rec.todo) = "built"
    BY <1>1, <1>5, HeadTail
  <2> QED BY <1>1, <1>5, <2>1, RemovesOne DEF Deregistering
<1> QED BY <1>1, <1>2, <1>3, <1>4, <1>5 DEF Deregistering

\* A removal of what lost credentials, or the spec, forbid.
LEMMA LosingOn ==
    ASSUME Inv, Remove, Losing(rec.todo)
    PROVE  /\ Losing(rec.todo)' /\ (reap' # None => reap' = built')
           /\ Head(rec.todo) \in {"target", "reaper"}
<1>1. /\ rec.todo # <<>> /\ rec'.todo = Tail(rec.todo)
      /\ reap # None => reap = built
  BY RemoveFields DEF DropOK
<1>2. CASE rec.todo = <<"target", "reaper">>
  <2>1. rec'.todo = <<"reaper">> /\ Head(rec.todo) = "target"
    BY <1>1, <1>2, HeadTail
  <2> QED BY <1>1, <2>1, RemovesOne DEF Losing
<1>3. CASE rec.todo = <<"reaper">> /\ target = NoTarget
  <2>1. rec'.todo = <<>> /\ Head(rec.todo) = "reaper"
    BY <1>1, <1>3, HeadTail
  <2> QED BY <1>1, <1>3, <2>1, RemovesOne DEF Losing
<1> QED BY <1>1, <1>2, <1>3 DEF Losing

LEMMA CuttingOn ==
    ASSUME Inv, Remove, Cutting(rec.todo)
    PROVE  /\ Cutting(rec.todo)' /\ reap' = reap /\ built' = built
           /\ \/ Head(rec.todo) = "source" /\ rec.spec.disabled
              \/ Head(rec.todo) = "target"
<1>1. rec.todo # <<>> /\ rec'.todo = Tail(rec.todo) /\ rec'.spec = rec.spec
  BY RemoveFields
<1>2. CASE rec.todo = <<"source", "target">> /\ rec.spec.disabled
  <2>1. rec'.todo = <<"target">> /\ Head(rec.todo) = "source"
    BY <1>1, <1>2, HeadTail
  <2> QED BY <1>1, <1>2, <2>1, RemovesOne, Cleared DEF Cutting
<1>3. CASE rec.todo = <<"target">> /\ (rec.spec.disabled => polled.source = None)
  <2>1. rec'.todo = <<>> /\ Head(rec.todo) = "target"
    BY <1>1, <1>3, HeadTail
  <2> QED BY <1>1, <1>3, <2>1, RemovesOne DEF Cutting
<1> QED BY <1>1, <1>2, <1>3 DEF Cutting

\* What is removed was gone when the last reconcile of the same had it gone.
LEMMA RemoveCalm ==
    ASSUME Inv, Remove
    PROVE  Calm
<1> SUFFICES ASSUME SameSoFar
             PROVE  /\ polled'.source = polled.source /\ target'.on = target.on
                    /\ reap' = reap /\ built' = built
  BY DEF Calm
<1>1. /\ Left(last.spec, last.creds) /\ rec.at = "drop" /\ DropOK /\ rec.spec = last.spec
      /\ rec.then # "resolve" => rec.creds = last.creds
      /\ rec.then \in {"idle", "resolve", "write"}
  BY RemoveFields DEF Inv, LastOK, SameSoFar, Worker
<1>2. CASE Ends(last.spec, last.creds)
  <2>1. built = None /\ polled.source = None /\ ~target.on /\ reap = None
    BY <1>1, <1>2 DEF Left
  <2>2. target.on \in BOOLEAN
    BY DEF Inv, PartsOK
  <2> QED BY <2>1, <2>2, RemovesOne, Cleared DEF Parts
<1>3. CASE rec.then = "resolve"
  <2>1. /\ rec.spec.disabled \/ ~rec.spec.claims
        /\ \/ Head(rec.todo) = "source" /\ rec.spec.disabled
           \/ Head(rec.todo) = "target"
    BY <1>1, <1>3, CuttingOn DEF DropOK
  <2>2. ~target.on /\ target.on \in BOOLEAN /\ (rec.spec.disabled => polled.source = None)
    BY <1>1, <2>1 DEF Left, Inv, PartsOK
  <2> QED BY <2>1, <2>2, RemovesOne, Cleared
<1>4. CASE rec.then = "write" /\ ~Ends(last.spec, last.creds)
  <2>1. ~Resolved(rec.spec, rec.creds) /\ Losing(rec.todo)
    BY <1>1, <1>4 DEF DropOK
  <2>2. ~target.on /\ reap = None /\ target.on \in BOOLEAN
    BY <1>1, <1>4, <2>1 DEF Left, Inv, PartsOK
  <2> QED BY <2>1, <2>2, LosingOn, RemovesOne, Cleared
<1>5. CASE rec.then = "idle"
  BY <1>1, <1>2, <1>5 DEF DropOK, Ends
<1> QED BY <1>1, <1>2, <1>3, <1>4, <1>5

LEMMA RemoveInv ==
    ASSUME Inv, Remove
    PROVE  Inv'
<1>1. /\ rec' \in Worker /\ rec.at = "drop" /\ DropOK /\ rec'.at = "drop"
      /\ rec'.then = rec.then /\ rec'.spec = rec.spec /\ rec'.creds = rec.creds
      /\ last' = last /\ rec.then \in {"idle", "resolve", "write"}
  BY RemoveFields DEF Worker
<1>2. PartsOK'
  <2>1. Head(rec.todo) \in Parts /\ PartsOK
    BY RemovesOne DEF Inv
  <2>2. NoSource \in [source : Digests \cup {None}, heard : 0..MaxReports]
    BY Cleared DEF NoSource
  <2>3. NoTarget \in [of : Digests \cup {None}, on : BOOLEAN]
    BY DEF NoTarget
  <2> QED BY <1>1, <2>1, <2>2, <2>3, RemovesOne DEF PartsOK, Parts
<1>3. DropOK'
  <2>1. CASE rec.then = "idle"
    BY <1>1, <2>1, DeregisteringOn DEF DropOK
  <2>2. CASE rec.then = "resolve"
    <3>1. Cutting(rec.todo)' /\ reap' = reap /\ built' = built
      BY <1>1, <2>2, CuttingOn DEF DropOK
    <3> QED BY <1>1, <2>2, <3>1 DEF DropOK
  <2>3. CASE rec.then = "write" /\ Ends(rec.spec, rec.creds) /\ Deregistering(rec.todo)
    <3>1. Deregistering(rec.todo)' /\ (reap' # None => reap' = built')
      BY <2>3, DeregisteringOn
    <3>2. Ends(rec.spec, rec.creds)'
      BY <1>1, <2>3 DEF Ends, Resolved, Refers
    <3> QED BY <1>1, <2>3, <3>1, <3>2 DEF DropOK
  <2>4. CASE /\ rec.then = "write" /\ ~Resolved(rec.spec, rec.creds) /\ Losing(rec.todo)
             /\ rec.spec.live /\ rec.spec.conf \in KnownAdapter
             /\ rec.spec.disabled => polled.source = None
    <3>1. /\ Losing(rec.todo)' /\ (reap' # None => reap' = built')
          /\ polled' = polled
      BY <2>4, LosingOn, RemovesOne
    <3>2. ~Resolved(rec.spec, rec.creds)'
      BY <1>1, <2>4 DEF Resolved, Refers
    <3> QED BY <1>1, <2>4, <3>1, <3>2 DEF DropOK
  <2> QED BY <1>1, <2>1, <2>2, <2>3, <2>4 DEF DropOK
<1>4. Place'
  BY <1>1, <1>3 DEF Place
<1>5. Whole'
  <2>1. Head(rec.todo) = "built" => polled.source = None
    <3>1. Deregistering(rec.todo) \/ Losing(rec.todo) \/ Cutting(rec.todo)
      BY <1>1 DEF DropOK
    <3>2. CASE Deregistering(rec.todo)
      BY <3>2, HeadTail, RemoveFields DEF Deregistering
    <3> QED BY <3>1, <3>2, LosingOn, CuttingOn
  <2>2. Whole /\ Head(rec.todo) \in Parts
    BY RemovesOne DEF Inv
  <2> QED BY <2>1, <2>2, RemovesOne, Cleared DEF Whole, Parts
<1>6. LastOK'
  <2>1. SameSoFar' => SameSoFar
    BY <1>1 DEF SameSoFar
  <2> QED BY <1>1, <2>1, RemoveCalm, StillLeft DEF Inv
<1> QED BY <1>2, <1>4, <1>5, <1>6 DEF Inv

\* The last removal is done: the reconcile goes on, writes, or is over.
LEMMA RemovedInv ==
    ASSUME Inv, Removed
    PROVE  Inv'
<1>1. /\ rec \in Worker /\ rec.at = "drop" /\ DropOK /\ rec.todo = <<>>
      /\ rec.then \in {"idle", "resolve", "write"}
      /\ UNCHANGED <<built, polled, declared, target, reap>>
  BY DEF Inv, PartsOK, Place, Removed, parts, Worker
<1>2. PartsOK /\ Whole /\ LastOK
  BY DEF Inv
<1>3. rec.todo = <<>> =>
        /\ Deregistering(rec.todo) => /\ polled.source = None /\ target = NoTarget
                                      /\ reap = None /\ built = None
        /\ Losing(rec.todo) => target = NoTarget /\ reap = None
        /\ Cutting(rec.todo) => /\ target = NoTarget
                                /\ rec.spec.disabled => polled.source = None
  BY DEF Deregistering, Losing, Cutting
<1>4. Whole'
  BY <1>1, <1>2 DEF Whole
<1>5. CASE rec.then = "idle"
  <2>1. rec' = Idle /\ last' = [spec |-> rec.spec, creds |-> rec.creds]
    BY <1>5 DEF Removed
  <2>2. /\ rec'.at = "idle" /\ last'.spec = rec.spec /\ ~rec.spec.live
        /\ polled.source = None /\ target = NoTarget /\ reap = None /\ built = None
    BY <1>1, <1>3, <1>5, <2>1 DEF Idle, DropOK
  <2>3. PartsOK'
    BY <1>1, <1>2, <2>1, BlankTyped DEF PartsOK, Worker
  <2>4. Place'
    BY <1>1, <2>2, Cleared DEF Place, Agree
  <2>5. LastOK'
    BY <1>1, <2>2, Cleared DEF LastOK, Left, Comes
  <2> QED BY <1>4, <2>3, <2>4, <2>5 DEF Inv
<1>6. CASE rec.then = "resolve"
  <2>1. rec' = [rec EXCEPT !.at = "resolve"] /\ last' = last
    BY <1>6 DEF Removed
  <2>2. /\ rec' \in Worker /\ rec'.at = "resolve" /\ rec'.spec = rec.spec
        /\ rec'.creds = rec.creds
    BY <1>1, <2>1 DEF Worker, Stages
  <2>3. PartsOK'
    BY <1>1, <1>2, <2>1, <2>2 DEF PartsOK
  <2>4. Place'
    BY <1>1, <1>3, <1>6, <2>2, Cleared DEF Place, DropOK, Agree, Cut
  <2>5. LastOK'
    <3>1. Calm /\ (SameSoFar' => SameSoFar)
      BY <1>1, <1>6, <2>1, <2>2 DEF Calm, SameSoFar
    <3> QED BY <1>2, <2>1, <2>2, <3>1, StillLeft
  <2> QED BY <1>4, <2>3, <2>4, <2>5 DEF Inv
<1>7. CASE rec.then = "write"
  <2>1. rec' = [rec EXCEPT !.at = "write"] /\ last' = [spec |-> rec.spec, creds |-> rec.creds]
    BY <1>7 DEF Removed
  <2>2. /\ rec' \in Worker /\ rec'.at = "write" /\ rec'.spec = rec.spec
        /\ rec'.creds = rec.creds /\ last'.spec = rec.spec /\ last'.creds = rec.creds
    BY <1>1, <2>1 DEF Worker, Stages
  <2>3. PartsOK'
    BY <1>1, <1>2, <2>1, <2>2 DEF PartsOK, Worker
  <2>4. /\ target = NoTarget /\ (reap # None => reap = built)
        /\ Left(rec.spec, rec.creds)
    <3>1. CASE Ends(rec.spec, rec.creds) /\ Deregistering(rec.todo)
      BY <1>1, <1>3, <3>1, Cleared DEF Left, Ends, Comes
    <3>2. CASE /\ ~Resolved(rec.spec, rec.creds) /\ Losing(rec.todo)
               /\ rec.spec.live /\ rec.spec.conf \in KnownAdapter
               /\ rec.spec.disabled => polled.source = None
      BY <1>1, <1>3, <3>2, Cleared DEF Left, Ends, Comes
    <3> QED BY <1>1, <1>7, <3>1, <3>2 DEF DropOK
  <2>5. Left(rec.spec, rec.creds)'
    BY <1>1, <2>2, <2>4 DEF Left, Ends, Comes, Resolved, Refers
  <2>6. Place'
    BY <1>1, <2>2, <2>4, <2>5, Cleared DEF Place, Agree
  <2>7. LastOK'
    BY <2>2, <2>5 DEF LastOK
  <2> QED BY <1>4, <2>3, <2>6, <2>7 DEF Inv
<1> QED BY <1>1, <1>5, <1>6, <1>7

LEMMA ResolveInv ==
    ASSUME Inv, AsideOK, Resolve
    PROVE  Inv'
<1> DEFINE k == IF Refers(rec.spec) THEN seen.secret ELSE None
<1>1. /\ rec \in Worker /\ rec.at = "resolve" /\ Agree /\ Cut(rec.spec)
      /\ rec.spec.live /\ rec.spec.conf \in KnownAdapter
      /\ UNCHANGED <<built, polled, declared, target, reap, last>>
      /\ rec' = [rec EXCEPT !.at = "build", !.creds = k]
      /\ k \in Creds \cup {None} /\ (Refers(rec.spec) => k # None)
  BY DEF Inv, PartsOK, AsideOK, Place, Resolve, parts
<1>2. PartsOK /\ Whole /\ LastOK
  BY DEF Inv
<1> HIDE DEF k
<1>3. rec' \in Worker /\ rec'.at = "build" /\ rec'.spec = rec.spec /\ rec'.creds = k
  BY <1>1 DEF Worker, Stages
<1>4. PartsOK' /\ Whole'
  BY <1>1, <1>2, <1>3 DEF PartsOK, Whole
<1>5. Place'
  BY <1>1, <1>3 DEF Place, Agree, Cut, Resolved, Refers
<1>6. LastOK'
  <2>1. Calm /\ (SameSoFar' => SameSoFar)
    BY <1>1, <1>3 DEF Calm, SameSoFar
  <2> QED BY <1>1, <1>2, <1>3, <2>1, StillLeft
<1> QED BY <1>4, <1>5, <1>6 DEF Inv

LEMMA ResolveFailsInv ==
    ASSUME Inv, ResolveFails
    PROVE  Inv'
<1>1. /\ rec \in Worker /\ rec.at = "resolve" /\ Agree /\ Cut(rec.spec)
      /\ rec.spec.live /\ rec.spec.conf \in KnownAdapter /\ rec.creds = None
      /\ UNCHANGED <<built, polled, declared, target, reap, last>>
      /\ rec' = Lost(rec.spec) /\ Refers(rec.spec)
  BY DEF Inv, PartsOK, Place, ResolveFails, parts
<1>2. PartsOK /\ Whole /\ LastOK
  BY DEF Inv
<1>3. /\ rec' \in Worker /\ rec'.at = "drop" /\ rec'.then = "write"
      /\ rec'.spec = rec.spec /\ rec'.creds = rec.creds
      /\ \/ rec'.todo = <<"reaper">> /\ rec.spec.disabled
         \/ rec'.todo = <<"target", "reaper">> /\ ~rec.spec.disabled
  <2>1. CASE rec.spec.disabled
    <3> DEFINE todo == <<"reaper">>
    <3>1. rec' = DropSaying(todo, "Disabled", "Disabled")
      BY <1>1, <2>1 DEF Lost
    <3>2. todo \in Seq(Parts) /\ "Disabled" \in Reasons
      BY Todos DEF Reasons
    <3> HIDE DEF todo
    <3>3. /\ rec' \in Worker /\ rec'.at = "drop" /\ rec'.then = "write"
          /\ rec'.todo = todo /\ rec'.spec = rec.spec /\ rec'.creds = rec.creds
      BY <1>1, <3>1, <3>2, DropSayingFields
    <3> QED BY <2>1, <3>3 DEF todo
  <2>2. CASE ~rec.spec.disabled
    <3> DEFINE said == IF rec.spec.claims THEN "Credentials" ELSE "ClaimsDisabled"
               todo == <<"target", "reaper">>
    <3>1. rec' = DropSaying(todo, "Credentials", said)
      BY <1>1, <2>2 DEF Lost
    <3>2. todo \in Seq(Parts) /\ "Credentials" \in Reasons /\ said \in Reasons
      BY Todos DEF Reasons
    <3> HIDE DEF said, todo
    <3>3. /\ rec' \in Worker /\ rec'.at = "drop" /\ rec'.then = "write"
          /\ rec'.todo = todo /\ rec'.spec = rec.spec /\ rec'.creds = rec.creds
      BY <1>1, <3>1, <3>2, DropSayingFields
    <3> QED BY <2>2, <3>3 DEF todo
  <2> QED BY <2>1, <2>2
<1>4. PartsOK' /\ Whole'
  BY <1>1, <1>2, <1>3 DEF PartsOK, Whole
<1>5. Losing(rec.todo)'
  BY <1>1, <1>3 DEF Losing, Cut
<1>6. ~Resolved(rec.spec, rec.creds)' /\ (rec.spec.disabled => polled.source = None)
  BY <1>1, <1>3 DEF Resolved, Refers, Cut
<1>7. Place'
  BY <1>1, <1>3, <1>5, <1>6 DEF Place, DropOK, Agree
<1>8. LastOK'
  <2>1. Calm /\ (SameSoFar' => SameSoFar)
    BY <1>1, <1>3 DEF Calm, SameSoFar
  <2> QED BY <1>1, <1>2, <1>3, <2>1, StillLeft
<1> QED BY <1>4, <1>7, <1>8 DEF Inv

LEMMA AdapterFailsInv ==
    ASSUME Inv, AdapterFails
    PROVE  Inv'
<1>1. /\ rec \in Worker /\ rec.at = "build" /\ Agree /\ Resolved(rec.spec, rec.creds)
      /\ UNCHANGED <<built, polled, declared, target, reap, last>>
      /\ Digest(rec) \notin Builds
  BY DEF Inv, PartsOK, Place, AdapterFails, parts
<1>2. PartsOK /\ Whole /\ LastOK
  BY DEF Inv
<1>3. /\ rec' \in Worker /\ rec'.at = "drop" /\ rec'.then = "write"
      /\ rec'.todo = deregister /\ rec'.spec = rec.spec /\ rec'.creds = rec.creds
  <2>1. deregister \in Seq(Parts) /\ "Disabled" \in Reasons /\ "AdapterConfig" \in Reasons
    BY Todos DEF Reasons
  <2>2. \/ rec' = DropSaying(deregister, "Disabled", "Disabled")
        \/ rec' = DropSaying(deregister, "AdapterConfig", "AdapterConfig")
    BY DEF AdapterFails
  <2> QED BY <1>1, <2>1, <2>2, DropSayingFields
<1>4. PartsOK' /\ Whole'
  BY <1>1, <1>2, <1>3 DEF PartsOK, Whole
<1>5. Deregistering(rec.todo)' /\ Ends(rec.spec, rec.creds)'
  BY <1>1, <1>3 DEF Deregistering, deregister, Ends, Digest, Resolved, Refers
<1>6. Place'
  BY <1>1, <1>3, <1>5 DEF Place, DropOK, Agree
<1>7. LastOK'
  <2>1. Calm /\ (SameSoFar' => SameSoFar)
    BY <1>1, <1>3 DEF Calm, SameSoFar
  <2> QED BY <1>1, <1>2, <1>3, <2>1, StillLeft
<1> QED BY <1>4, <1>6, <1>7 DEF Inv

\* The provider that is built, or in use already.
LEMMA NewCalm ==
    ASSUME Inv, New
    PROVE  Calm
<1> SUFFICES ASSUME SameSoFar
             PROVE  polled'.source = polled.source /\ built' = built
  BY DEF Calm, New
<1>1. /\ rec.at = "build" /\ rec.spec = last.spec /\ rec.creds = last.creds
      /\ Left(rec.spec, rec.creds) /\ polled \in [source : Digests \cup {None},
                                                   heard : 0..MaxReports]
  BY DEF New, SameSoFar, Inv, LastOK, PartsOK
<1>2. CASE InUse(rec) /\ UNCHANGED <<built, polled>>
  BY <1>2
<1>3. CASE ~InUse(rec) /\ Digest(rec) \in Builds
  <2>1. Comes(rec.spec, rec.creds)
    BY <1>1, <1>3 DEF Inv, Place, Comes, Digest
  <2>2. built = Digest(rec) /\ (~rec.spec.disabled => polled.source = Digest(rec))
    BY <1>1, <2>1 DEF Left, Digest
  <2>3. Digest(rec) # None
    BY <1>3, ControllerAssumption
  <2> QED BY <1>3, <2>2, <2>3 DEF InUse
<1> QED BY <1>2, <1>3 DEF New

LEMMA NewInv ==
    ASSUME Inv, New
    PROVE  Inv'
<1> DEFINE at == IF rec.spec.disabled THEN "reaper" ELSE "config"
<1>1. /\ rec \in Worker /\ rec.at = "build" /\ Agree /\ Cut(rec.spec)
      /\ Resolved(rec.spec, rec.creds) /\ rec.spec.live /\ rec.spec.conf \in KnownAdapter
      /\ UNCHANGED <<declared, target, reap, last>>
      /\ rec' = [rec EXCEPT !.at = at]
  BY DEF Inv, PartsOK, Place, New
<1>2. PartsOK /\ Whole /\ LastOK
  BY DEF Inv
<1>3. /\ rec' \in Worker /\ rec'.at = at /\ rec'.spec = rec.spec /\ rec'.creds = rec.creds
      /\ at \in {"config", "reaper"} /\ (at = "reaper" <=> rec.spec.disabled)
  BY <1>1 DEF Worker, Stages
<1> HIDE DEF at
<1>4. Digest(rec) \in Builds /\ Digest(rec) # None /\ Digest(rec) \in Digests
  <2>1. Digest(rec) \in Digests /\ Digest(rec) # None
    BY <1>1, ControllerAssumption DEF Worker, Specs, Digest, Digests
  <2> QED BY <1>2, <2>1 DEF New, InUse, Whole
<1>5. /\ built' = Digest(rec)
      /\ IF rec.spec.disabled THEN polled' = polled
         ELSE polled'.source = Digest(rec) /\ polled'.heard = polled.heard
      /\ polled' \in [source : Digests \cup {None}, heard : 0..MaxReports]
  <2>1. CASE InUse(rec) /\ UNCHANGED <<built, polled>>
    BY <1>2, <2>1 DEF InUse, Whole, PartsOK
  <2>2. CASE /\ ~InUse(rec) /\ built' = Digest(rec)
             /\ polled' = IF rec.spec.disabled THEN polled
                          ELSE [polled EXCEPT !.source = Digest(rec)]
    BY <1>2, <1>4, <2>2 DEF PartsOK
  <2> QED BY <2>1, <2>2 DEF New
<1>6. PartsOK'
  BY <1>1, <1>2, <1>3, <1>4, <1>5 DEF PartsOK
<1>7. Whole'
  BY <1>1, <1>2, <1>4, <1>5 DEF Whole, Cut
<1>8. Comes(rec.spec, rec.creds)' /\ Digest(rec)' = Digest(rec)
  BY <1>1, <1>3, <1>4 DEF Comes, Digest, Resolved, Refers
<1>9. Cut(rec.spec)' /\ (rec.spec.disabled => polled'.source = None /\ target' = NoTarget)
  BY <1>1, <1>3, <1>5 DEF Cut
<1>10. Place'
  BY <1>1, <1>3, <1>5, <1>8, <1>9 DEF Place
<1>11. LastOK'
  <2>1. SameSoFar' => SameSoFar
    BY <1>1, <1>3 DEF SameSoFar
  <2> QED BY <1>1, <1>2, <1>3, <2>1, NewCalm, StillLeft
<1> QED BY <1>6, <1>7, <1>10, <1>11 DEF Inv

LEMMA ConfigureInv ==
    ASSUME Inv, Configure
    PROVE  Inv'
<1> DEFINE ready == IF polled.heard = 0 THEN "NoReport" ELSE "Reporting"
<1>1. /\ rec \in Worker /\ rec.at = "config" /\ declared' = rec.spec.conf
      /\ UNCHANGED <<built, polled, target, reap, last>>
      /\ rec' = [rec EXCEPT !.at = "target", !.new.report = polled.heard,
                            !.new.ready = ready]
  BY DEF Inv, PartsOK, Configure
<1>2. PartsOK /\ Whole /\ LastOK /\ Place
  BY DEF Inv
<1>3. ready \in Reports /\ ready \in Reasons
  BY DEF Reports, Reasons
<1> HIDE DEF ready
<1>4. /\ rec' \in Worker /\ rec'.at = "target" /\ rec'.spec = rec.spec
      /\ rec'.creds = rec.creds /\ rec'.new.ready = ready
  <2>1. rec.new \in Statuses /\ polled.heard \in 0..MaxReports
    BY <1>1, <1>2 DEF Worker, PartsOK
  <2> DEFINE n == [rec.new EXCEPT !.report = polled.heard, !.ready = ready]
  <2>2. n \in Statuses /\ n.ready = ready
    BY <1>3, <2>1 DEF Statuses
  <2>3. rec' = [rec EXCEPT !.at = "target", !.new = n]
    BY <1>1, <2>1 DEF Worker, Statuses
  <2> HIDE DEF n
  <2> QED BY <1>1, <2>2, <2>3 DEF Worker, Stages
<1>5. PartsOK' /\ Whole'
  BY <1>1, <1>2, <1>4 DEF PartsOK, Whole, Worker, Specs
<1>6. Place'
  BY <1>1, <1>2, <1>3, <1>4 DEF Place, Cut, Comes, Resolved, Refers, Digest
<1>7. LastOK'
  <2>1. Calm /\ (SameSoFar' => SameSoFar)
    BY <1>1, <1>4 DEF Calm, SameSoFar
  <2> QED BY <1>1, <1>2, <1>4, <2>1, StillLeft
<1> QED BY <1>5, <1>6, <1>7 DEF Inv

LEMMA syncClaimsCalm ==
    ASSUME Inv, syncClaims
    PROVE  Calm
<1>1. /\ rec.at = "target" /\ UNCHANGED <<built, polled, declared, reap>>
      /\ target' = [of |-> built, on |-> rec.spec.claims /\ rec.spec.conf \in Capable]
  BY DEF syncClaims
<1>2. Comes(rec.spec, rec.creds) /\ ~rec.spec.disabled
  BY <1>1 DEF Inv, Place
<1>3. ASSUME SameSoFar
      PROVE  target'.on = target.on
  <2>1. Left(rec.spec, rec.creds) /\ rec \in Worker /\ target.on \in BOOLEAN
    BY <1>1, <1>3 DEF Inv, PartsOK, LastOK, SameSoFar
  <2>2. target.on <=> rec.spec.claims /\ rec.spec.conf \in Capable
    BY <1>2, <2>1 DEF Left
  <2>3. target'.on <=> rec.spec.claims /\ rec.spec.conf \in Capable
    BY <1>1
  <2>4. target'.on \in BOOLEAN
    BY <1>1, <2>1 DEF Worker, Specs
  <2> QED BY <2>1, <2>2, <2>3, <2>4
<1> QED BY <1>1, <1>3 DEF Calm

LEMMA syncClaimsInv ==
    ASSUME Inv, syncClaims
    PROVE  Inv'
<1> DEFINE said == Claiming(rec.spec)
<1>1. /\ rec \in Worker /\ rec.at = "target" /\ UNCHANGED <<built, polled, declared, reap, last>>
      /\ target' = [of |-> built, on |-> rec.spec.claims /\ rec.spec.conf \in Capable]
      /\ rec' = [rec EXCEPT !.at = "reaper", !.new.claiming = said]
  BY DEF Inv, PartsOK, syncClaims
<1>2. PartsOK /\ Whole /\ LastOK /\ Place
  BY DEF Inv
<1>3. said \in Reasons
  BY DEF Claiming, Reasons
<1> HIDE DEF said
<1>4. /\ rec' \in Worker /\ rec'.at = "reaper" /\ rec'.spec = rec.spec
      /\ rec'.creds = rec.creds /\ rec'.new.ready = rec.new.ready
  <2>1. rec.new \in Statuses
    BY <1>1 DEF Worker
  <2> DEFINE n == [rec.new EXCEPT !.claiming = said]
  <2>2. n \in Statuses /\ n.ready = rec.new.ready
    BY <1>3, <2>1 DEF Statuses
  <2>3. rec' = [rec EXCEPT !.at = "reaper", !.new = n]
    BY <1>1, <2>1 DEF Worker, Statuses
  <2> HIDE DEF n
  <2> QED BY <1>1, <2>2, <2>3 DEF Worker, Stages
<1>5. target' \in [of : Digests \cup {None}, on : BOOLEAN]
  BY <1>1, <1>2 DEF PartsOK, Worker, Specs
<1>6. PartsOK'
  BY <1>1, <1>2, <1>4, <1>5 DEF PartsOK
<1>7. /\ Comes(rec.spec, rec.creds) /\ built = Digest(rec) /\ ~rec.spec.disabled
      /\ polled.source = built /\ rec.new.ready \in Reports
  BY <1>1, <1>2 DEF Place
<1>8. built # None
  BY <1>7, ControllerAssumption DEF Comes, Digest
<1>9. Whole'
  BY <1>1, <1>2, <1>8 DEF Whole
<1>10. Place'
  BY <1>1, <1>2, <1>4, <1>7 DEF Place, Cut, Comes, Resolved, Refers, Digest
<1>11. LastOK'
  <2>1. SameSoFar' => SameSoFar
    BY <1>1, <1>4 DEF SameSoFar
  <2> QED BY <1>1, <1>2, <1>4, <2>1, syncClaimsCalm, StillLeft
<1> QED BY <1>6, <1>9, <1>10, <1>11 DEF Inv

LEMMA syncReaperCalm ==
    ASSUME Inv, syncReaper
    PROVE  Calm
<1>1. /\ rec.at = "reaper" /\ UNCHANGED <<built, polled, declared, target>>
      /\ reap' = IF rec.spec.conf \in Lists THEN built ELSE None
  BY DEF syncReaper
<1>2. Comes(rec.spec, rec.creds)
  BY <1>1 DEF Inv, Place
<1>3. ASSUME SameSoFar
      PROVE  Left(rec.spec, rec.creds)
  BY <1>1, <1>3 DEF Inv, LastOK, SameSoFar
<1> QED BY <1>1, <1>2, <1>3 DEF Calm, Left

LEMMA syncReaperInv ==
    ASSUME Inv, syncReaper
    PROVE  Inv'
<1>1. /\ rec \in Worker /\ rec.at = "reaper" /\ UNCHANGED <<built, polled, declared, target>>
      /\ reap' = IF rec.spec.conf \in Lists THEN built ELSE None
      /\ last' = [spec |-> rec.spec, creds |-> rec.creds]
  BY DEF Inv, PartsOK, syncReaper
<1>2. PartsOK /\ Whole /\ Place
  BY DEF Inv
<1>3. /\ rec' \in Worker /\ rec'.at = "write" /\ rec'.spec = rec.spec
      /\ rec'.creds = rec.creds
      /\ ~rec.spec.disabled => rec'.new.ready = rec.new.ready
  <2>1. CASE rec.spec.disabled
    <3>1. rec.new \in Statuses
      BY <1>1 DEF Worker
    <3> DEFINE n == [rec.new EXCEPT !.ready = "Disabled", !.claiming = "Disabled"]
    <3>2. n \in Statuses
      BY <3>1 DEF Statuses, Reasons
    <3>3. rec' = [rec EXCEPT !.at = "write", !.new = n]
      BY <1>1, <2>1, <3>1 DEF syncReaper, Worker, Statuses
    <3> HIDE DEF n
    <3> QED BY <1>1, <2>1, <3>2, <3>3 DEF Worker, Stages
  <2>2. CASE ~rec.spec.disabled
    <3>1. rec' = [rec EXCEPT !.at = "write"]
      BY <2>2 DEF syncReaper
    <3> QED BY <1>1, <3>1 DEF Worker, Stages
  <2> QED BY <2>1, <2>2
<1>4. PartsOK'
  BY <1>1, <1>2, <1>3 DEF PartsOK, Worker
<1>5. Whole'
  BY <1>1, <1>2 DEF Whole
<1>6. /\ Comes(rec.spec, rec.creds) /\ built = <<rec.spec.conf, rec.creds>>
      /\ rec.spec.disabled => polled.source = None /\ target = NoTarget
      /\ ~rec.spec.disabled =>
            /\ polled.source = built /\ rec.new.ready \in Reports
            /\ target = [of |-> built, on |-> rec.spec.claims /\ rec.spec.conf \in Capable]
  BY <1>1, <1>2 DEF Place, Digest
<1>7. Agree'
  BY <1>1, <1>6, Cleared DEF Agree
<1>8. Left(rec.spec, rec.creds)'
  <2>1. /\ rec.spec.disabled \/ ~rec.spec.claims => ~target.on
        /\ target.on <=> ~rec.spec.disabled /\ rec.spec.claims /\ rec.spec.conf \in Capable
    <3>1. CASE rec.spec.disabled
      BY <1>6, <3>1, Cleared
    <3>2. CASE ~rec.spec.disabled
      <4>1. target.on = (rec.spec.claims /\ rec.spec.conf \in Capable)
        BY <1>6, <3>2
      <4> QED BY <3>2, <4>1
    <3> QED BY <3>1, <3>2
  <2>2. ~Ends(rec.spec, rec.creds) /\ Resolved(rec.spec, rec.creds)
    BY <1>6 DEF Comes, Ends
  <2> QED BY <1>1, <1>3, <1>6, <2>1, <2>2 DEF Left, Ends, Comes, Resolved, Refers
<1>9. Place'
  BY <1>1, <1>3, <1>6, <1>7, <1>8, Cleared DEF Place
<1>10. LastOK'
  BY <1>1, <1>3, <1>8 DEF LastOK
<1> QED BY <1>4, <1>5, <1>9, <1>10 DEF Inv

\* The reconcile is over, its status written or not.
LEMMA WriteInv ==
    ASSUME Inv, writeStatus \/ WriteFails
    PROVE  Inv'
<1>1. /\ rec.at = "write" /\ rec' = Idle
      /\ UNCHANGED <<built, polled, declared, target, reap, last>>
  BY DEF writeStatus, WriteFails, parts
<1>2. rec'.at = "idle" /\ rec' \in Worker
  BY <1>1, BlankTyped DEF Idle
<1>3. PartsOK' /\ Whole'
  BY <1>1, <1>2 DEF Inv, PartsOK, Whole
<1>4. Agree /\ Left(last.spec, last.creds)
  BY <1>1 DEF Inv, Place
<1>5. Place'
  BY <1>1, <1>2, <1>4 DEF Place, Agree
<1>6. LastOK'
  BY <1>1, <1>4 DEF LastOK, Left, Comes, Ends, Resolved, Refers
<1> QED BY <1>3, <1>5, <1>6 DEF Inv

-----------------------------------------------------------------------------
LEMMA InvNext ==
    ASSUME AsideOK, Inv, [Next]_vars
    PROVE  AsideOK' /\ Inv'
<1>1. AsideOK'
  BY AsideNext, TypeSplit DEF Inv
<1>2. CASE \/ Edit \/ Informers \/ TimerFires \/ OtherReplicaWrites \/ Elected
           \/ Polls \/ GetFails \/ UNCHANGED vars
  BY <1>1, <1>2, AsideInv
<1>3. CASE Get \/ sync \/ Remove \/ Removed
  BY <1>1, <1>3, GetInv, syncInv, RemoveInv, RemovedInv
<1>4. CASE Resolve \/ ResolveFails \/ AdapterFails
  BY <1>1, <1>4, ResolveInv, ResolveFailsInv, AdapterFailsInv
<1>5. CASE New \/ Configure \/ syncClaims \/ syncReaper
  BY <1>1, <1>5, NewInv, ConfigureInv, syncClaimsInv, syncReaperInv
<1>6. CASE writeStatus \/ WriteFails
  BY <1>1, <1>6, WriteInv
<1> QED BY <1>1, <1>2, <1>3, <1>4, <1>5, <1>6 DEF Next, Reconcile

\* The invariant the theorems below are read from.
LEMMA AlwaysIInv == Spec => []IInv
<1>1. Init => AsideOK /\ Inv
  BY AsideInit, InvInit
<1>2. AsideOK /\ Inv /\ [Next]_vars => AsideOK' /\ Inv'
  BY InvNext
<1>3. AsideOK /\ Inv => IInv
  BY TypeSplit DEF Inv, IInv
<1> QED BY <1>1, <1>2, <1>3, PTL DEF Spec

\* No step disturbs what the last reconcile of the same spec and credentials left.
LEMMA CalmStep ==
    ASSUME Inv, [Next]_vars
    PROVE  Calm
<1>1. CASE Remove \/ New \/ syncClaims \/ syncReaper
  BY <1>1, RemoveCalm, NewCalm, syncClaimsCalm, syncReaperCalm
<1>2. CASE Polls
  <2>1. polled \in [source : Digests \cup {None}, heard : 0..MaxReports]
    BY DEF Inv, PartsOK
  <2> QED BY <1>2, <2>1 DEF Polls, Calm
<1>3. CASE \/ Edit \/ Informers \/ TimerFires \/ OtherReplicaWrites \/ Elected
           \/ GetFails \/ UNCHANGED vars
  BY <1>3 DEF Edit, Informers, SeesObject, SeesSecret, TimerFires, OtherReplicaWrites,
         Elected, GetFails, vars, parts, Calm
<1>4. CASE Get \/ sync \/ Removed \/ Resolve \/ ResolveFails \/ AdapterFails \/ Configure
  BY <1>4 DEF Get, sync, Removed, Resolve, ResolveFails, AdapterFails, Configure,
         parts, Calm
<1>5. CASE writeStatus \/ WriteFails
  BY <1>5 DEF writeStatus, WriteFails, parts, Calm
<1> QED BY <1>1, <1>2, <1>3, <1>4, <1>5 DEF Next, Reconcile

-----------------------------------------------------------------------------
(* What is so of every run.                                                *)

\* sandboxprovider_controller.go:219-239, 394-404: between reconciles the registry, the
\* binder and the reaper use one and the same provider, the one built last, whatever
\* edits, failures and removals came before.
THEOREM OneProviderAlways == Spec => []OneProvider
<1>1. ASSUME IInv PROVE OneProvider
  BY <1>1 DEF IInv, Place, Agree, OneProvider
<1> QED BY <1>1, AlwaysIInv, PTL

\* sandboxprovider_controller.go:154-187: once a reconcile has read a spec that allows
\* no claims, or found the credentials missing, the binder has no target from its
\* removals to its end ("billable claims must stop immediately when credentials are
\* missing"), so that requests that come then do not claim there.
THEOREM NotBilledAlways == Spec => []NotBilled
<1>1. ASSUME IInv PROVE NotBilled
  <2>1. Place /\ TypeOK
    BY <1>1 DEF IInv
  <2>2. ASSUME rec.at \in {"resolve", "build", "config", "target", "reaper", "write"},
               ~(rec.spec.claims /\ ~rec.spec.disabled)
        PROVE  ~target.on
    <3>1. CASE rec.at \in {"resolve", "build", "config", "target"}
      BY <2>1, <2>2, <3>1, Cleared DEF Place, Cut
    <3>2. CASE rec.at = "reaper"
      <4>1. rec.spec.disabled => target = NoTarget
        BY <2>1, <3>2 DEF Place
      <4>2. ~rec.spec.disabled =>
               target.on = (rec.spec.claims /\ rec.spec.conf \in Capable)
        BY <2>1, <3>2 DEF Place
      <4> QED BY <2>2, <4>1, <4>2, Cleared
    <3>3. CASE rec.at = "write"
      BY <2>1, <2>2, <3>3 DEF Place, Left
    <3> QED BY <2>2, <3>1, <3>2, <3>3
  <2>3. rec.at = "write" /\ rec.new.ready \notin Reports => ~target.on
    BY <2>1 DEF Place
  <2> QED BY <2>2, <2>3 DEF NotBilled, Reports
<1> QED BY <1>1, AlwaysIInv, PTL

\* sandboxprovider_controller.go:222-231, registry.go:202-205: a reconcile that reads the
\* spec and the credentials the last one worked from changes neither the source that
\* is polled, nor whether claims run, nor the reaper's target, nor the provider.
THEOREM UndisturbedAlways == Spec => Undisturbed
<1>1. ASSUME IInv, [Next]_vars
      PROVE  [SameSoFar => /\ polled'.source = polled.source /\ target'.on = target.on
                           /\ reap' = reap /\ built' = built]_vars
  <2>1. Inv
    BY <1>1, TypeSplit DEF IInv, Inv
  <2> QED BY <1>1, <2>1, CalmStep DEF Calm
<1> QED BY <1>1, AlwaysIInv, PTL DEF Spec, Undisturbed

=============================================================================
