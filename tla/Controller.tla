------------------------------ MODULE Controller ------------------------------
(***************************************************************************)
(* The SandboxProvider controller (internal/controller/                    *)
(* sandboxprovider_controller.go): one worker that brings the registration *)
(* of a provider with the registry, the binder and the reaper, and its     *)
(* status, up to date with its spec.                                       *)
(*                                                                         *)
(* Covered: the informers' copies lag behind the API server; every call on *)
(* the registry, the binder and the reaper is a step of its own, since     *)
(* claims, polls and reaping run between them; reads and writes fail; the  *)
(* replica is elected only later, while another one writes statuses.       *)
(* Not covered: the fields of a report but its number, the binder's health *)
(* in the Claiming condition, the refresh interval, events and messages.   *)
(***************************************************************************)
EXTENDS Integers, Sequences

CONSTANTS Configs,      \* what a spec can say of adapter, endpoint and options
          Creds,        \* contents of the Secret
          None,
          KnownAdapter, \* Configs whose adapter is registered
          Referring,    \* Configs with a credentialsRef
          Capable,      \* Configs whose adapter claims
          Lists,        \* of these, those whose adapter lists what it owns
          Builds,       \* <<config, creds>> adapter.New accepts
          Written,      \* <<disabled, claims, config>> users write
          MaxUpsets,    \* edits by users, and failures
          MaxReports    \* reports polls bring in

ASSUME ControllerAssumption ==
    /\ Configs # {}
    /\ None \notin Creds \cup Configs \cup (Configs \X (Creds \cup {None}))
    /\ KnownAdapter \cup Referring \cup Capable \subseteq Configs
    /\ Lists \subseteq Capable
    /\ Builds \subseteq Configs \X (Creds \cup {None})
    /\ Written \subseteq BOOLEAN \X BOOLEAN \X Configs
    /\ {MaxUpsets, MaxReports} \subseteq Nat

VARIABLES
    spec,     \* the object at the API server: [live, disabled, claims, conf]
    status,   \* its status: [ready, claiming, report]
    secret,   \* the Secret, or None
    seen,     \* the informers' copies: [spec, status, secret]
    queued,   \* a request is in the work queue
    timer,    \* a request is due in a status interval
    leader,   \* WriteStatus
    rec,      \* the worker
    built,    \* digest of the provider built last, or None
    polled,   \* the registry: [source, heard]
    declared, \* the registry's trusted half: SetConfig
    target,   \* the binder's target: [of, on]
    reap,     \* the reaper's target
    upsets, reports,
    last      \* history: what the last sync worked from

vars == <<spec, status, secret, seen, queued, timer, leader, rec, built, polled,
          declared, target, reap, upsets, reports, last>>

server == <<spec, status, secret>>
queue  == <<queued, timer>>
parts  == <<built, polled, declared, target, reap>>
bounds == <<upsets, reports>>

-----------------------------------------------------------------------------
Specs == [live : BOOLEAN, disabled : BOOLEAN, claims : BOOLEAN, conf : Configs]

Blank    == [ready |-> "unset", claiming |-> "unset", report |-> 0]
NoSource == [source |-> None, heard |-> 0]
NoTarget == [of |-> None, on |-> FALSE]

Gone == [live |-> FALSE, disabled |-> FALSE, claims |-> FALSE,
         conf |-> CHOOSE c \in Configs : TRUE]

\* What the object may be at the API server.
Offered == {Gone} \cup {[live |-> TRUE, disabled |-> w[1], claims |-> w[2],
                        conf |-> w[3]] : w \in Written}

Idle == [at |-> "idle", spec |-> Gone, creds |-> None, todo |-> <<>>,
         then |-> "idle", observed |-> Blank, new |-> Blank]

Init ==
    /\ spec \in Offered
    /\ status = Blank
    /\ secret \in Creds \cup {None}
    /\ seen = [spec |-> Gone, status |-> Blank, secret |-> None]
    /\ queued = FALSE /\ timer = FALSE
    /\ leader \in BOOLEAN
    /\ rec = Idle
    /\ built = None
    /\ polled = NoSource
    /\ declared = None
    /\ target = NoTarget
    /\ reap = None
    /\ upsets = 0 /\ reports = 0
    /\ last = [spec |-> Gone, creds |-> None]

-----------------------------------------------------------------------------
(* Users, the API server and its informers, the other replica, the polls.  *)

Upset == upsets < MaxUpsets /\ upsets' = upsets + 1

Edit ==
    /\ Upset
    /\ \/ \E s \in Offered \ {spec} :
            /\ spec' = s
            /\ status' = IF spec.live /\ s.live THEN status ELSE Blank
            /\ UNCHANGED secret
       \/ secret' \in (Creds \cup {None}) \ {secret} /\ UNCHANGED <<spec, status>>
    /\ UNCHANGED <<seen, queue, leader, rec, parts, reports, last>>

\* For: every change of the object, its status too, is a request.
SeesObject ==
    /\ <<seen.spec, seen.status>> # <<spec, status>>
    /\ seen' = [seen EXCEPT !.spec = spec, !.status = status]
    /\ queued' = TRUE
    /\ UNCHANGED <<server, timer, leader, rec, parts, bounds, last>>

\* providersForSecret looks references up in the informer's copy of the object.
Asks(s) == s.live /\ s.conf \in Referring

SeesSecret ==
    /\ seen.secret # secret
    /\ seen' = [seen EXCEPT !.secret = secret]
    /\ queued' = (queued \/ Asks(seen.spec))
    /\ UNCHANGED <<server, timer, leader, rec, parts, bounds, last>>

TimerFires ==
    /\ timer
    /\ timer' = FALSE /\ queued' = TRUE
    /\ UNCHANGED <<server, seen, leader, rec, parts, bounds, last>>

OtherReplicaWrites ==
    /\ ~leader /\ spec.live /\ Upset
    /\ status' = [ready |-> "Credentials", claiming |-> "Credentials", report |-> 0]
    /\ UNCHANGED <<spec, secret, seen, queue, leader, rec, parts, reports, last>>

Elected ==
    /\ ~leader /\ leader' = TRUE
    /\ UNCHANGED <<server, seen, queue, rec, parts, bounds, last>>

Polls ==
    /\ polled.source # None /\ reports < MaxReports
    /\ reports' = reports + 1
    /\ polled' = [polled EXCEPT !.heard = reports + 1]
    /\ UNCHANGED <<server, seen, queue, leader, rec, built, declared, target, reap,
                   upsets, last>>

-----------------------------------------------------------------------------
(* Reconcile.                                                              *)

Get ==
    /\ rec.at = "idle" /\ queued
    /\ queued' = FALSE
    /\ rec' = [Idle EXCEPT !.at = "sync", !.spec = seen.spec,
                           !.observed = seen.status, !.new = seen.status]
    /\ UNCHANGED <<server, seen, timer, leader, parts, bounds, last>>

GetFails ==
    /\ rec.at = "idle" /\ queued /\ Upset
    /\ UNCHANGED <<server, seen, queue, leader, rec, parts, reports, last>>

\* The worker goes on after the removals of todo, the conditions known or not.
Drop(todo, then) == [rec EXCEPT !.at = "drop", !.todo = todo, !.then = then]

DropSaying(todo, ready, claiming) ==
    [Drop(todo, "write") EXCEPT !.new.ready = ready, !.new.claiming = claiming]

deregister == <<"source", "target", "reaper", "built">>

\* Seeded fault: claims are only stopped by disabling the provider.
StartsBilling(s) ==
    IF s.disabled THEN Drop(<<"source", "target">>, "resolve")
    ELSE [rec EXCEPT !.at = "resolve"]

\* Seeded fault: the target of every provider goes before credentials are read.
StartsAnew(s) ==
    IF s.disabled THEN Drop(<<"source", "target">>, "resolve")
    ELSE Drop(<<"target">>, "resolve")

\* What goes before the credentials are read.
Starts(s) ==
    IF s.disabled THEN Drop(<<"source", "target">>, "resolve")
    ELSE IF ~s.claims THEN Drop(<<"target">>, "resolve")
    ELSE [rec EXCEPT !.at = "resolve"]

sync ==
    /\ rec.at = "sync"
    /\ rec' = IF ~rec.spec.live THEN Drop(deregister, "idle")
              ELSE IF rec.spec.conf \notin KnownAdapter
              THEN DropSaying(deregister, "UnknownAdapter", "UnknownAdapter")
              ELSE Starts(rec.spec)
    /\ UNCHANGED <<server, seen, queue, leader, parts, bounds, last>>

\* One call on the registry, the binder or the reaper.
Removes(part) ==
    CASE part = "source" -> polled' = NoSource /\ declared' = None
                            /\ UNCHANGED <<built, target, reap>>
      [] part = "target" -> target' = NoTarget
                            /\ UNCHANGED <<built, polled, declared, reap>>
      [] part = "reaper" -> reap' = None
                            /\ UNCHANGED <<built, polled, declared, target>>
      [] part = "built"  -> built' = None
                            /\ UNCHANGED <<polled, declared, target, reap>>

Remove ==
    /\ rec.at = "drop" /\ rec.todo # <<>>
    /\ Removes(Head(rec.todo))
    /\ rec' = [rec EXCEPT !.todo = Tail(@)]
    /\ UNCHANGED <<server, seen, queue, leader, bounds, last>>

Removed ==
    /\ rec.at = "drop" /\ rec.todo = <<>>
    /\ rec' = IF rec.then = "idle" THEN Idle ELSE [rec EXCEPT !.at = rec.then]
    /\ last' = IF rec.then = "resolve" THEN last
               ELSE [spec |-> rec.spec, creds |-> rec.creds]
    /\ UNCHANGED <<server, seen, queue, leader, parts, bounds>>

Refers(s) == s.conf \in Referring

\* Credentials there are none of, or that were read.
Resolve ==
    /\ rec.at = "resolve"
    /\ Refers(rec.spec) => seen.secret # None
    /\ rec' = [rec EXCEPT !.at = "build",
                  !.creds = IF Refers(rec.spec) THEN seen.secret ELSE None]
    /\ UNCHANGED <<server, seen, queue, leader, parts, bounds, last>>

\* The polls go on, the claims do not.
Lost(s) ==
    IF s.disabled THEN DropSaying(<<"reaper">>, "Disabled", "Disabled")
    ELSE DropSaying(<<"target", "reaper">>, "Credentials",
                    IF s.claims THEN "Credentials" ELSE "ClaimsDisabled")

ResolveFails ==
    /\ rec.at = "resolve" /\ Refers(rec.spec)
    /\ \/ seen.secret = None /\ UNCHANGED upsets
       \/ seen.secret # None /\ Upset
    /\ rec' = Lost(rec.spec)
    /\ UNCHANGED <<server, seen, queue, leader, parts, reports, last>>

Digest(r) == <<r.spec.conf, r.creds>>

\* Seeded fault: a provider that was built is in use.
InUseIfBuilt(r) == built = Digest(r)

\* builtProvider, and for a disabled provider what syncReaperWhenDisabled asks.
InUse(r) ==
    /\ built = Digest(r)
    /\ r.spec.disabled \/ polled.source # None

AdapterFails ==
    /\ rec.at = "build" /\ ~InUse(rec) /\ Digest(rec) \notin Builds
    /\ rec' = IF rec.spec.disabled
              THEN DropSaying(deregister, "Disabled", "Disabled")
              ELSE DropSaying(deregister, "AdapterConfig", "AdapterConfig")
    /\ UNCHANGED <<server, seen, queue, leader, parts, bounds, last>>

\* AddSource keeps the capacity that is known.
New ==
    /\ rec.at = "build"
    /\ \/ InUse(rec) /\ UNCHANGED <<built, polled>>
       \/ /\ ~InUse(rec) /\ Digest(rec) \in Builds
          /\ built' = Digest(rec)
          /\ polled' = IF rec.spec.disabled THEN polled
                       ELSE [polled EXCEPT !.source = Digest(rec)]
    /\ rec' = [rec EXCEPT !.at = IF rec.spec.disabled THEN "reaper" ELSE "config"]
    /\ UNCHANGED <<server, seen, queue, leader, declared, target, reap, bounds, last>>

\* SetConfig and registryReadiness.
Configure ==
    /\ rec.at = "config"
    /\ declared' = rec.spec.conf
    /\ rec' = [rec EXCEPT !.at = "target", !.new.report = polled.heard,
                 !.new.ready = IF polled.heard = 0 THEN "NoReport" ELSE "Reporting"]
    /\ UNCHANGED <<server, seen, queue, leader, built, polled, target, reap, bounds,
                   last>>

Claiming(s) ==
    IF ~s.claims THEN "ClaimsDisabled"
    ELSE IF s.conf \notin Capable THEN "NotClaimCapable" ELSE "ClaimCapable"

syncClaims ==
    /\ rec.at = "target"
    /\ target' = [of |-> built, on |-> rec.spec.claims /\ rec.spec.conf \in Capable]
    /\ rec' = [rec EXCEPT !.at = "reaper", !.new.claiming = Claiming(rec.spec)]
    /\ UNCHANGED <<server, seen, queue, leader, built, polled, declared, reap, bounds,
                   last>>

syncReaper ==
    /\ rec.at = "reaper"
    /\ reap' = IF rec.spec.conf \in Lists THEN built ELSE None
    /\ rec' = IF rec.spec.disabled
              THEN [rec EXCEPT !.at = "write", !.new.ready = "Disabled",
                                               !.new.claiming = "Disabled"]
              ELSE [rec EXCEPT !.at = "write"]
    /\ last' = [spec |-> rec.spec, creds |-> rec.creds]
    /\ UNCHANGED <<server, seen, queue, leader, built, polled, declared, target,
                   bounds>>

\* A merge patch carries what differs from the status observed; the list of
\* conditions is one field.
Patched(now, observed, new) ==
    [ready    |-> IF <<new.ready, new.claiming>> # <<observed.ready, observed.claiming>>
                  THEN new.ready ELSE now.ready,
     claiming |-> IF <<new.ready, new.claiming>> # <<observed.ready, observed.claiming>>
                  THEN new.claiming ELSE now.claiming,
     report   |-> IF new.report # observed.report THEN new.report ELSE now.report]

Wanted == leader /\ rec.new # rec.observed

\* Seeded fault: a reconcile that wrote nothing does not come back.
ArmsIfWritten == timer \/ Wanted

Arms == TRUE

writeStatus ==
    /\ rec.at = "write"
    /\ \/ ~Wanted /\ UNCHANGED status
       \/ Wanted /\ spec.live /\ status' = Patched(status, rec.observed, rec.new)
    /\ timer' = Arms
    /\ rec' = Idle
    /\ UNCHANGED <<spec, secret, seen, queued, leader, parts, bounds, last>>

\* Refused, or the object is gone; the request is tried again.
WriteFails ==
    /\ rec.at = "write" /\ Wanted
    /\ \/ ~spec.live /\ UNCHANGED upsets
       \/ spec.live /\ Upset
    /\ queued' = TRUE
    /\ rec' = Idle
    /\ UNCHANGED <<server, seen, timer, leader, parts, reports, last>>

-----------------------------------------------------------------------------
Informers == SeesObject \/ SeesSecret

Reconcile ==
    \/ Get \/ sync \/ Remove \/ Removed \/ Resolve \/ ResolveFails
    \/ AdapterFails \/ New \/ Configure \/ syncClaims \/ syncReaper
    \/ writeStatus \/ WriteFails

Next ==
    \/ Edit \/ Informers \/ TimerFires \/ OtherReplicaWrites \/ Elected \/ Polls
    \/ GetFails \/ Reconcile

\* The informers catch up, timers fire, and the worker never stops; users and
\* failures may stop at any time.
Spec ==
    /\ Init /\ [][Next]_vars
    /\ WF_vars(SeesObject) /\ WF_vars(SeesSecret)
    /\ WF_vars(TimerFires) /\ WF_vars(Reconcile)

-----------------------------------------------------------------------------
Digests == Configs \X (Creds \cup {None})
Reasons == {"unset", "UnknownAdapter", "Disabled", "Credentials", "AdapterConfig",
            "NoReport", "Reporting", "ClaimsDisabled", "NotClaimCapable",
            "ClaimCapable"}
Statuses == [ready : Reasons, claiming : Reasons, report : 0..MaxReports]

TypeOK ==
    /\ spec \in Specs /\ status \in Statuses /\ secret \in Creds \cup {None}
    /\ seen \in [spec : Specs, status : Statuses, secret : Creds \cup {None}]
    /\ queued \in BOOLEAN /\ timer \in BOOLEAN /\ leader \in BOOLEAN
    /\ rec \in [at : {"idle", "sync", "drop", "resolve", "build", "config",
                      "target", "reaper", "write"},
                spec : Specs, creds : Creds \cup {None},
                todo : Seq({"source", "target", "reaper", "built"}),
                then : {"idle", "resolve", "write"},
                observed : Statuses, new : Statuses]
    /\ built \in Digests \cup {None}
    /\ polled \in [source : Digests \cup {None}, heard : 0..MaxReports]
    /\ declared \in Configs \cup {None}
    /\ target \in [of : Digests \cup {None}, on : BOOLEAN]
    /\ reap \in Digests \cup {None}
    /\ upsets \in 0..MaxUpsets /\ reports \in 0..MaxReports
    /\ last \in [spec : Specs, creds : Creds \cup {None}]

\* sandboxprovider_controller.go:219-239, 394-404: between reconciles a provider
\* is polled, claimed from and reaped with the same endpoint and credentials. A
\* provider that takes claims is one that is polled, also after it was disabled
\* and enabled again with nothing else changed.
OneProvider == TypeOK /\
    (rec.at = "idle" =>
        /\ target.of # None => target.of = built /\ polled.source = built
        /\ reap # None => reap = built)

\* sandboxprovider_controller.go:154-187, "billable claims must stop immediately
\* when credentials are missing": once a reconcile has read a spec that allows no
\* claims, or no credentials, the binder has no target from its removals on, whatever
\* the rest of the reconcile does, so that no request that comes then claims there.
\* A flight that loaded the targets before (binder.go:747) still may.
NotBilled ==
    /\ rec.at \in {"resolve", "build", "config", "target", "reaper", "write"}
          /\ ~(rec.spec.claims /\ ~rec.spec.disabled) => ~target.on
    /\ rec.at = "write" /\ rec.new.ready # "Reporting" /\ rec.new.ready # "NoReport"
          => ~target.on

SameSoFar ==
    /\ rec.at # "idle" /\ rec.spec = last.spec
    /\ \/ rec.at \in {"sync", "resolve"}
       \/ rec.at = "drop" /\ rec.then = "resolve"
       \/ rec.creds = last.creds

\* sandboxprovider_controller.go:222-231, registry.go:202-205: a reconcile of a spec and
\* credentials the last one worked from, a status tick above all, disturbs nothing:
\* the source, the claims and the reaper go on without a gap.
Undisturbed ==
    [][SameSoFar => /\ polled'.source = polled.source /\ target'.on = target.on
                    /\ reap' = reap /\ built' = built]_vars

\* sandboxprovider_controller.go:125-146, 741-758: once users and failures stop, the
\* registration is and stays what the spec and the Secret say, whatever order their
\* changes were seen in.
Readable  == Refers(spec) => secret # None
Current   == <<spec.conf, IF Refers(spec) THEN secret ELSE None>>
Works     == spec.live /\ spec.conf \in KnownAdapter /\ Readable /\ Current \in Builds
Polled    == Works /\ ~spec.disabled

Registered ==
    /\ target.on <=> (Polled /\ spec.claims /\ spec.conf \in Capable)
    /\ target.on => target.of = Current
    /\ Polled => (polled.source = Current /\ declared = spec.conf)
    /\ (~spec.live \/ spec.disabled \/ spec.conf \notin KnownAdapter)
         => polled.source = None
    /\ reap = IF Works /\ spec.conf \in Lists THEN Current ELSE None

\* sandboxprovider_controller.go:573-637: the status in the end tells what is in
\* force and the last report, although it is compared with, and patched against, a
\* copy that may be old, and a replica that does not lead writes nothing.
Tells ==
    leader /\ spec.live =>
        /\ Polled => /\ status.claiming = Claiming(spec)
                     /\ status.report = polled.heard
                     /\ status.ready \in {"NoReport", "Reporting"}
        /\ spec.disabled /\ spec.conf \in KnownAdapter => status.claiming = "Disabled"
        /\ status.claiming = "ClaimCapable" => target.on

Converges == <>[](Registered /\ Tells)

=============================================================================
