---------------------------------- MODULE E2B ----------------------------------
(***************************************************************************)
(* The E2B adapter (pkg/adapter/e2b/e2b.go): Claim, Lookup and Release of  *)
(* one key over a service that can create, list, extend and delete         *)
(* sandboxes but knows nothing of keys, and whose answers may be late or   *)
(* lost.  What Claim.tla asks of a provider is stated here of this one.    *)
(*                                                                         *)
(* The binder makes one call at a time for a key; after a crash the next   *)
(* leader holds off (pkg/binder).  Every call has a deadline, as the       *)
(* binder's have.  Nothing is assumed of the TTL a client asks for, of the *)
(* time the service takes, or of when a connection breaks; the sandboxes   *)
(* that the adapter cannot know because of them are Doubtful.              *)
(***************************************************************************)
EXTENDS Integers, FiniteSets, Sequences

CONSTANTS Specs,
          AnySpec,   \* what a Lookup names that accepts any
          Timeout,   \* of one call
          TTLs,      \* what a claim may ask for
          MaxDelay,  \* the longest the service sits on a create
          Slack,     \* between two expiries that count as the same
          Limit,     \* of a list
          MaxTime, MaxBoxes, MaxCalls

VARIABLES
    now,
    boxes,      \* the sandboxes asked for, in that order
    call,       \* the call under way
    kills,      \* those a goroutine is about to delete
    given,      \* those some call has answered with
    buried,     \* those asked for before a Lookup that found nothing
    strays,     \* those the adapter lost sight of: see CreateLost and List
    hold,       \* when a new leader may call
    calls

vars == <<now, boxes, call, kills, given, buried, strays, hold, calls>>

\* What most of the service's steps leave alone.
callers == <<kills, given, buried, strays, hold, calls>>

ASSUME E2BAssumption ==
    /\ {MaxDelay, Slack, MaxTime, MaxBoxes, MaxCalls} \subseteq Nat
    /\ TTLs \cup {Timeout, Limit} \subseteq Nat \ {0}
    /\ AnySpec \notin Specs

Idle == [pc |-> "idle", op |-> "", spec |-> AnySpec, deadline |-> 0, seen |-> <<>>,
         left |-> {}, on |-> 0]

Init ==
    /\ now = 0
    /\ boxes = <<>>
    /\ call = Idle
    /\ kills = {} /\ given = {} /\ buried = {} /\ strays = {}
    /\ hold = 0
    /\ calls = 0

At(pc)  == call.pc = pc
InTime  == now <= call.deadline
Go(pc)  == call' = [call EXCEPT !.pc = pc]

\* Every answer but a sandbox ends the call here: KeyBusy, KeyConflict,
\* ErrNotFound, a refusal or an error the binder cannot interpret.
Fail == call' = Idle

Succeed(i) == call' = Idle /\ given' = given \cup {i}

-----------------------------------------------------------------------------
(* The service. *)

\* A create may start long after it was asked for.
Start(i) ==
    LET b == boxes[i] IN
    /\ b.at = "asked"
    /\ now <= b.asked + MaxDelay
    /\ boxes' = [boxes EXCEPT ![i].at = "running", ![i].started = now,
                              ![i].end = now + b.short]
    /\ UNCHANGED <<now, call, callers>>

Runs(i) == boxes[i].at = "running" /\ now < boxes[i].end

Deleted(i) ==
    IF boxes[i].at = "running" THEN [boxes EXCEPT ![i].at = "killing"] ELSE boxes

Expire(i) ==
    /\ boxes[i].at = "running"
    /\ now >= boxes[i].end
    /\ boxes' = Deleted(i)
    /\ UNCHANGED <<now, call, callers>>

Vanish(i) ==
    /\ boxes[i].at = "killing"
    /\ boxes' = [boxes EXCEPT ![i].at = "gone"]
    /\ UNCHANGED <<now, call, callers>>

\* What setting the timeout leaves behind.
Extended(i) == [boxes EXCEPT ![i].end = boxes[i].expires]

-----------------------------------------------------------------------------
(* Claim begins with a Lookup. *)

\* Seeded fault: a claim creates without looking.
FirstBlind(op) == IF op = "claim" THEN "create" ELSE "list"
First(op)      == "list"

Begin(op, spec) ==
    /\ At("idle")
    /\ now >= hold
    /\ calls < MaxCalls
    /\ calls' = calls + 1
    /\ call' = [Idle EXCEPT !.pc = First(op), !.op = op, !.spec = spec,
                            !.deadline = now + Timeout]
    /\ UNCHANGED <<now, boxes, kills, given, buried, strays, hold>>

Present == {i \in 1..Len(boxes) : boxes[i].at \in {"running", "killing"}}

\* One page: some of the sandboxes, if there are more than it holds.
Pages == IF Cardinality(Present) <= Limit THEN {Present}
         ELSE {S \in SUBSET Present : Cardinality(S) = Limit}

List ==
    /\ At("list") /\ InTime
    /\ \E page \in Pages :
          /\ call' = [call EXCEPT !.pc = "next", !.seen = boxes, !.left = page]
          /\ strays' = strays \cup (Present \ page)
    /\ UNCHANGED <<now, boxes, kills, given, buried, hold, calls>>

Accepts(b) == call.spec = AnySpec \/ call.spec = b.spec

Promoted(b) == b.end + Slack >= b.expires

\* Seeded fault: nobody asks when the sandbox started.
LateNever(b) == FALSE
Late(b)      == b.started > b.deadline

\* inspectSandbox on a listed one, up to its first request to the service.
Verdict(b) ==
    CASE b.at = "killing"                          -> "busy"
      [] b.at # "killing" /\ ~Accepts(b) -> "conflict"
      [] b.at # "killing" /\ Accepts(b)  ->
           IF Promoted(b)            THEN "detail"
           ELSE IF Late(b)           THEN "drop"
           ELSE IF now >= b.expires  THEN "busy"
           ELSE "promote"

Inspect(i) ==
    /\ At("next")
    /\ i \in call.left
    /\ LET next == Verdict(call.seen[i]) IN
         IF next \in {"busy", "conflict"} THEN Fail
         ELSE call' = [call EXCEPT !.pc = next, !.on = i, !.left = @ \ {i}]
    /\ UNCHANGED <<now, boxes, callers>>

\* Nothing found: that answers a Lookup, and lets a Claim create.
NotFound ==
    /\ At("next")
    /\ call.left = {}
    /\ buried' = buried \cup ((1..Len(call.seen)) \ given)
    /\ IF call.op = "lookup" THEN Fail
       ELSE call' = [call EXCEPT !.pc = "create", !.seen = <<>>]
    /\ UNCHANGED <<now, boxes, kills, given, strays, hold, calls>>

\* The late one is deleted; whether that works is not looked at.
Drop ==
    /\ At("drop")
    /\ Go("next")
    /\ \/ UNCHANGED boxes
       \/ InTime /\ boxes' = Deleted(call.on)
    /\ UNCHANGED <<now, callers>>

Promote ==
    /\ At("promote") /\ InTime
    /\ boxes[call.on].at = "running"
    /\ boxes' = Extended(call.on)
    /\ \/ Go("detail")
       \/ Fail                       \* it worked, and the answer was lost
    /\ UNCHANGED <<now, callers>>

\* A list leaves out the access token, an answer to a create may: the sandbox
\* is read once more. A Lookup goes on when it is gone.
Detail ==
    LET b == boxes[call.on] IN
    /\ call.pc \in {"detail", "confirm"} /\ InTime
    /\ \/ b.at = "gone" /\ At("detail") /\ Go("next") /\ UNCHANGED given
       \/ b.at = "gone" /\ At("confirm") /\ Fail /\ UNCHANGED given
       \/ b.at # "gone" /\ (b.at = "killing" \/ now >= b.end) /\ Fail /\ UNCHANGED given
       \/ Runs(call.on) /\ Succeed(call.on)
    /\ UNCHANGED <<now, boxes, kills, buried, strays, hold, calls>>

\* A request that is late, lost, refused, or about a sandbox that is gone.
RequestFails ==
    /\ call.pc \in {"list", "promote", "detail", "confirm"}
    /\ Fail
    /\ UNCHANGED <<now, boxes, callers>>

-----------------------------------------------------------------------------
(* The create, with a timeout of what is left of the call, and its         *)
(* extension to the whole TTL, unless it was whole already.                *)

Least(a, b) == IF a <= b THEN a ELSE b

Create ==
    /\ At("create")
    /\ now < call.deadline
    /\ Len(boxes) < MaxBoxes
    /\ \E ttl \in TTLs :
          boxes' = Append(boxes, [at |-> "asked", spec |-> call.spec, asked |-> now,
                                  deadline |-> call.deadline, expires |-> now + ttl,
                                  short |-> Least(ttl, call.deadline - now),
                                  started |-> 0, end |-> 0])
    /\ call' = [call EXCEPT !.pc = "created", !.on = Len(boxes) + 1]
    /\ UNCHANGED <<now, callers>>

\* No time is left, or the service refuses; a conflict that it does not explain
\* makes the answer to another Lookup that of the Claim.
CreateRefused ==
    /\ At("create")
    /\ \/ Fail
       \/ call' = [call EXCEPT !.pc = "list", !.op = "lookup"]
    /\ UNCHANGED <<now, boxes, callers>>

Whole(b) == b.short = b.expires - b.asked

\* The answer to a create may tell the access token, or not.
Confirmed(i) == Succeed(i) \/ (Go("confirm") /\ UNCHANGED given)

Created ==
    LET b == boxes[call.on] IN
    /\ At("created")
    /\ b.at # "asked"
    /\ \/ ~InTime /\ Fail /\ kills' = kills \cup {call.on} /\ UNCHANGED given
       \/ InTime /\ ~Whole(b) /\ Go("extend") /\ UNCHANGED <<kills, given>>
       \/ InTime /\ Whole(b) /\ Runs(call.on) /\ Confirmed(call.on) /\ UNCHANGED kills
       \/ InTime /\ Whole(b) /\ ~Runs(call.on) /\ Fail /\ UNCHANGED <<kills, given>>
    /\ UNCHANGED <<now, boxes, buried, strays, hold, calls>>

\* The call does not know its sandbox.  While the service is still starting it, nobody
\* can; once the deadline has passed that makes it late.
CreateLost ==
    /\ At("created")
    /\ Fail
    /\ strays' = IF InTime /\ boxes[call.on].at = "asked" THEN strays \cup {call.on}
                 ELSE strays
    /\ UNCHANGED <<now, boxes, kills, given, buried, hold, calls>>

Extend ==
    /\ At("extend") /\ InTime
    /\ boxes[call.on].at = "running"
    /\ boxes' = Extended(call.on)
    /\ \/ Confirmed(call.on) /\ UNCHANGED kills
       \/ Fail /\ kills' = kills \cup {call.on} /\ UNCHANGED given
    /\ UNCHANGED <<now, buried, strays, hold, calls>>

ExtendFails ==
    /\ At("extend")
    /\ Fail
    /\ kills' = kills \cup {call.on}
    /\ UNCHANGED <<now, boxes, given, buried, strays, hold, calls>>

\* deleteSandboxAsync: tried once, in the background.
Kill(i) ==
    /\ i \in kills
    /\ kills' = kills \ {i}
    /\ boxes' \in {boxes, Deleted(i)}
    /\ UNCHANGED <<now, call, given, buried, strays, hold, calls>>

Release(i) ==
    /\ i \in given
    /\ boxes[i].at = "running"
    /\ boxes' = Deleted(i)
    /\ UNCHANGED <<now, call, callers>>

HoldOff == now + Timeout + 1

Crash ==
    /\ call.pc # "idle"
    /\ call' = Idle
    /\ kills' = {}
    /\ hold' = HoldOff
    /\ UNCHANGED <<now, boxes, given, buried, strays, calls>>

Tick ==
    /\ now < MaxTime
    /\ now' = now + 1
    /\ UNCHANGED <<boxes, call, callers>>

Next ==
    \/ \E spec \in Specs : Begin("claim", spec)
    \/ \E spec \in Specs \cup {AnySpec} : Begin("lookup", spec)
    \/ List \/ NotFound \/ Drop \/ Promote \/ Detail \/ RequestFails
    \/ Create \/ CreateRefused \/ Created \/ CreateLost \/ Extend \/ ExtendFails
    \/ Crash \/ Tick
    \/ \E i \in 1..Len(boxes) :
          Start(i) \/ Expire(i) \/ Vanish(i) \/ Inspect(i) \/ Kill(i) \/ Release(i)

Spec == Init /\ [][Next]_vars

-----------------------------------------------------------------------------
(* Properties. *)

\* Ids name sandboxes that were asked for, and a timeout that was asked for is at
\* least one tick (e2b.go:265-286).
TypeOK ==
    /\ now \in 0..MaxTime
    /\ calls \in 0..MaxCalls
    /\ Len(boxes) <= MaxBoxes
    /\ kills \cup given \cup buried \cup strays \subseteq 1..Len(boxes)
    /\ call.pc \in {"idle", "list", "next", "drop", "promote", "detail",
                    "create", "created", "extend", "confirm"}
    /\ call.pc \in {"drop", "promote", "detail", "created", "extend", "confirm"} =>
          call.on \in 1..Len(boxes)
    /\ \A i \in 1..Len(boxes) :
          /\ boxes[i].at \in {"asked", "running", "killing", "gone"}
          /\ boxes[i].spec \in Specs
          /\ boxes[i].short \in 1..Timeout

\* Its first end says that it was confirmed: nothing tells that it started late.
Unmarked(b) == b.started + b.short + Slack >= b.expires

\* The sandboxes the adapter cannot judge: in time, but nobody knew of it when the next
\* Lookup came; or late, with a TTL too near to the timeout for the delay.
Doubtful(i) == IF boxes[i].started > boxes[i].deadline THEN Unmarked(boxes[i])
               ELSE i \in strays

\* The key's callers never have two sandboxes (provider.go:108-110: repeating
\* a claim returns the same sandbox), and no two run for their whole TTL, whoever
\* knows of them.  Doubtful ones apart.
OneSandbox ==
    /\ TypeOK
    /\ \A i, j \in 1..Len(boxes) :
          (/\ Runs(i) /\ Runs(j)
           /\ ~Doubtful(i) /\ ~Doubtful(j)
           /\ \/ {i, j} \subseteq given
              \/ Promoted(boxes[i]) /\ Promoted(boxes[j]))
          => i = j

\* The same of every sandbox: "definitively has none" (provider.go:119-120). The code
\* does not give it (README, section 4).
DefinitelyNone == given \cap buried = {}

\* When a Lookup has found nothing, no sandbox asked for before that is ever
\* handed out, unless it was Doubtful: the binder goes elsewhere on the strength of
\* it (provider.go:119-124).
NotFoundIsFinal == \A i \in given \cap buried : Doubtful(i)
=============================================================================
