-------------------------------- MODULE Reaper --------------------------------
(***************************************************************************)
(* The reaper (pkg/reaper/reaper.go) on one provider without a TTL of its  *)
(* own, with the gateway's versioned deletions (pkg/adapter/agentsandbox)  *)
(* and the binder's cached handles around it.                              *)
(*                                                                         *)
(* Covered: offset pages of a list that shifts while it is read, deletions *)
(* that fail, time out and take effect all the same, a leader that crashes *)
(* in a pass, targets removed and set again, sandboxes released by clients *)
(* and claimed again under the same ID while a pass is at work.            *)
(* Not covered: the pace of the deletions (waitToken) beyond a pass that   *)
(* runs out of time, dry runs, sandboxes that terminate slowly.            *)
(*                                                                         *)
(* IDs are deterministic, so a key stands for the ID of its sandbox; keys  *)
(* are numbers in the order the provider lists them.                       *)
(***************************************************************************)
EXTENDS Integers, Sequences, FiniteSets

CONSTANTS NumKeys,
          Undeletable,   \* keys whose deletion fails for ever
          PageSize, MaxPages, MaxPerCycle,
          MaxVersion,    \* sandboxes ever created of a key
          MaxFaults

Keys     == 1..NumKeys
Versions == 1..MaxVersion

ASSUME ReaperAssumption ==
    /\ {NumKeys, PageSize, MaxPages, MaxPerCycle, MaxVersion} \subseteq Nat \ {0}
    /\ MaxFaults \in Nat
    /\ Undeletable \subseteq Keys

VARIABLES
    box,      \* key -> [ver, live]: the sandbox created last
    past,     \* <<key, version>> whose expiry has passed
    cached,   \* key -> version of the completed flight's handle; 0: none
    target,   \* the reaper has the provider
    pass,     \* reapProvider
    wire,     \* deletions on their way
    faults

reaperVars == <<box, past, cached, target, pass, wire, faults>>

world == <<box, past, cached>>

-----------------------------------------------------------------------------
NoPass == [at |-> "idle", page |-> 0, todo |-> <<>>, answer |-> "none", sent |-> 0]

ReaperInit ==
    /\ box = [k \in Keys |-> [ver |-> 0, live |-> FALSE]]
    /\ past = {}
    /\ cached = [k \in Keys |-> 0]
    /\ target = FALSE
    /\ pass = NoPass
    /\ wire = {}
    /\ faults = 0

Fault == faults < MaxFaults /\ faults' = faults + 1

Expired(k) == box[k].live /\ <<k, box[k].ver>> \in past
Lives(k)   == box[k].live /\ ~Expired(k)

\* A completed flight is kept until the handle expires.
Replays(k) == cached[k] # 0 /\ <<k, cached[k]>> \notin past

-----------------------------------------------------------------------------
(* Claims and releases, and the passage of time.                           *)

\* A new sandbox; or the handle of one that lives is cached again. Claims on a key
\* whose sandbox has expired and is still there are refused (KeyBusy).
Bind(k) ==
    /\ ~Replays(k) /\ ~Expired(k)
    /\ \/ Lives(k) /\ cached' = [cached EXCEPT ![k] = box[k].ver] /\ UNCHANGED box
       \/ /\ ~box[k].live /\ box[k].ver < MaxVersion
          /\ box' = [box EXCEPT ![k] = [ver |-> @.ver + 1, live |-> TRUE]]
          /\ cached' = [cached EXCEPT ![k] = box[k].ver + 1]
    /\ UNCHANGED <<past, target, pass, wire, faults>>

\* A client's deletion names no version.  One that fails changes nothing.
ClientRelease(k) ==
    /\ box[k].live /\ k \notin Undeletable /\ Fault
    /\ box' = [box EXCEPT ![k].live = FALSE]
    /\ cached' = [cached EXCEPT ![k] = 0]
    /\ UNCHANGED <<past, target, pass, wire>>

\* The completed flight of the handle expires at the same time.
Expires(k) ==
    /\ Lives(k)
    /\ past' = past \cup {<<k, box[k].ver>>}
    /\ UNCHANGED <<box, cached, target, pass, wire, faults>>

-----------------------------------------------------------------------------
SetTarget ==
    /\ ~target /\ target' = TRUE
    /\ UNCHANGED <<world, pass, wire, faults>>

\* A pass under way goes on with the targets it began with.
RemoveTarget ==
    /\ target /\ Fault
    /\ target' = FALSE
    /\ UNCHANGED <<world, pass, wire>>

RunOnce ==
    /\ pass.at = "idle" /\ target
    /\ pass' = [NoPass EXCEPT !.at = "list"]
    /\ UNCHANGED <<world, target, wire, faults>>

\* ListOwned, with offsets as page tokens: a page of the list of all sandboxes.
InOrder(S) == {s \in [1..Cardinality(S) -> S] :
                 \A i, j \in 1..Cardinality(S) : i < j => s[i] < s[j]}

From(page)       == page * PageSize
Page(list, page) == {list[i] : i \in (From(page) + 1 .. From(page) + PageSize)
                                        \cap DOMAIN list}
More(list, page) == From(page) + PageSize < Len(list)

\* Seeded fault: the circuit breaker counts from one.
RoomOneMore == MaxPerCycle + 1 - Len(pass.todo)

Room == MaxPerCycle - Len(pass.todo)

Old(page) == {k \in page : Expired(k)}

ListOwned ==
    /\ pass.at = "list"
    /\ \E list \in InOrder({k \in Keys : box[k].live}) :
       \E old \in InOrder(Old(Page(list, pass.page))) :
          LET tripped == Len(old) > Room
              taken   == IF tripped THEN Room ELSE Len(old)
          IN  pass' = [pass EXCEPT
                !.todo = @ \o [i \in 1..taken |-> [k |-> old[i], ver |-> box[old[i]].ver]],
                !.at = IF tripped \/ ~More(list, pass.page) \/ pass.page + 1 = MaxPages
                       THEN "reap" ELSE "list",
                !.page = @ + 1]
    /\ UNCHANGED <<world, target, wire, faults>>

ListFails ==
    /\ pass.at = "list" /\ Fault
    /\ pass' = NoPass
    /\ UNCHANGED <<world, target, wire>>

Send ==
    /\ pass.at = "reap" /\ pass.todo # <<>>
    /\ wire' = wire \cup {Head(pass.todo)}
    /\ pass' = [pass EXCEPT !.at = "wait", !.answer = "none", !.sent = @ + 1]
    /\ UNCHANGED <<world, target, faults>>

\* Seeded fault: the gateway is not told the version.
AnyVersion(d) == box[d.k].live

\* The version is still the one listed.
Matches(d) == box[d.k].live /\ box[d.k].ver = d.ver

\* The gateway deletes, or finds nothing, or refuses; the adapter reports all three
\* as done.
Serve(d) ==
    /\ wire' = wire \ {d}
    /\ box' = IF d.k \notin Undeletable /\ Matches(d)
              THEN [box EXCEPT ![d.k].live = FALSE] ELSE box
    /\ pass' = IF pass.at = "wait" /\ Head(pass.todo) = d
               THEN [pass EXCEPT !.answer = IF d.k \in Undeletable THEN "error" ELSE "gone"]
               ELSE pass
    /\ UNCHANGED <<past, cached, target, faults>>

\* Seeded fault: a deletion that fails ends the pass.
NextOrStop == IF pass.answer = "gone" THEN [pass EXCEPT !.at = "reap", !.todo = Tail(@)]
              ELSE NoPass

Continued == [pass EXCEPT !.at = "reap", !.todo = Tail(@)]

\* onReleased: EvictHandle, by provider and ID.
Answered ==
    /\ pass.at = "wait" /\ pass.answer # "none"
    /\ cached' = IF pass.answer = "gone" THEN [cached EXCEPT ![Head(pass.todo).k] = 0]
                 ELSE cached
    /\ pass' = Continued
    /\ UNCHANGED <<box, past, target, wire, faults>>

TimesOut ==
    /\ pass.at = "wait" /\ pass.answer = "none" /\ Fault
    /\ pass' = Continued
    /\ UNCHANGED <<world, target, wire>>

Finish ==
    /\ pass.at = "reap" /\ pass.todo = <<>>
    /\ pass' = NoPass
    /\ UNCHANGED <<world, target, wire, faults>>

\* The interval is over before the pass is, or the leader's process ends.
CutShort ==
    /\ pass.at # "idle" /\ Fault
    /\ pass' = NoPass
    /\ UNCHANGED <<world, target, wire>>

-----------------------------------------------------------------------------
Pass == RunOnce \/ ListOwned \/ Send \/ Answered \/ Finish

ReaperNext ==
    \/ \E k \in Keys : Bind(k) \/ ClientRelease(k) \/ Expires(k)
    \/ SetTarget \/ RemoveTarget
    \/ Pass \/ ListFails \/ TimesOut \/ CutShort
    \/ \E d \in wire : Serve(d)

\* The controller sets the target again, the ticker fires, requests are served.
ReaperSpec ==
    /\ ReaperInit /\ [][ReaperNext]_reaperVars
    /\ WF_reaperVars(SetTarget) /\ WF_reaperVars(Pass)
    /\ \A k \in Keys, v \in Versions :
          WF_reaperVars([k |-> k, ver |-> v] \in wire /\ Serve([k |-> k, ver |-> v]))

-----------------------------------------------------------------------------
Item == [k : Keys, ver : Versions]

ReaperTypeOK ==
    /\ box \in [Keys -> [ver : 0..MaxVersion, live : BOOLEAN]]
    /\ past \subseteq Keys \X Versions
    /\ cached \in [Keys -> 0..MaxVersion]
    /\ target \in BOOLEAN
    /\ pass \in [at : {"idle", "list", "reap", "wait"}, page : 0..MaxPages,
                 todo : Seq(Item), answer : {"none", "gone", "error"}, sent : Nat]
    /\ wire \subseteq Item
    /\ faults \in 0..MaxFaults

\* provider.go:162-167, agentsandbox.go:385-389: "a background reap cannot delete a
\* newly created replacement that reused the same ID". Whatever a deletion has been
\* overtaken by, on the wire or in the pass, it ends only a sandbox that expired.
OnlyExpired ==
    [][wire' # wire => \A k \in Keys : Lives(k) => box'[k].live]_reaperVars

\* reaper.go:255-285: however the list shifts between its pages, and whatever fails,
\* a pass asks for no more than MaxPerCycle deletions.
CircuitBreaker == ReaperTypeOK /\ pass.sent <= MaxPerCycle

\* A pass starts at the first page and stops after MaxPages, or at MaxPerCycle expired
\* sandboxes, those it will fail to delete included.
InReach(k) ==
    /\ Cardinality({j \in 1..k - 1 : box[j].live}) < MaxPages * PageSize
    /\ Cardinality({j \in 1..k - 1 : j \in Undeletable /\ Expired(j)}) < MaxPerCycle

\* reaper.go:200-240, 255-285, 311-339: no expired sandbox stays where a pass can come to
\* it, although pages skip some, passes are cut short and others cannot be deleted; what
\* cannot be deleted keeps only what is listed after MaxPerCycle of its kind.
Reaped ==
    \A k \in Keys \ Undeletable, v \in Versions :
        []<>~(box[k].ver = v /\ Expired(k) /\ InReach(k))

=============================================================================
