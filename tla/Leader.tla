-------------------------------- MODULE Leader --------------------------------
(***************************************************************************)
(* Leadership of the replicas: the lease, the pod label that routes        *)
(* placement to the leader (internal/leader/label.go), the hold-off of a   *)
(* new leader's binder, and the shutdown of a leader                       *)
(* (cmd/sandbox-scheduler/main.go).                                        *)
(*                                                                         *)
(* Covered: processes that crash, lose the lease, are shut down and start  *)
(* again in the same pod, label patches that fail before or after they     *)
(* took effect, targets a replica learns of, updates and loses at any      *)
(* time, flights that go by the targets they loaded, and creations a       *)
(* provider may still carry out after their sender is gone.                *)
(* Not covered: a process that is frozen past its lease, clocks that drift *)
(* and a patch that takes effect after the next one was sent.              *)
(*                                                                         *)
(* Time is told by timers that run down or up to their last meaning, so    *)
(* runs are endless.                                                       *)
(***************************************************************************)
EXTENDS Integers, FiniteSets, FiniteSetsExt

CONSTANTS Replicas, Providers,
          Timeouts,      \* what a spec.claims.timeout may be
          ClaimTimeout,
          Default,       \* DefaultAttemptTimeout
          Grace,         \* RemoteTimeoutSkewGrace
          LeaseTime, RenewTime,
          MaxProcs       \* processes ever started

ASSUME LeaderAssumption ==
    /\ Timeouts \subseteq Nat \ {0}
    /\ {ClaimTimeout, Default, Grace, LeaseTime, RenewTime, MaxProcs} \subseteq Nat \ {0}
    /\ RenewTime < LeaseTime
    \* A duration is a word, so one of the timeouts is the longest.
    /\ \E longest \in Timeouts : \A t \in Timeouts : t <= longest

VARIABLES
    lease,     \* [holder, left]: holder 0: nobody
    rep,       \* replica -> its process
    label,     \* replica -> its pod carries ActiveLabel
    attempts,  \* creations that may still take effect
    procs      \* processes started

vars == <<lease, rep, label, attempts, procs>>

-----------------------------------------------------------------------------
MaxHold == ClaimTimeout + Grace

NoTargets == [p \in Providers |-> 0]

\* age: since NotifyElected; quiet: since the last renewal;
\* known: provider -> the timeout of its target, 0 if it has none;
\* admits: a placement request is past the hold-off;
\* flight, due: the targets a flight has loaded, and how long it still has.
Process(n) == [up |-> TRUE, proc |-> n, at |-> "clearing", lead |-> FALSE,
               armed |-> FALSE, age |-> 0, quiet |-> 0, known |-> NoTargets,
               admits |-> FALSE, flight |-> NoTargets, due |-> 0,
               closing |-> "no"]

Down(p) == [Process(p) EXCEPT !.up = FALSE]

Init ==
    /\ lease = [holder |-> 0, left |-> 0]
    /\ rep = [r \in Replicas |-> Down(0)]
    /\ label = [r \in Replicas |-> FALSE]
    /\ attempts = {}
    /\ procs = 0

Mine(r)      == {a \in attempts : a.by = rep[r].proc}
Holds(r)     == lease.holder = rep[r].proc
Leads(r)     == rep[r].up /\ rep[r].lead
Replaces(a, b) == attempts' = (attempts \ {a}) \cup {b}

-----------------------------------------------------------------------------
(* Processes.                                                              *)

Start(r) ==
    /\ ~rep[r].up /\ procs < MaxProcs
    /\ procs' = procs + 1
    /\ rep' = [rep EXCEPT ![r] = Process(procs + 1)]
    /\ UNCHANGED <<lease, label, attempts>>

\* What was sent to a provider is on its way.
Dies(r) ==
    /\ rep' = [rep EXCEPT ![r] = Down(@.proc)]
    /\ attempts' = {[a EXCEPT !.open = @ /\ a.by # rep[r].proc] : a \in attempts}

Crash(r) ==
    /\ rep[r].up /\ procs < MaxProcs
    /\ Dies(r)
    /\ UNCHANGED <<lease, label, procs>>

Acquire(r) ==
    /\ rep[r].up /\ ~rep[r].lead /\ rep[r].closing = "no"
    /\ lease.left = 0
    /\ lease' = [holder |-> rep[r].proc, left |-> LeaseTime]
    /\ rep' = [rep EXCEPT ![r].lead = TRUE, ![r].quiet = 0]
    /\ UNCHANGED <<label, attempts, procs>>

Renew(r) ==
    /\ Leads(r) /\ Holds(r)
    /\ lease' = [lease EXCEPT !.left = LeaseTime]
    /\ rep' = [rep EXCEPT ![r].quiet = 0]
    /\ UNCHANGED <<label, attempts, procs>>

\* The manager ends a process whose renewals have failed for RenewTime.
LoseLease(r) ==
    /\ Leads(r) /\ rep[r].quiet = RenewTime /\ procs < MaxProcs
    /\ Dies(r)
    /\ UNCHANGED <<lease, label, procs>>

\* recordElected, by the hook or by the first request that asks Active.
NotifyElected(r) ==
    /\ Leads(r) /\ ~rep[r].armed
    /\ rep' = [rep EXCEPT ![r].armed = TRUE, ![r].age = 0]
    /\ UNCHANGED <<lease, label, attempts, procs>>

-----------------------------------------------------------------------------
(* PodLabeler.  A patch that fails may have taken effect.                  *)

\* Seeded fault: a replica is ready as soon as it is up.
ReadyAtOnce(r) == rep[r].up

Ready(r) == rep[r].up /\ rep[r].at # "clearing"

\* Start up to the clear.
Clear(r) ==
    /\ rep[r].up /\ rep[r].at = "clearing" /\ rep[r].closing = "no"
    /\ label' = [label EXCEPT ![r] = FALSE]
    /\ rep' = [rep EXCEPT ![r].at = "waiting"]
    /\ UNCHANGED <<lease, attempts, procs>>

ClearFails(r) ==
    /\ rep[r].up /\ rep[r].at = "clearing"
    /\ label' = [label EXCEPT ![r] = FALSE]
    /\ UNCHANGED <<lease, rep, attempts, procs>>

SetLabel(r) ==
    /\ Leads(r) /\ rep[r].at = "waiting" /\ rep[r].closing = "no"
    /\ label' = [label EXCEPT ![r] = TRUE]
    /\ rep' = [rep EXCEPT ![r].at = "serving"]
    /\ UNCHANGED <<lease, attempts, procs>>

\* Seeded fault: the first patch that fails is the last.
SetFailsForGood(r) ==
    /\ Leads(r) /\ rep[r].at = "waiting" /\ rep[r].closing = "no"
    /\ rep' = [rep EXCEPT ![r].at = "gone"]
    /\ UNCHANGED <<lease, label, attempts, procs>>

SetFails(r) ==
    /\ Leads(r) /\ rep[r].at = "waiting" /\ rep[r].closing = "no"
    /\ label' = [label EXCEPT ![r] = TRUE]
    /\ UNCHANGED <<lease, rep, attempts, procs>>

\* Best effort, on the way out.
Unlabel(r) ==
    /\ rep[r].closing # "no" /\ rep[r].at = "serving" /\ label[r]
    /\ label' = [label EXCEPT ![r] = FALSE]
    /\ UNCHANGED <<lease, rep, attempts, procs>>

-----------------------------------------------------------------------------
(* The binder: targets, the hold-off, attempts.                            *)

\* A target that is known is replaced, its timeout with it.
SetTarget(r, p, t) ==
    /\ rep[r].up
    /\ rep' = [rep EXCEPT ![r].known[p] = t]
    /\ UNCHANGED <<lease, label, attempts, procs>>

RemoveTarget(r, p) ==
    /\ rep[r].up
    /\ rep' = [rep EXCEPT ![r].known[p] = 0]
    /\ UNCHANGED <<lease, label, attempts, procs>>

\* The longest attempt with the targets known now.
LongestKnown(r) ==
    Min({ClaimTimeout, Max({Default} \cup {rep[r].known[p] : p \in Providers})})

\* Seeded fault: the provider's clock and queue are not allowed for.
HoldOffNoGrace(r) == LongestKnown(r)

\* How long claims are held off after NotifyElected, with the targets known now.
HoldOff(r) == LongestKnown(r) + Grace

\* Active and holdOffRemaining.
Serves(r) == Leads(r) /\ rep[r].armed /\ rep[r].age >= HoldOff(r)

\* startAttempt.
Open(r) == rep[r].closing # "closed"

\* Bind asks for the hold-off once, when the request comes.  A process has one
\* request at a time.
Admit(r) ==
    /\ Serves(r) /\ ~rep[r].admits /\ rep[r].due = 0
    /\ rep' = [rep EXCEPT ![r].admits = TRUE]
    /\ UNCHANGED <<lease, label, attempts, procs>>

\* The targets are loaded once for the whole flight.
executeFlight(r) ==
    /\ rep[r].admits
    /\ rep' = [rep EXCEPT ![r].admits = FALSE, ![r].flight = rep[r].known,
                          ![r].due = ClaimTimeout]
    /\ UNCHANGED <<lease, label, attempts, procs>>

FlightEnds(r) ==
    /\ rep[r].due > 0 /\ \A a \in Mine(r) : ~a.open
    /\ rep' = [rep EXCEPT ![r].flight = NoTargets, ![r].due = 0]
    /\ UNCHANGED <<lease, label, attempts, procs>>

attemptDuration(r, p) == Min({rep[r].flight[p], rep[r].due})

\* A creation of some one key.  span: the time it was given.
Claim(r, p) ==
    /\ rep[r].due > 0 /\ rep[r].flight[p] > 0 /\ Open(r) /\ Mine(r) = {}
    /\ LET d == attemptDuration(r, p)
       IN  attempts' = attempts \cup
             {[by |-> rep[r].proc, span |-> d, left |-> d + Grace, open |-> TRUE]}
    /\ UNCHANGED <<lease, rep, label, procs>>

Answered(a) ==
    /\ a.open
    /\ attempts' = attempts \ {a}
    /\ UNCHANGED <<lease, rep, label, procs>>

TimesOut(a) ==
    /\ a.open /\ a.left = Grace
    /\ Replaces(a, [a EXCEPT !.open = FALSE])
    /\ UNCHANGED <<lease, rep, label, procs>>

-----------------------------------------------------------------------------
(* Shutdown: the server, the binder, then the lease.                       *)

Terminate(r) ==
    /\ rep[r].up /\ rep[r].closing = "no" /\ procs < MaxProcs
    /\ rep' = [rep EXCEPT ![r].closing = "server"]
    /\ UNCHANGED <<lease, label, attempts, procs>>

\* srv.Shutdown returns; binder.Shutdown lets no attempt start.
Shutdown(r) ==
    /\ rep[r].closing = "server"
    /\ rep' = [rep EXCEPT ![r].closing = "closed"]
    /\ UNCHANGED <<lease, label, attempts, procs>>

\* binder.Shutdown returns, with nothing under way or because its time is up (which
\* is left open), the manager gives the lease back, main ends.
Exit(r) ==
    /\ rep[r].closing = "closed"
    /\ Dies(r)
    /\ lease' = IF Leads(r) /\ Holds(r) THEN [holder |-> 0, left |-> 0] ELSE lease
    /\ UNCHANGED <<label, procs>>

-----------------------------------------------------------------------------
\* What must happen by now happens before time goes on.
Overdue ==
    \/ \E r \in Replicas : Leads(r) /\ rep[r].quiet = RenewTime
    \/ \E a \in attempts : a.open /\ a.left = Grace

Tick ==
    /\ ~Overdue
    /\ lease' = [lease EXCEPT !.left = Max({0, @ - 1})]
    /\ rep' = [r \in Replicas |->
         [rep[r] EXCEPT !.age = IF rep[r].armed THEN Min({MaxHold, @ + 1}) ELSE 0,
                        !.quiet = IF Leads(r) THEN @ + 1 ELSE 0,
                        !.due = Max({0, @ - 1}),
                        !.flight = IF rep[r].due > 1 THEN @ ELSE NoTargets]]
    /\ attempts' = {[a EXCEPT !.left = @ - 1] : a \in {b \in attempts : b.left > 1}}
    /\ UNCHANGED <<label, procs>>

Lives(r) ==
    \/ Start(r) \/ Acquire(r) \/ NotifyElected(r) \/ Clear(r) \/ SetLabel(r)
    \/ Shutdown(r) \/ Exit(r)

Fails(r) == Crash(r) \/ LoseLease(r) \/ ClearFails(r) \/ SetFails(r)

Next ==
    \/ Tick
    \/ \E r \in Replicas :
          \/ Lives(r) \/ Renew(r) \/ Fails(r) \/ Terminate(r) \/ Unlabel(r)
          \/ Admit(r) \/ executeFlight(r) \/ FlightEnds(r)
          \/ \E p \in Providers :
                \/ \E t \in Timeouts : SetTarget(r, p, t)
                \/ RemoveTarget(r, p) \/ Claim(r, p)
    \/ \E a \in attempts : Answered(a) \/ TimesOut(a)

Spec == Init /\ [][Next]_vars

\* Time passes, processes are started again, their main, elector, hook and labeler
\* go on, renewals and label patches do not fail for ever.
Fair ==
    /\ WF_vars(Tick) /\ WF_vars(\E a \in attempts : TimesOut(a))
    /\ \A r \in Replicas :
          /\ WF_vars(Start(r) \/ Shutdown(r) \/ Exit(r))
          /\ WF_vars(Acquire(r) \/ Renew(r)) /\ WF_vars(NotifyElected(r))
          /\ WF_vars(Clear(r) \/ SetLabel(r))

FairSpec == Spec /\ Fair

-----------------------------------------------------------------------------
TypeOK ==
    /\ lease \in [holder : 0..MaxProcs, left : 0..LeaseTime]
    /\ rep \in [Replicas ->
          [up : BOOLEAN, proc : 0..MaxProcs,
           at : {"clearing", "waiting", "serving"}, lead : BOOLEAN,
           armed : BOOLEAN, age : 0..MaxHold, quiet : 0..RenewTime,
           known : [Providers -> {0} \cup Timeouts], admits : BOOLEAN,
           flight : [Providers -> {0} \cup Timeouts], due : 0..ClaimTimeout,
           closing : {"no", "server", "closed"}]]
    /\ label \in [Replicas -> BOOLEAN]
    /\ attempts \subseteq [by : 1..MaxProcs, span : 1..ClaimTimeout, left : 1..MaxHold,
                           open : BOOLEAN]
    /\ procs \in 0..MaxProcs

\* binder.go:48-53, "any server-side create sent by the deposed leader has finished or
\* timed out on the remote API before the new leader accepts claims": whoever led
\* before and however that ended, while a leader accepts placement requests no
\* creation of another process may still take effect, unless it was given more time
\* than the longest attempt the leader knows of: one at a provider this leader has not
\* heard of, or sent before its timeout was shortened.
NoOverlap ==
    \A r \in Replicas : Serves(r) =>
        \A a \in attempts : a.by = rep[r].proc \/ a.span > LongestKnown(r)

\* label.go:54-66: the Service selects no replica that does not lead, although
\* labels outlive processes, and whichever patches failed.
OnlyLeaderSelected == TypeOK /\
    \A r \in Replicas : Ready(r) /\ label[r] => rep[r].lead

\* label.go:58-80, main.go:183-197: once processes no longer fail, one of them leads,
\* carries the label and is past its hold-off, and that for good.
Served == <>[](\E r \in Replicas : Ready(r) /\ label[r] /\ Serves(r))

=============================================================================
