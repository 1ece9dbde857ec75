----------------------------- MODULE MCSchedule ------------------------------
(***************************************************************************)
(* Small instances of Schedule.                                            *)
(***************************************************************************)
EXTENDS Schedule, TLC

CONSTANTS r1, r2

TwoRequests    == {r1, r2}
ThreeProviders == 1..3
Symmetry       == Permutations(TwoRequests)

Kind(c, e, score, a, t, up) ==
    [cost |-> c, elastic |-> e, elasticScore |-> score, attr |-> a,
     templates |-> t, reachable |-> up]

Cheap   == Kind(1, FALSE, 0, "", {"t"}, TRUE)
Gpu     == Kind(3, FALSE, 0, "gpu", {"t"}, TRUE)
Hosted  == Kind(3, TRUE, 0, "", {}, TRUE)
Unloved == Kind(2, TRUE, -1, "", {"t"}, TRUE)
Down    == Kind(1, FALSE, 0, "gpu", {"t"}, FALSE)

MCFleets == {<<Cheap, Cheap, Cheap>>, <<Cheap, Hosted, Gpu>>, <<Hosted, Down, Cheap>>,
             <<Gpu, Unloved, Cheap>>}

Policy(n, prio, sel, needs, fs, ws) ==
    [name |-> n, priority |-> prio, selects |-> sel, requires |-> needs,
     filters |-> fs, weights |-> ws]

MCDefault == Policy(9, 0, {}, "", {"RequiredAttributes"},
                    [WarmCapacity |-> 5, Cost |-> 3, Reachability |-> 3, Affinity |-> 1])

\* Two of the same priority; one that has a requirement and no filter for it; one that
\* would prefer what costs most.
MCPolicies ==
    {Policy(1, 1, {"a"}, "gpu", {"RequiredAttributes"},
            [WarmCapacity |-> 5, Cost |-> 3, Reachability |-> 3, Affinity |-> 1]),
     Policy(2, 1, {"a", "b"}, "", {"Reachable"}, [Cost |-> 0]),
     Policy(3, 2, {"c"}, "gpu", {}, [Cost |-> 1]),
     Policy(4, 2, {"d"}, "", {}, [Cost |-> -1])}

Ask(l, r, t, w, p) == [label |-> l, requires |-> r, template |-> t, warmOnly |-> w,
                       prefer |-> p]
MCAsks == {Ask("z", "", "t", FALSE, 0), Ask("a", "tpu", "", TRUE, 3),
           Ask("b", "", "", FALSE, 0), Ask("c", "", "", FALSE, 0),
           Ask("d", "", "", FALSE, 0)}
=============================================================================
