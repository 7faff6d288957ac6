----------------------------- MODULE MCGateway -----------------------------
(* Small instances of Gateway: two replicas of one model, one of another.    *)
EXTENDS Gateway, TLC

CONSTANTS m1, m2, e1, e2, e3, s1, s2

MCModels == {m1, m2}

MCEndpoints == {e1, e2, e3}

MCModelOf == (e1 :> m1) @@ (e2 :> m1) @@ (e3 :> m2)

MCBodies == {[model |-> m1, session |-> s1, stream |-> TRUE],
             [model |-> m1, session |-> NULL, stream |-> FALSE],
             [model |-> m2, session |-> s1, stream |-> FALSE],
             [model |-> m2, session |-> s2, stream |-> FALSE]}

MCSymmetry == Permutations(Requests)
============================================================================
