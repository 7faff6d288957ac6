------------------------------ MODULE MCQueue ------------------------------
(* Instances of Queue for TLC.                                              *)
EXTENDS Queue, TLC

CONSTANTS u1, u2, m1

Sub(priority, params, idx, reuse) ==
    [request |-> [model |-> m1, priority |-> priority, params |-> params],
     idx |-> idx, reuse_active |-> reuse]

(* A two-unit corpus, a second submission of the same corpus, and one that   *)
(* shares a unit with it at another idx and a higher priority.               *)
MCSubmissions(reuse) ==
    {Sub(0, 0, (u1 :> 0) @@ (u2 :> 1), reuse), Sub(1, 1, u2 :> 0, reuse)}

MCSubmitAny == MCSubmissions(FALSE)
MCSubmitBoth == MCSubmissions(FALSE) \cup MCSubmissions(TRUE)

MCJobs2 == 1..2
MCJobs3 == 1..3

(* The agents that the tables name; a unit is retried or two agents work on  *)
(* the units, not both.                                                      *)
AgentsSeen ==
    ({work_units[u].lease_agent : u \in {v \in Units : work_units[v] # NULL}}
     \cup {backup_leases[u] : u \in Units}
     \cup {unit_results[u].agent : u \in {v \in Units : unit_results[v] # NULL}}) \ {NULL}

RetriedOrRaced ==
    Cardinality(AgentsSeen) > 1 =>
        \A u \in Units : work_units[u] # NULL => work_units[u].attempts <= 1

AgentSymmetry == Permutations(Agents)
=============================================================================
