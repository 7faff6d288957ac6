---------------------------- MODULE MCBatchWork ----------------------------
(* Small instances of BatchWork: one unit, submitted again and again.        *)
EXTENDS BatchWork, TLC

CONSTANTS u1, m1

MCSubmitAdmin ==
    {[request |-> [model |-> m1, priority |-> 0, params |-> 0],
      idx |-> [u \in {u1} |-> 0], reuse_active |-> FALSE]}

MCJobs2 == {1, 2}

(* A request that nobody waits for any more races every lease of the first   *)
(* job, and the first one of the second job.                                 *)
OrphanOrSecond ==
    Orphans # {} /\ jobs[2] # NULL => \A u \in Units : work_units[u].attempts <= 1 /\ backup_leases[u] = NULL

AgentSymmetry == Permutations(Agents)

=============================================================================
