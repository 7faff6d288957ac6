---------------------------- MODULE QueueProofs ----------------------------
(* Proofs, for every value of the constants, of what Queue's runs check on  *)
(* small instances.                                                         *)
EXTENDS Queue, TLAPS

(* Zenon proves what does not ask for the arithmetic of SMT.                *)
USE ZenonT(60)

(* The inductive invariant is IInv.  AttemptsAhead is the strengthening     *)
(* that makes the others inductive: a claim moves to an attempt that has no *)
(* payload, and a new job starts without memberships.                       *)

(* Recomputing job states keeps the jobs table well formed and neither      *)
(* inserts nor deletes a job.                                               *)
LEMMA RecomputeJobs ==
    ASSUME NEW js \in [Jobs -> Optional(JobRow)], NEW affected, NEW rows, NEW ms
    PROVE  LET new == _recompute_job_state(js, affected, rows, ms)
           IN  /\ new \in [Jobs -> Optional(JobRow)]
               /\ \A j \in Jobs : new[j] = NULL <=> js[j] = NULL
<1> DEFINE new == _recompute_job_state(js, affected, rows, ms)
<1>1. \A states : next_job_state(states) \in {"pending", "running", "done"}
  BY DEF next_job_state
<1>2. \A j \in Jobs : js[j] # NULL =>
        [js[j] EXCEPT !.state = next_job_state(_unit_states(rows, ms, j))] \in JobRow
  BY <1>1 DEF JobRow, Optional
<1>3. \A j \in Jobs : new[j] = IF j \in affected /\ js[j] # NULL
        THEN [js[j] EXCEPT !.state = next_job_state(_unit_states(rows, ms, j))] ELSE js[j]
  BY DEF _recompute_job_state
<1>4. \A j \in Jobs : new[j] \in Optional(JobRow) /\ (new[j] = NULL <=> js[j] = NULL)
  BY <1>2, <1>3, NullAssumption DEF Optional
<1>5. new \in [Jobs -> Optional(JobRow)]
  BY <1>4 DEF _recompute_job_state
<1> QED BY <1>4, <1>5

(* The empty tables satisfy the invariant.                                  *)
LEMMA InitIInv == Init => IInv
<1> SUFFICES ASSUME Init PROVE IInv
  OBVIOUS
<1> USE DEF Init
<1>1. TypeOK
  BY DEF TypeOK, Optional
<1>2. ResultsAreBound /\ DoneHasResult
  BY DEF ResultsAreBound, DoneHasResult, UnitIn
<1>3. OwnerSettled /\ OutcomesComplete
  BY DEF OwnerSettled, OutcomesComplete
<1>4. CurrentAttemptBinding
  BY MaxAttemptsAssumption, SMT DEF CurrentAttemptBinding, UnitIn, Attempts, _backup_attempt
<1>5. AttemptsAhead
  BY DEF AttemptsAhead
<1> QED BY <1>1, <1>2, <1>3, <1>4, <1>5 DEF IInv
-----------------------------------------------------------------------------
(* The clock and extend_leases touch no table of the invariant.             *)
LEMMA ClockPreserves ==
    ASSUME IInv, expired' \in SUBSET Units,
           UNCHANGED <<jobs, work_units, unit_results, bindings, memberships, backup_leases>>
    PROVE  IInv'
<1> USE DEF IInv
<1>1. TypeOK'
  BY DEF TypeOK
<1>2. (ResultsAreBound /\ DoneHasResult /\ OwnerSettled)'
  BY DEF ResultsAreBound, DoneHasResult, OwnerSettled, UnitIn, Binds
<1>3. (OutcomesComplete /\ CurrentAttemptBinding /\ AttemptsAhead)'
  BY DEF OutcomesComplete, CurrentAttemptBinding, AttemptsAhead, UnitIn
<1> QED BY <1>1, <1>2, <1>3

(* A backup is granted only where none is recorded, so the reserved attempt *)
(* has no payload yet.                                                      *)
LEMMA LeaseBackupPreserves ==
    ASSUME IInv, NEW a \in Agents, NEW u \in Units, lease_backup(a, u)
    PROVE  IInv'
<1> USE DEF IInv, lease_backup
<1>1. TypeOK'
  BY DEF TypeOK, Optional
<1>2. (ResultsAreBound /\ DoneHasResult /\ OwnerSettled)'
  BY DEF ResultsAreBound, DoneHasResult, OwnerSettled, UnitIn, Binds
<1>3. (OutcomesComplete /\ AttemptsAhead)'
  BY DEF OutcomesComplete, AttemptsAhead
<1>4. _backup_attempt \in Attempts
  BY MaxAttemptsAssumption, SMT DEF _backup_attempt, Attempts
<1>5. bindings[u][_backup_attempt] = NULL
  <2>1. bindings[u][_backup_attempt] # NULL => bindings[u][_backup_attempt].agent \in Agents
    BY <1>4, SMT DEF TypeOK, Optional, BindingRow
  <2> QED BY <2>1, NullAssumption DEF CurrentAttemptBinding
<1>6. CurrentAttemptBinding'
  BY <1>5 DEF CurrentAttemptBinding, UnitIn, TypeOK
<1> QED BY <1>1, <1>2, <1>3, <1>6

(* A payload is bound under the attempt of the lease or of the backup, and  *)
(* only into an empty slot.                                                 *)
LEMMA BindPreserves ==
    ASSUME IInv, NEW a \in Agents, NEW u \in Units, NEW k \in Attempts, NEW ref \in Refs,
           bind_result_payload(a, u, k, ref)
    PROVE  IInv'
<1> USE DEF IInv, bind_result_payload, MayBind
<1> DEFINE b == [agent |-> a, ref |-> ref]
<1>1. b \in BindingRow /\ b # NULL
  BY NullAssumption, SMT DEF BindingRow
<1>2. /\ \A v \in Units, i \in Attempts :
            bindings'[v][i] = IF v = u /\ i = k THEN b ELSE bindings[v][i]
      /\ bindings' \in [Units -> [Attempts -> Optional(BindingRow)]]
  BY <1>1 DEF TypeOK, Optional
<1>3. TypeOK'
  BY <1>2 DEF TypeOK
<1>4. (DoneHasResult /\ OwnerSettled /\ OutcomesComplete)'
  BY DEF DoneHasResult, OwnerSettled, OutcomesComplete, UnitIn
<1>5. ResultsAreBound'
  BY <1>1, <1>2, SMT DEF ResultsAreBound, Binds
<1>6. k = _backup_attempt \/ (LeasedTo(u, a) /\ work_units[u].attempts = k)
  OBVIOUS
<1>7. AttemptsAhead'
  <2>1. \A i \in Attempts : work_units[u].attempts < i /\ i <= MaxAttempts
                                /\ UnitIn(u, {"pending", "leased"}) => i # k
    BY <1>6, MaxAttemptsAssumption
   , SMT DEF TypeOK, UnitRow, Optional, _backup_attempt, LeasedTo, UnitIn, Attempts
  <2>2. \A v \in Units : work_units[v] # NULL /\ work_units[v].state \in {"pending", "leased"} =>
          \A i \in Attempts : work_units[v].attempts < i /\ i <= MaxAttempts
                                 => bindings'[v][i] = NULL
    BY <1>2, <2>1, SMT DEF AttemptsAhead, UnitIn
  <2> QED BY <2>2 DEF AttemptsAhead
<1>8. CurrentAttemptBinding'
  <2>1. _backup_attempt \in Attempts
    BY MaxAttemptsAssumption, SMT DEF _backup_attempt, Attempts
  <2>2. \A v \in Units : UnitIn(v, {"leased"}) =>
            work_units[v].attempts \in Attempts /\ work_units[v].attempts # _backup_attempt
    BY MaxAttemptsAssumption
   , SMT DEF AttemptsAhead, TypeOK, UnitRow, Optional, _backup_attempt, Attempts, UnitIn
  <2>3. k = _backup_attempt => backup_leases[u] = a
    BY <2>2 DEF LeasedTo
  <2>4. k # _backup_attempt => LeasedTo(u, a) /\ work_units[u].attempts = k
    BY <1>6
  <2> QED BY <1>1, <1>2, <2>1, <2>2, <2>3, <2>4
         , SMT DEF CurrentAttemptBinding, LeasedTo, UnitIn
<1> QED BY <1>3, <1>4, <1>5, <1>7, <1>8

(* A claim takes a pending unit to its next attempt, which AttemptsAhead    *)
(* says is within the budget and has no payload.                            *)
LEMMA LeaseNextPreserves ==
    ASSUME IInv, NEW a \in Agents, NEW models \in SUBSET Models, lease_next(a, models)
    PROVE  IInv'
<1> USE DEF IInv
<1>1. PICK u \in _select_candidate(models) :
        LET rows == [work_units EXCEPT ![u].state = "leased", ![u].attempts = @ + 1,
                                       ![u].lease_agent = a]
        IN  /\ work_units' = rows
            /\ jobs' = _recompute_job_state(jobs, {work_units[u].job}, rows, memberships)
            /\ UNCHANGED <<expired, unit_results, bindings, memberships, backup_leases>>
  BY DEF lease_next, ClaimUnit
<1>2. u \in Units /\ work_units[u] # NULL /\ work_units[u].state = "pending"
  BY <1>1 DEF _select_candidate, Runnable, UnitIn
<1>3. /\ work_units[u] \in UnitRow
      /\ work_units[u].attempts \in 0..MaxAttempts
      /\ work_units[u].attempts < MaxAttempts
  BY <1>2, SMT DEF TypeOK, Optional, AttemptsAhead, UnitRow
<1> DEFINE row == [work_units[u] EXCEPT !.state = "leased", !.attempts = @ + 1,
                                        !.lease_agent = a]
<1>4. /\ row \in UnitRow
      /\ row.state = "leased"
      /\ row.attempts = work_units[u].attempts + 1
      /\ row.attempts \in 1..MaxAttempts
      /\ row.lease_agent = a
      /\ row.job = work_units[u].job
  <2>1. work_units[u].attempts + 1 \in 1..MaxAttempts
    BY <1>3, MaxAttemptsAssumption, SMT
  <2>2. /\ row.state = "leased"
        /\ row.attempts = work_units[u].attempts + 1
        /\ row.lease_agent = a
        /\ row.job = work_units[u].job
    BY <1>3 DEF UnitRow
  <2>3. work_units[u].attempts + 1 \in 0..MaxAttempts
    BY <2>1, MaxAttemptsAssumption, SMT
  <2>4. row \in UnitRow
    BY <1>3, <2>3 DEF UnitRow, UnitStates
  <2> QED BY <2>1, <2>2, <2>4
<1>5. /\ \A v \in Units : work_units'[v] = IF v = u THEN row ELSE work_units[v]
      /\ work_units' \in [Units -> Optional(UnitRow)]
  BY <1>1, <1>2, <1>4 DEF TypeOK, Optional
<1> HIDE DEF row
<1>6. row # NULL
  BY <1>4, NullAssumption
<1>7. jobs' \in [Jobs -> Optional(JobRow)] /\ \A j \in Jobs : jobs'[j] = NULL <=> jobs[j] = NULL
  BY <1>1, RecomputeJobs, SMT DEF TypeOK
<1>8. TypeOK'
  BY <1>1, <1>5, <1>7 DEF TypeOK
<1>9. (ResultsAreBound /\ OutcomesComplete)'
  BY <1>1 DEF ResultsAreBound, OutcomesComplete, Binds
<1>10. DoneHasResult'
  BY <1>1, <1>2, <1>4, <1>5 DEF DoneHasResult, UnitIn
<1>11. OwnerSettled'
  BY <1>1, <1>2, <1>4, <1>5, SMT DEF OwnerSettled
<1>12. AttemptsAhead'
  <2>1. ASSUME NEW v \in Units, work_units'[v] # NULL
        PROVE  /\ jobs'[work_units'[v].job] # NULL
               /\ work_units'[v].state = "pending" => work_units'[v].attempts < MaxAttempts
               /\ work_units'[v].state = "leased" => /\ work_units'[v].attempts >= 1
                                                     /\ work_units'[v].lease_agent \in Agents
               /\ work_units'[v].state \in {"pending", "leased"} =>
                     \A k \in Attempts : work_units'[v].attempts < k /\ k <= MaxAttempts
                                            => bindings'[v][k] = NULL
    <3>1. CASE v = u
      <4>1. work_units[u].job \in Jobs
        BY <1>3 DEF UnitRow
      <4>2. jobs'[row.job] # NULL
        BY <1>2, <1>4, <1>7, <4>1 DEF AttemptsAhead
      <4>3. \A k \in Attempts : row.attempts < k /\ k <= MaxAttempts => bindings[u][k] = NULL
        BY <1>2, <1>3, <1>4, MaxAttemptsAssumption, SMT DEF AttemptsAhead, Attempts
      <4> QED BY <1>1, <1>4, <1>5, <3>1, <4>2, <4>3, SMT
    <3>2. CASE v # u
      <4>1. work_units'[v] = work_units[v] /\ work_units[v].job \in Jobs
        BY <1>5, <2>1, <3>2 DEF TypeOK, Optional, UnitRow
      <4> QED BY <1>1, <1>7, <2>1, <4>1 DEF AttemptsAhead
    <3> QED BY <3>1, <3>2
  <2>2. \A j \in Jobs : jobs'[j] = NULL => \A v \in Units : memberships'[j][v] = NULL
    BY <1>1, <1>7 DEF AttemptsAhead
  <2> QED BY <2>1, <2>2 DEF AttemptsAhead
<1>13. CurrentAttemptBinding'
  <2>1. bindings[u][row.attempts] = NULL
    BY <1>2, <1>3, <1>4, MaxAttemptsAssumption, SMT DEF AttemptsAhead, Attempts
  <2> QED BY <1>1, <1>2, <1>4, <1>5, <2>1 DEF CurrentAttemptBinding, UnitIn
<1> QED BY <1>8, <1>9, <1>10, <1>11, <1>12, <1>13

(* A completion settles the row, the result and the owner's membership      *)
(* together, from a lease or a backup whose payload is bound.               *)
LEMMA CompletePreserves ==
    ASSUME IInv, NEW a \in Agents, NEW u \in Units, NEW k \in Attempts, NEW r \in Results,
           complete_unit(a, k, u, r.status, r.ref)
    PROVE  IInv'
<1> USE DEF IInv
<1> DEFINE j == work_units[u].job
           row == [work_units[u] EXCEPT !.state = "done"]
           res == [status |-> r.status, ref |-> r.ref, agent |-> a]
           out == Settled("done", r.status, IF r.status = "succeeded" THEN r.ref ELSE NULL)
           ms == MarkJobUnitTerminal(memberships, j, u, out)
<1>1. /\ work_units[u] # NULL
      /\ unit_results[u] = NULL
      /\ r.status = "succeeded" => Binds(u, k, a, r.ref)
      /\ unit_results' = [unit_results EXCEPT ![u] = res]
      /\ work_units' = [work_units EXCEPT ![u].state = "done"]
      /\ memberships' = ms
      /\ jobs' = _recompute_job_state(jobs, {j}, [work_units EXCEPT ![u].state = "done"], ms)
      /\ expired' = expired \ {u}
      /\ UNCHANGED <<bindings, backup_leases>>
  BY DEF complete_unit, CompletionApplies, _result_binding_accepted
<1>2. work_units[u].state \in {"leased", "pending"}
  BY DEF complete_unit, CompletionApplies, _completion_accepted, _backup_role, LeasedTo, UnitIn
<1>3. work_units[u] \in UnitRow /\ j \in Jobs
  BY <1>1, SMT DEF TypeOK, Optional, UnitRow
<1>4. /\ row \in UnitRow
      /\ row # NULL
      /\ row.state = "done"
      /\ row.job = j
  BY <1>3, NullAssumption DEF UnitRow, UnitStates
<1>5. /\ \A v \in Units : work_units'[v] = IF v = u THEN row ELSE work_units[v]
      /\ work_units' \in [Units -> Optional(UnitRow)]
  BY <1>1, <1>4 DEF TypeOK, Optional
<1>6. /\ r.status \in Statuses
      /\ r.status = "succeeded" => r.ref \in Refs
      /\ r.ref \in Refs \cup {NULL}
  BY DEF Results, Statuses
<1>7. /\ res \in ResultRow
      /\ res # NULL
      /\ res.status = r.status
      /\ res.ref = r.ref
      /\ res.agent = a
  BY <1>6, NullAssumption, SMT DEF ResultRow
<1>8. /\ \A v \in Units : unit_results'[v] = IF v = u THEN res ELSE unit_results[v]
      /\ unit_results' \in [Units -> Optional(ResultRow)]
  BY <1>1, <1>7 DEF TypeOK, Optional
<1>9. memberships[j][u] = Unsettled /\ Unsettled # NULL
  <2>1. memberships[j][u] = Unsettled
    BY <1>1, <1>2 DEF OwnerSettled
  <2>2. Unsettled \in MembershipRow
    BY DEF Unsettled, MembershipRow
  <2> QED BY <2>1, <2>2, NullAssumption
<1>10. /\ out \in MembershipRow
       /\ out # NULL
       /\ out.terminal = "done"
       /\ out.status = r.status
       /\ out.ref = IF r.status = "succeeded" THEN r.ref ELSE NULL
  BY <1>6, NullAssumption, SMT DEF Settled, MembershipRow, Terminal
<1> HIDE DEF row, res, out
<1>11. /\ \A i \in Jobs, v \in Units :
             memberships'[i][v] = IF i = j /\ v = u THEN out ELSE memberships[i][v]
       /\ memberships' \in [Jobs -> [Units -> Optional(MembershipRow)]]
  BY <1>1, <1>3, <1>9, <1>10 DEF MarkJobUnitTerminal, TypeOK, Optional
<1>12. jobs' \in [Jobs -> Optional(JobRow)] /\ \A i \in Jobs : jobs'[i] = NULL <=> jobs[i] = NULL
  <2> DEFINE rows == [work_units EXCEPT ![u].state = "done"]
             new == _recompute_job_state(jobs, {j}, rows, ms)
  <2>1. jobs \in [Jobs -> Optional(JobRow)]
    BY DEF TypeOK
  <2>2. new \in [Jobs -> Optional(JobRow)] /\ \A i \in Jobs : new[i] = NULL <=> jobs[i] = NULL
    <3> HIDE DEF rows, ms, j
    <3> QED BY ONLY <2>1, RecomputeJobs, SMT
  <2>3. jobs' = new
    BY <1>1
  <2> HIDE DEF new
  <2> QED BY ONLY <2>2, <2>3
<1>13. TypeOK'
  BY <1>1, <1>5, <1>8, <1>11, <1>12 DEF TypeOK
<1>14. ResultsAreBound'
  BY <1>1, <1>7, <1>8, SMT DEF ResultsAreBound, Binds
<1>15. DoneHasResult'
  BY <1>4, <1>5, <1>7, <1>8 DEF DoneHasResult, UnitIn
<1>16. OwnerSettled'
  <2>1. memberships'[work_units'[u].job][u] =
          Settled("done", unit_results'[u].status,
                  IF unit_results'[u].status = "succeeded" THEN unit_results'[u].ref ELSE NULL)
    BY <1>3, <1>4, <1>5, <1>7, <1>8, <1>11, SMT DEF out
  <2>2. ASSUME NEW v \in Units, v # u, work_units[v] # NULL
        PROVE  /\ work_units'[v] = work_units[v]
               /\ unit_results'[v] = unit_results[v]
               /\ memberships'[work_units[v].job][v] = memberships[work_units[v].job][v]
    BY <1>5, <1>8, <1>11, <2>2, SMT DEF TypeOK, Optional, UnitRow
  <2> QED BY <1>4, <1>5, <2>1, <2>2, SMT DEF OwnerSettled
<1>17. OutcomesComplete'
  <2>1. ASSUME NEW i \in Jobs, NEW v \in Units, memberships'[i][v] # NULL
        PROVE  /\ memberships'[i][v].terminal = "done" <=> memberships'[i][v].status # NULL
               /\ memberships'[i][v].status = "succeeded" <=> memberships'[i][v].ref # NULL
    <3>1. CASE i = j /\ v = u
      BY <1>6, <1>10, <1>11, <3>1, NullAssumption, SMT
    <3>2. CASE ~(i = j /\ v = u)
      BY <1>11, <2>1, <3>2, SMT DEF OutcomesComplete
    <3> QED BY <3>1, <3>2
  <2> QED BY <2>1 DEF OutcomesComplete
<1>18. CurrentAttemptBinding'
  BY <1>1, <1>4, <1>5 DEF CurrentAttemptBinding, UnitIn
<1>19. AttemptsAhead'
  <2>1. \A v \in Units : work_units[v] # NULL =>
            work_units[v].job \in Jobs /\ jobs[work_units[v].job] # NULL
    BY DEF AttemptsAhead, TypeOK, Optional, UnitRow
  <2>2. \A v \in Units : work_units'[v] # NULL => jobs'[work_units'[v].job] # NULL
    <3>1. \A v \in Units : work_units'[v] # NULL =>
              work_units[v] # NULL /\ work_units'[v].job = work_units[v].job
      BY <1>1, <1>4, <1>5
    <3> QED BY <1>12, <2>1, <3>1
  <2>3. \A v \in Units : work_units'[v] # NULL /\ work_units'[v].state # "done"
                            => work_units'[v] = work_units[v]
    BY <1>4, <1>5
  <2>4. \A i \in Jobs : jobs'[i] = NULL => i # j /\ jobs[i] = NULL
    BY <1>1, <1>12, <2>1
  <2>5. \A i \in Jobs : jobs'[i] = NULL => \A v \in Units : memberships'[i][v] = NULL
    BY <1>11, <2>4, SMT DEF AttemptsAhead
  <2> QED BY <1>1, <2>2, <2>3, <2>5 DEF AttemptsAhead
<1> QED BY <1>13, <1>14, <1>15, <1>16, <1>17, <1>18, <1>19

(* A requeue returns leased units to pending within the budget, and settles *)
(* the others as dead in the row and in the owner's membership.             *)
LEMMA RequeuePreserves ==
    ASSUME IInv, NEW us \in SUBSET Units, \A u \in us : UnitIn(u, {"leased"}), _requeue(us)
    PROVE  IInv'
<1> USE DEF IInv
<1> DEFINE dead == {u \in us : ~RetriesLeft(u)}
           row(u) == [work_units[u] EXCEPT !.state = IF u \in dead THEN "dead" ELSE "pending"]
           out == Settled("dead", NULL, NULL)
<1>1. /\ work_units' = [u \in Units |-> IF u \in us THEN row(u) ELSE work_units[u]]
      /\ memberships' = [j \in Jobs |-> [u \in Units |->
             IF u \in dead /\ work_units[u].job = j /\ memberships[j][u] # NULL
             THEN out ELSE memberships[j][u]]]
      /\ expired' = expired \ us
      /\ UNCHANGED <<unit_results, bindings, backup_leases>>
  BY DEF _requeue
<1>2. jobs' \in [Jobs -> Optional(JobRow)] /\ \A j \in Jobs : jobs'[j] = NULL <=> jobs[j] = NULL
  <2>1. jobs' = _recompute_job_state(jobs, {work_units[u].job : u \in us}, work_units', memberships')
    BY DEF _requeue
  <2> QED BY <2>1, RecomputeJobs, SMT DEF TypeOK
<1>3. \A u \in Units : work_units[u] # NULL =>
         /\ work_units[u] \in UnitRow
         /\ work_units[u].job \in Jobs
         /\ jobs[work_units[u].job] # NULL
  BY SMT DEF TypeOK, Optional, UnitRow, AttemptsAhead
<1>4. \A u \in us : u \in Units /\ work_units[u] # NULL /\ work_units[u].state = "leased"
  BY DEF UnitIn
<1>5. \A u \in us : /\ row(u) \in UnitRow
                    /\ row(u) # NULL
                    /\ row(u).state = IF u \in dead THEN "dead" ELSE "pending"
                    /\ row(u).job = work_units[u].job
                    /\ row(u).attempts = work_units[u].attempts
                    /\ row(u).lease_agent = work_units[u].lease_agent
  BY <1>3, <1>4, NullAssumption DEF UnitRow, UnitStates
<1>6. out \in MembershipRow /\ out # NULL /\ out.terminal = "dead" /\ out.status = NULL /\ out.ref = NULL
  BY NullAssumption, SMT DEF Settled, MembershipRow, Terminal
<1> HIDE DEF row, out
<1>7. /\ \A u \in Units : work_units'[u] = IF u \in us THEN row(u) ELSE work_units[u]
      /\ work_units' \in [Units -> Optional(UnitRow)]
  BY <1>1, <1>5 DEF TypeOK, Optional
<1>8. \A u \in dead : memberships[work_units[u].job][u] # NULL
  <2>1. Unsettled \in MembershipRow
    BY DEF Unsettled, MembershipRow
  <2> QED BY <1>4, <2>1, NullAssumption DEF OwnerSettled
<1>9. /\ \A j \in Jobs, u \in Units : memberships'[j][u] =
             IF u \in dead /\ work_units[u].job = j THEN out ELSE memberships[j][u]
      /\ memberships' \in [Jobs -> [Units -> Optional(MembershipRow)]]
  BY <1>1, <1>6, <1>8 DEF TypeOK, Optional
<1>10. TypeOK'
  BY <1>1, <1>2, <1>7, <1>9 DEF TypeOK
<1>11. ResultsAreBound'
  BY <1>1 DEF ResultsAreBound, Binds
<1>12. DoneHasResult'
  BY <1>1, <1>4, <1>5, <1>7 DEF DoneHasResult, UnitIn
<1>13. OwnerSettled'
  <2>1. ASSUME NEW u \in us
        PROVE  memberships'[work_units'[u].job][u] = IF u \in dead THEN out ELSE Unsettled
    <3>1. work_units'[u].job = work_units[u].job /\ work_units[u].job \in Jobs
      BY <1>3, <1>4, <1>5, <1>7
    <3>2. memberships[work_units[u].job][u] = Unsettled
      BY <1>4 DEF OwnerSettled
    <3> QED BY <1>4, <1>9, <3>1, <3>2, SMT
  <2>2. ASSUME NEW u \in Units, u \notin us, work_units[u] # NULL
        PROVE  /\ work_units'[u] = work_units[u]
               /\ memberships'[work_units'[u].job][u] = memberships[work_units[u].job][u]
    BY <1>3, <1>7, <1>9, <2>2
  <2>3. \A u \in us : work_units'[u] # NULL
                      /\ work_units'[u].state = IF u \in dead THEN "dead" ELSE "pending"
    BY <1>4, <1>5, <1>7
  <2>4. \A u \in Units : u \notin us => work_units'[u] = work_units[u]
    BY <1>7
  <2> QED BY <1>1, <2>1, <2>2, <2>3, <2>4 DEF OwnerSettled, out
<1>14. OutcomesComplete'
  <2>1. ASSUME NEW j \in Jobs, NEW u \in Units, memberships'[j][u] # NULL
        PROVE  /\ memberships'[j][u].terminal = "done" <=> memberships'[j][u].status # NULL
               /\ memberships'[j][u].status = "succeeded" <=> memberships'[j][u].ref # NULL
    <3>1. CASE u \in dead /\ work_units[u].job = j
      BY <1>6, <1>9, <3>1, NullAssumption DEF Statuses
    <3>2. CASE ~(u \in dead /\ work_units[u].job = j)
      BY <1>9, <2>1, <3>2, SMT DEF OutcomesComplete
    <3> QED BY <3>1, <3>2
  <2> QED BY <2>1 DEF OutcomesComplete
<1>15. CurrentAttemptBinding'
  <2>1. \A u \in Units : UnitIn(u, {"leased"})' => UnitIn(u, {"leased"}) /\ work_units'[u] = work_units[u]
    BY <1>5, <1>7 DEF UnitIn
  <2> QED BY <1>1, <2>1 DEF CurrentAttemptBinding
<1>16. AttemptsAhead'
  <2>1. ASSUME NEW u \in Units, work_units'[u] # NULL
        PROVE  /\ work_units[u] # NULL
               /\ work_units'[u].job = work_units[u].job
               /\ work_units'[u].attempts = work_units[u].attempts
               /\ work_units'[u].lease_agent = work_units[u].lease_agent
               /\ u \notin us => work_units'[u].state = work_units[u].state
               /\ u \in us => /\ work_units[u].state = "leased"
                              /\ work_units'[u].state \in {"pending", "dead"}
                              /\ work_units'[u].state = "pending"
                                    => work_units[u].attempts < MaxAttempts
    <3>1. CASE u \in us
      <4>1. work_units[u].attempts \in 0..MaxAttempts
        BY <1>3, <1>4, <3>1 DEF UnitRow
      <4> QED BY <1>4, <1>5, <1>7, <3>1, <4>1, MaxAttemptsAssumption DEF RetriesLeft
    <3>2. CASE u \notin us
      BY <1>7, <2>1, <3>2
    <3> QED BY <3>1, <3>2
  <2>2. \A u \in Units : work_units'[u] # NULL => jobs'[work_units'[u].job] # NULL
    BY <1>2, <1>3, <2>1, SMT
  <2>3. \A j \in Jobs : jobs'[j] = NULL => \A u \in Units : memberships'[j][u] = NULL
    <3>1. ASSUME NEW j \in Jobs, jobs'[j] = NULL, NEW u \in Units
          PROVE  memberships'[j][u] = NULL
      <4>1. jobs[j] = NULL
        BY <1>2, <3>1
      <4>2. ~(u \in dead /\ work_units[u].job = j)
        BY <1>3, <1>4, <4>1
      <4> QED BY <1>9, <4>1, <4>2, SMT DEF AttemptsAhead
    <3> QED BY <3>1
  <2> QED BY <1>1, <2>1, <2>2, <2>3, SMT DEF AttemptsAhead
<1> QED BY <1>10, <1>11, <1>12, <1>13, <1>14, <1>15, <1>16

(* The owner of a terminal row already has its outcome, so the snapshot     *)
(* statement of submit_job finds nothing to write.                          *)
LEMMA SnapshotUnchanged ==
    ASSUME IInv, NEW us
    PROVE  SnapshotTerminalOwner(us) = memberships
<1> USE DEF IInv
<1>1. ASSUME NEW j \in Jobs, NEW u \in Units, UnitIn(u, Terminal), work_units[u].job = j
      PROVE  memberships[j][u] # NULL /\ memberships[j][u].terminal # NULL
  <2>1. work_units[u] # NULL /\ work_units[u].state \in {"done", "dead"}
    BY <1>1 DEF UnitIn, Terminal
  <2>2. CASE work_units[u].state = "done"
    <3>1. unit_results[u] \in ResultRow
      BY <2>1, <2>2 DEF DoneHasResult, UnitIn, TypeOK, Optional
    <3> DEFINE ref == IF unit_results[u].status = "succeeded" THEN unit_results[u].ref ELSE NULL
    <3>2. memberships[j][u] = Settled("done", unit_results[u].status, ref)
      BY <1>1, <2>1, <2>2 DEF OwnerSettled
    <3>3. ref \in Refs \cup {NULL}
      BY <3>1 DEF ResultRow
    <3> HIDE DEF ref
    <3>4. memberships[j][u] \in MembershipRow /\ memberships[j][u].terminal = "done"
      BY <3>1, <3>2, <3>3, SMT DEF Settled, MembershipRow, ResultRow, Terminal
    <3> QED BY <3>4, NullAssumption DEF Terminal
  <2>3. CASE work_units[u].state = "dead"
    <3>1. memberships[j][u] = Settled("dead", NULL, NULL)
      BY <1>1, <2>1, <2>3 DEF OwnerSettled
    <3>2. memberships[j][u] \in MembershipRow /\ memberships[j][u].terminal = "dead"
      BY <3>1, SMT DEF Settled, MembershipRow, Terminal
    <3> QED BY <3>2, NullAssumption DEF Terminal
  <2> QED BY <2>1, <2>2, <2>3
<1>2. \A j \in Jobs, u \in Units :
         ~(/\ u \in us /\ UnitIn(u, Terminal) /\ work_units[u].job = j
           /\ (memberships[j][u] = NULL \/ memberships[j][u].terminal = NULL))
  BY <1>1
<1>3. SnapshotTerminalOwner(us) = [j \in Jobs |-> [u \in Units |-> memberships[j][u]]]
  BY <1>2 DEF SnapshotTerminalOwner
<1> QED BY <1>3, SMT DEF TypeOK

(* The units a submission finds done are those with a succeeded result, and *)
(* each has its payload reference.                                          *)
LEMMA AcceptedRefs ==
    ASSUME IInv, NEW u \in Units
    PROVE  /\ AcceptedRef(u) # NULL <=>
                 unit_results[u] # NULL /\ unit_results[u].status = "succeeded"
           /\ AcceptedRef(u) # NULL =>
                 AcceptedRef(u) = unit_results[u].ref /\ AcceptedRef(u) \in Refs
<1> USE DEF IInv
<1>1. ASSUME unit_results[u] # NULL, unit_results[u].status = "succeeded"
      PROVE  AcceptedRef(u) = unit_results[u].ref /\ unit_results[u].ref \in Refs
  <2>1. PICK k \in Attempts : Binds(u, k, unit_results[u].agent, unit_results[u].ref)
    BY <1>1 DEF ResultsAreBound
  <2>2. bindings[u][k] \in BindingRow
    BY <2>1, SMT DEF TypeOK, Optional, Binds
  <2> QED BY <1>1, <2>1, <2>2 DEF AcceptedRef, BindingRow, Binds
<1>2. ~(unit_results[u] # NULL /\ unit_results[u].status = "succeeded") => AcceptedRef(u) = NULL
  BY DEF AcceptedRef
<1> QED BY <1>1, <1>2, NullAssumption

(* A submission takes over the rows of its units.  Units with a succeeded   *)
(* result stay done; the others restart with no result, payload or backup.  *)
LEMMA SubmitPreserves ==
    ASSUME IInv, NEW j \in Jobs, NEW s \in Submissions, submit_job(j, s)
    PROVE  IInv'
<1> USE DEF IInv
<1> DEFINE us == DOMAIN s.idx
           deduped == _succeeded_unit_results(us)
           row(u) == [job |-> j, idx |-> s.idx[u],
                      state |-> IF u \in deduped THEN "done" ELSE "pending",
                      attempts |-> 0, lease_agent |-> NULL]
           out(u) == IF u \in deduped THEN Settled("done", "succeeded", AcceptedRef(u))
                     ELSE IF u \in us THEN Unsettled ELSE NULL
           job == [request |-> s.request, state |-> "pending"]
<1>1. us \subseteq Units /\ s.request \in Requests /\ \A u \in us : s.idx[u] \in Nat
  BY SubmissionsAssumption
<1>2. /\ jobs[j] = NULL
      /\ work_units' = [u \in Units |-> IF u \in us THEN row(u) ELSE work_units[u]]
      /\ memberships' = [SnapshotTerminalOwner(us) EXCEPT ![j] = [u \in Units |-> out(u)]]
      /\ expired' = expired \ us
      /\ bindings' = [u \in Units |-> IF u \in us \ deduped THEN [k \in Attempts |-> NULL]
                                      ELSE bindings[u]]
      /\ unit_results' = [u \in Units |-> IF u \in us \ deduped THEN NULL ELSE unit_results[u]]
      /\ backup_leases' = [u \in Units |-> IF u \in us \ deduped THEN NULL ELSE backup_leases[u]]
      /\ jobs' = _recompute_job_state([jobs EXCEPT ![j] = job], {j}, work_units', memberships')
  BY DEF submit_job
<1>3. /\ jobs' \in [Jobs -> Optional(JobRow)]
      /\ jobs'[j] # NULL
      /\ \A i \in Jobs : i # j => (jobs'[i] = NULL <=> jobs[i] = NULL)
  <2>1. job \in JobRow /\ job # NULL
    BY <1>1, NullAssumption, SMT DEF JobRow
  <2>2. [jobs EXCEPT ![j] = job] \in [Jobs -> Optional(JobRow)]
    BY <2>1 DEF TypeOK, Optional
  <2> HIDE DEF job
  <2> DEFINE js == [jobs EXCEPT ![j] = job]
  <2>3. js[j] # NULL /\ \A i \in Jobs : i # j => js[i] = jobs[i]
    BY <2>1 DEF TypeOK
  <2> HIDE DEF js
  <2>4. jobs' = _recompute_job_state(js, {j}, work_units', memberships')
    BY <1>2 DEF js
  <2>5. js \in [Jobs -> Optional(JobRow)]
    BY <2>2 DEF js
  <2>6. jobs' \in [Jobs -> Optional(JobRow)] /\ \A i \in Jobs : jobs'[i] = NULL <=> js[i] = NULL
    <3>1. PICK new : new = _recompute_job_state(js, {j}, work_units', memberships')
      OBVIOUS
    <3>2. new \in [Jobs -> Optional(JobRow)] /\ \A i \in Jobs : new[i] = NULL <=> js[i] = NULL
      BY <2>5, <3>1, RecomputeJobs, SMT
    <3> QED BY <2>4, <3>1, <3>2
  <2> QED BY <2>3, <2>6
<1>4. \A u \in us : /\ row(u) \in UnitRow
                    /\ row(u) # NULL
                    /\ row(u).job = j
                    /\ row(u).attempts = 0
                    /\ row(u).state = IF u \in deduped THEN "done" ELSE "pending"
  BY <1>1, MaxAttemptsAssumption, NullAssumption, SMT DEF UnitRow, UnitStates
<1>5. \A u \in deduped : /\ u \in us
                         /\ unit_results[u] # NULL
                         /\ unit_results[u].status = "succeeded"
                         /\ AcceptedRef(u) = unit_results[u].ref
                         /\ AcceptedRef(u) \in Refs
  BY <1>1, AcceptedRefs DEF _succeeded_unit_results
<1>6. /\ \A u \in deduped : /\ out(u) = Settled("done", "succeeded", unit_results[u].ref)
                            /\ out(u) \in MembershipRow
      /\ \A u \in us \ deduped : out(u) = Unsettled
      /\ \A u \in Units \ us : out(u) = NULL
      /\ Unsettled \in MembershipRow
  BY <1>1, <1>5 DEF Settled, Unsettled, MembershipRow, Statuses, Terminal
<1> HIDE DEF row, out, job, deduped
<1>7. /\ \A u \in Units : work_units'[u] = IF u \in us THEN row(u) ELSE work_units[u]
      /\ work_units' \in [Units -> Optional(UnitRow)]
  BY <1>2, <1>4 DEF TypeOK, Optional
<1>8. /\ \A i \in Jobs, u \in Units :
            memberships'[i][u] = IF i = j THEN out(u) ELSE memberships[i][u]
      /\ memberships' \in [Jobs -> [Units -> Optional(MembershipRow)]]
  <2>1. memberships' = [memberships EXCEPT ![j] = [u \in Units |-> out(u)]]
    BY <1>2, SnapshotUnchanged
  <2>2. \A u \in Units : out(u) \in Optional(MembershipRow)
    BY <1>1, <1>6 DEF Optional
  <2> QED BY <2>1, <2>2 DEF TypeOK
<1>9. /\ \A u \in Units \ (us \ deduped) : /\ bindings'[u] = bindings[u]
                                           /\ unit_results'[u] = unit_results[u]
                                           /\ backup_leases'[u] = backup_leases[u]
      /\ \A u \in us \ deduped : /\ bindings'[u] = [k \in Attempts |-> NULL]
                                 /\ unit_results'[u] = NULL
                                 /\ backup_leases'[u] = NULL
  BY <1>1, <1>2
<1>10. TypeOK'
  <2>1. /\ bindings' \in [Units -> [Attempts -> Optional(BindingRow)]]
        /\ unit_results' \in [Units -> Optional(ResultRow)]
        /\ backup_leases' \in [Units -> Optional(Agents)]
        /\ expired' \in SUBSET Units
    BY <1>2 DEF TypeOK, Optional
  <2> QED BY <1>3, <1>7, <1>8, <2>1 DEF TypeOK
<1>11. ResultsAreBound'
  BY <1>9, SMT DEF ResultsAreBound, Binds
<1>12. DoneHasResult'
  <2>1. ASSUME NEW u \in us
        PROVE  unit_results'[u] # NULL <=> UnitIn(u, {"done"})'
    BY <1>1, <1>4, <1>5, <1>7, <1>9 DEF UnitIn
  <2>2. ASSUME NEW u \in Units \ us
        PROVE  unit_results'[u] # NULL <=> UnitIn(u, {"done"})'
    BY <1>7, <1>9 DEF UnitIn, DoneHasResult
  <2> QED BY <2>1, <2>2 DEF DoneHasResult
<1>13. \A u \in Units : work_units[u] # NULL =>
          work_units[u].job \in Jobs \ {j} /\ jobs[work_units[u].job] # NULL
  BY <1>2 DEF TypeOK, Optional, UnitRow, AttemptsAhead
<1>14. OwnerSettled'
  <2>1. ASSUME NEW u \in Units \ us, work_units[u] # NULL
        PROVE  /\ work_units'[u] = work_units[u]
               /\ unit_results'[u] = unit_results[u]
               /\ memberships'[work_units[u].job][u] = memberships[work_units[u].job][u]
    BY <1>7, <1>8, <1>9, <1>13, <2>1
  <2>2. \A u \in us : /\ memberships'[work_units'[u].job][u] = out(u)
                      /\ work_units'[u].state = IF u \in deduped THEN "done" ELSE "pending"
    <3> SUFFICES ASSUME NEW u \in us
                 PROVE  /\ memberships'[work_units'[u].job][u] = out(u)
                        /\ work_units'[u].state = IF u \in deduped THEN "done" ELSE "pending"
      OBVIOUS
    <3>1. u \in Units /\ work_units'[u] = row(u)
      BY <1>1, <1>7
    <3>2. memberships'[j][u] = out(u)
      BY <1>8, <3>1
    <3> QED BY <1>4, <3>1, <3>2
  <2>3. \A u \in deduped : /\ unit_results'[u].status = "succeeded"
                           /\ unit_results'[u].ref = unit_results[u].ref
    BY <1>1, <1>5, <1>9
  <2>4. \A u \in Units \ us : work_units'[u] = work_units[u]
    BY <1>7
  <2> SUFFICES ASSUME NEW u \in Units, work_units'[u] # NULL
               PROVE  memberships'[work_units'[u].job][u] =
                        IF work_units'[u].state = "done"
                        THEN Settled("done", unit_results'[u].status,
                                     IF unit_results'[u].status = "succeeded"
                                     THEN unit_results'[u].ref ELSE NULL)
                        ELSE IF work_units'[u].state = "dead" THEN Settled("dead", NULL, NULL)
                        ELSE Unsettled
    BY DEF OwnerSettled
  <2>5. CASE u \in deduped
    BY <1>5, <1>6, <2>2, <2>3, <2>5
  <2>6. CASE u \in us \ deduped
    BY <1>6, <2>2, <2>6
  <2>7. CASE u \in Units \ us
    BY <2>1, <2>4, <2>7, SMT DEF OwnerSettled
  <2> QED BY <2>5, <2>6, <2>7
<1>15. OutcomesComplete'
  <2>1. ASSUME NEW i \in Jobs, NEW u \in Units, memberships'[i][u] # NULL
        PROVE  /\ memberships'[i][u].terminal = "done" <=> memberships'[i][u].status # NULL
               /\ memberships'[i][u].status = "succeeded" <=> memberships'[i][u].ref # NULL
    <3>1. CASE i # j
      BY <1>8, <2>1, <3>1, SMT DEF OutcomesComplete
    <3>2. CASE i = j /\ u \in deduped
      <4>1. PICK o : o = memberships'[i][u] /\ o = Settled("done", "succeeded", unit_results[u].ref)
        BY <1>6, <1>8, <3>2
      <4>2. unit_results[u].ref \in Refs
        BY <1>5, <3>2
      <4>3. o.terminal = "done" /\ o.status = "succeeded" /\ o.ref # NULL /\ o.status # NULL
        BY <4>1, <4>2, NullAssumption, SMT DEF Settled, Statuses
      <4> QED BY <4>1, <4>3
    <3>3. CASE i = j /\ u \in us \ deduped
      <4>1. PICK o : o = memberships'[i][u] /\ o = Unsettled
        BY <1>6, <1>8, <3>3
      <4>2. o.terminal # "done" /\ o.status = NULL /\ o.status # "succeeded" /\ o.ref = NULL
        BY <4>1, NullAssumption, SMT DEF Unsettled, Statuses, Terminal
      <4> QED BY <4>1, <4>2
    <3>4. CASE i = j /\ u \in Units \ us
      BY <1>6, <1>8, <2>1, <3>4
    <3> QED BY <1>5, <3>1, <3>2, <3>3, <3>4
  <2> QED BY <2>1 DEF OutcomesComplete
<1>16. CurrentAttemptBinding'
  <2>1. \A u \in Units : UnitIn(u, {"leased"})' =>
            u \notin us /\ UnitIn(u, {"leased"}) /\ work_units'[u] = work_units[u]
    BY <1>4, <1>7 DEF UnitIn
  <2>2. _backup_attempt \in Attempts
    BY MaxAttemptsAssumption, SMT DEF _backup_attempt, Attempts
  <2>3. \A u \in Units : bindings'[u][_backup_attempt] # NULL =>
            bindings'[u] = bindings[u] /\ backup_leases'[u] = backup_leases[u]
    BY <1>9, <2>2
  <2> QED BY <1>9, <2>1, <2>3, SMT DEF CurrentAttemptBinding
<1>17. AttemptsAhead'
  <2>1. ASSUME NEW u \in us
        PROVE  /\ work_units'[u].state \in {"done", "pending"}
               /\ work_units'[u].attempts = 0
               /\ work_units'[u].job = j
               /\ work_units'[u].state = "pending" => \A k \in Attempts : bindings'[u][k] = NULL
    BY <1>1, <1>4, <1>7, <1>9, SMT
  <2>2. ASSUME NEW u \in Units \ us, work_units'[u] # NULL
        PROVE  /\ work_units'[u] = work_units[u]
               /\ bindings'[u] = bindings[u]
               /\ jobs'[work_units[u].job] # NULL
    BY <1>3, <1>7, <1>9, <1>13, <2>2
  <2>3. \A u \in us : work_units'[u].attempts < MaxAttempts
    BY <2>1, MaxAttemptsAssumption, SMT
  <2>4. \A i \in Jobs : jobs'[i] = NULL => \A u \in Units : memberships'[i][u] = NULL
    BY <1>3, <1>8, SMT DEF AttemptsAhead
  <2>5. ASSUME NEW u \in Units, work_units'[u] # NULL
        PROVE  /\ jobs'[work_units'[u].job] # NULL
               /\ work_units'[u].state = "pending" => work_units'[u].attempts < MaxAttempts
               /\ work_units'[u].state = "leased" => /\ work_units'[u].attempts >= 1
                                                     /\ work_units'[u].lease_agent \in Agents
               /\ work_units'[u].state \in {"pending", "leased"} =>
                     \A k \in Attempts : work_units'[u].attempts < k /\ k <= MaxAttempts
                                             => bindings'[u][k] = NULL
    <3>1. CASE u \in us
      BY <1>3, <2>1, <2>3, <3>1
    <3>2. CASE u \notin us
      BY <2>2, <2>5, <3>2, SMT DEF AttemptsAhead
    <3> QED BY <3>1, <3>2
  <2> QED BY <2>4, <2>5 DEF AttemptsAhead
<1> QED BY <1>10, <1>11, <1>12, <1>14, <1>15, <1>16, <1>17

-----------------------------------------------------------------------------
(* Every mutator of store.py preserves the invariant.                       *)
LEMMA NextIInv == IInv /\ [Next]_vars => IInv'
<1> SUFFICES ASSUME IInv, [Next]_vars PROVE IInv'
  OBVIOUS
<1>1. ASSUME NEW j \in Jobs, NEW s \in Submissions, submit_job(j, s) PROVE IInv'
  BY <1>1, SubmitPreserves
<1>2. ASSUME NEW a \in Agents, NEW models \in SUBSET Models, lease_next(a, models) PROVE IInv'
  BY <1>2, LeaseNextPreserves
<1>3. ASSUME NEW a \in Agents, NEW us \in SUBSET Units, extend_leases(a, us) PROVE IInv'
  BY <1>3, ClockPreserves DEF extend_leases, IInv, TypeOK
<1>4. ASSUME NEW u \in Units, LeaseLapses(u) PROVE IInv'
  BY <1>4, ClockPreserves DEF LeaseLapses, IInv, TypeOK
<1>5. ASSUME NEW a \in Agents, NEW u \in Units, lease_backup(a, u) PROVE IInv'
  BY <1>5, LeaseBackupPreserves
<1>6. ASSUME NEW a \in Agents, NEW u \in Units, NEW k \in Attempts, NEW ref \in Refs,
             bind_result_payload(a, u, k, ref)
      PROVE  IInv'
  BY <1>6, BindPreserves
<1>7. ASSUME NEW a \in Agents, NEW u \in Units, NEW k \in Attempts, NEW r \in Results,
             complete_unit(a, k, u, r.status, r.ref)
      PROVE  IInv'
  BY <1>7, CompletePreserves
<1>8. ASSUME requeue_expired PROVE IInv'
  BY <1>8, RequeuePreserves DEF requeue_expired, IInv, TypeOK
<1>9. ASSUME NEW a \in Agents, requeue_agent(a) PROVE IInv'
  BY <1>9, RequeuePreserves DEF requeue_agent, LeasedTo
<1>10. CASE UNCHANGED vars
  BY <1>10, ClockPreserves DEF vars, IInv, TypeOK
<1> QED BY <1>1, <1>2, <1>3, <1>4, <1>5, <1>6, <1>7, <1>8, <1>9, <1>10 DEF Next

(* The queue's tables stay well formed, and agree with each other on what   *)
(* is done, by whom and with which payload, in every reachable state.       *)
THEOREM QueueInvariant == Spec => []IInv
BY InitIInv, NextIInv, PTL DEF Spec

(* The rows keep their types; in particular attempts never pass the budget. *)
THEOREM QueueTypes == Spec => []TypeOK
BY QueueInvariant, PTL DEF IInv

(* A succeeded result is always backed by a payload binding.                *)
THEOREM BoundResults == Spec => []ResultsAreBound
BY QueueInvariant, PTL DEF IInv

(* A unit row is done exactly while its result is stored.                   *)
THEOREM ResultsOfDoneUnits == Spec => []DoneHasResult
BY QueueInvariant, PTL DEF IInv

(* The owner's membership agrees with the unit row and the stored result.   *)
THEOREM SettledOwners == Spec => []OwnerSettled
BY QueueInvariant, PTL DEF IInv

(* Every outcome ingestion reads is complete.                               *)
THEOREM CompleteOutcomes == Spec => []OutcomesComplete
BY QueueInvariant, PTL DEF IInv

(* The payload of the attempt in progress comes from the holder of its      *)
(* lease, and the reserved attempt is bound by the backup only.             *)
THEOREM AttemptBindings == Spec => []CurrentAttemptBinding
BY QueueInvariant, PTL DEF IInv

-----------------------------------------------------------------------------
(* A job whose state is recomputed while it owns a pending or leased unit   *)
(* is not done.                                                             *)
LEMMA RecomputeLive ==
    ASSUME NEW js \in [Jobs -> Optional(JobRow)], NEW affected, NEW rows, NEW ms,
           NEW j \in Jobs, j \in affected, js[j] # NULL,
           NEW u \in Units, ms[j][u] # NULL, ms[j][u].terminal = NULL,
           rows[u] # NULL, rows[u].job = j, rows[u].state \in {"pending", "leased"}
    PROVE  _recompute_job_state(js, affected, rows, ms)[j].state \in {"pending", "running"}
<1>1. EffectiveState(rows, ms, j, u) \in _unit_states(rows, ms, j)
  BY DEF _unit_states
<1>2. EffectiveState(rows, ms, j, u) \in {"pending", "leased"}
  BY DEF EffectiveState
<1>3. next_job_state(_unit_states(rows, ms, j)) \in {"pending", "running"}
  BY <1>1, <1>2 DEF next_job_state
<1>4. js[j] \in JobRow
  BY DEF Optional
<1>5. [js[j] EXCEPT !.state = next_job_state(_unit_states(rows, ms, j))].state
        = next_job_state(_unit_states(rows, ms, j))
  BY <1>4 DEF JobRow
<1> QED BY <1>3, <1>5 DEF _recompute_job_state

(* The same for a step: if the step recomputes the jobs in affected, and    *)
(* leaves the other jobs and their rows alone, DoneJobOwnsNoLiveUnit holds  *)
(* after it.                                                                *)
LEMMA RecomputeStep ==
    ASSUME IInv, IInv', DoneJobOwnsNoLiveUnit,
           NEW js \in [Jobs -> Optional(JobRow)], NEW affected,
           jobs' = _recompute_job_state(js, affected, work_units', memberships'),
           \A j \in Jobs : j \notin affected => js[j] = jobs[j],
           \A u \in Units : work_units'[u] # NULL /\ work_units'[u].job \notin affected
                                => work_units'[u] = work_units[u]
    PROVE  DoneJobOwnsNoLiveUnit'
<1> SUFFICES ASSUME NEW u \in Units, UnitIn(u, {"pending", "leased"})'
             PROVE  jobs'[work_units'[u].job].state \in {"pending", "running"}
  BY DEF DoneJobOwnsNoLiveUnit
<1> DEFINE j == work_units'[u].job
<1>1. /\ work_units'[u] # NULL
      /\ work_units'[u].state \in {"pending", "leased"}
      /\ j \in Jobs
      /\ jobs'[j] # NULL
      /\ memberships'[j][u] = Unsettled
  <2>1. work_units'[u] # NULL /\ work_units'[u].state \in {"pending", "leased"}
    BY DEF UnitIn
  <2>2. j \in Jobs
    BY <2>1 DEF IInv, TypeOK, Optional, UnitRow
  <2>3. jobs'[j] # NULL
    BY <2>1 DEF IInv, AttemptsAhead
  <2>4. memberships'[j][u] = Unsettled
    BY <2>1 DEF IInv, OwnerSettled
  <2> QED BY <2>1, <2>2, <2>3, <2>4
<1>2. CASE j \in affected
  <2>1. js[j] # NULL
    BY <1>1, RecomputeJobs, SMT
  <2>2. Unsettled # NULL /\ Unsettled.terminal = NULL
    <3>1. Unsettled \in MembershipRow
      BY DEF Unsettled, MembershipRow
    <3> QED BY <3>1, NullAssumption DEF Unsettled
  <2> QED BY <1>1, <1>2, <2>1, <2>2, RecomputeLive
<1>3. CASE j \notin affected
  <2>1. work_units'[u] = work_units[u] /\ jobs'[j] = jobs[j]
    BY <1>1, <1>3 DEF _recompute_job_state
  <2> QED BY <1>1, <2>1 DEF DoneJobOwnsNoLiveUnit, UnitIn
<1> QED BY <1>2, <1>3

(* Every mutator recomputes the state of each job it takes a unit from or   *)
(* gives one to.                                                            *)
LEMMA DoneJobStep ==
    ASSUME IInv, IInv', DoneJobOwnsNoLiveUnit, [Next]_vars
    PROVE  DoneJobOwnsNoLiveUnit'
<1> jobs \in [Jobs -> Optional(JobRow)]
  BY DEF IInv, TypeOK
<1>1. ASSUME NEW j \in Jobs, NEW s \in Submissions, submit_job(j, s)
      PROVE  DoneJobOwnsNoLiveUnit'
  <2> DEFINE js == [jobs EXCEPT ![j] = [request |-> s.request, state |-> "pending"]]
  <2>1. jobs' = _recompute_job_state(js, {j}, work_units', memberships')
    BY <1>1 DEF submit_job
  <2>2. [request |-> s.request, state |-> "pending"] \in JobRow
    BY SubmissionsAssumption DEF JobRow
  <2>3. js \in [Jobs -> Optional(JobRow)] /\ \A i \in Jobs : i \notin {j} => js[i] = jobs[i]
    BY <2>2 DEF Optional
  <2>4. \A u \in Units : work_units'[u] # NULL /\ work_units'[u].job \notin {j}
                             => work_units'[u] = work_units[u]
    BY <1>1 DEF submit_job
  <2> HIDE DEF js
  <2> QED BY <2>1, <2>3, <2>4, RecomputeStep
<1>2. ASSUME NEW a \in Agents, NEW models \in SUBSET Models, lease_next(a, models)
      PROVE  DoneJobOwnsNoLiveUnit'
  <2>1. PICK u \in _select_candidate(models) :
          /\ work_units' = [work_units EXCEPT ![u].state = "leased", ![u].attempts = @ + 1,
                                              ![u].lease_agent = a]
          /\ jobs' = _recompute_job_state(jobs, {work_units[u].job}, work_units', memberships')
    BY <1>2 DEF lease_next, ClaimUnit
  <2>2. u \in Units /\ work_units[u] \in UnitRow
    BY <2>1 DEF _select_candidate, Runnable, UnitIn, IInv, TypeOK, Optional
  <2>3. work_units'[u].job = work_units[u].job /\ \A v \in Units \ {u} : work_units'[v] = work_units[v]
    BY <2>1, <2>2 DEF IInv, TypeOK, UnitRow
  <2>4. \A v \in Units : work_units'[v].job \notin {work_units[u].job} => work_units'[v] = work_units[v]
    BY <2>3
  <2> QED BY <2>1, <2>4, RecomputeStep
<1>3. ASSUME NEW a \in Agents, NEW u \in Units, NEW k \in Attempts, NEW r \in Results,
             complete_unit(a, k, u, r.status, r.ref)
      PROVE  DoneJobOwnsNoLiveUnit'
  <2>1. /\ work_units[u] # NULL
        /\ work_units' = [work_units EXCEPT ![u].state = "done"]
        /\ jobs' = _recompute_job_state(jobs, {work_units[u].job}, work_units', memberships')
    BY <1>3 DEF complete_unit, CompletionApplies
  <2>2. work_units[u] \in UnitRow
    BY <2>1 DEF IInv, TypeOK, Optional
  <2>3. work_units'[u].job = work_units[u].job /\ \A v \in Units \ {u} : work_units'[v] = work_units[v]
    BY <2>1, <2>2 DEF IInv, TypeOK, UnitRow
  <2>4. \A v \in Units : work_units'[v].job \notin {work_units[u].job} => work_units'[v] = work_units[v]
    BY <2>3
  <2> QED BY <2>1, <2>4, RecomputeStep
<1>4. ASSUME NEW us \in SUBSET Units, \A u \in us : UnitIn(u, {"leased"}), _requeue(us)
      PROVE  DoneJobOwnsNoLiveUnit'
  <2> DEFINE affected == {work_units[u].job : u \in us}
  <2>1. /\ \A u \in Units : u \notin us => work_units'[u] = work_units[u]
        /\ \A u \in us : \E st \in UnitStates :
              work_units'[u] = [work_units[u] EXCEPT !.state = st]
        /\ jobs' = _recompute_job_state(jobs, affected, work_units', memberships')
    BY <1>4 DEF _requeue, UnitStates
  <2>2. \A u \in us : work_units[u] \in UnitRow
    BY <1>4 DEF IInv, TypeOK, Optional, UnitIn
  <2>3. \A u \in us : work_units'[u].job = work_units[u].job
    BY <2>1, <2>2 DEF UnitRow
  <2>4. \A u \in Units : work_units'[u].job \notin affected => work_units'[u] = work_units[u]
    BY <2>1, <2>3
  <2> HIDE DEF affected
  <2> QED BY <2>1, <2>4, RecomputeStep
<1>5. ASSUME UNCHANGED <<jobs, work_units>> PROVE DoneJobOwnsNoLiveUnit'
  BY <1>5 DEF DoneJobOwnsNoLiveUnit, UnitIn
<1>6. requeue_expired => DoneJobOwnsNoLiveUnit'
  BY <1>4 DEF requeue_expired, IInv, TypeOK
<1>7. \A a \in Agents : requeue_agent(a) => DoneJobOwnsNoLiveUnit'
  BY <1>4 DEF requeue_agent, LeasedTo
<1> QED BY <1>1, <1>2, <1>3, <1>5, <1>6, <1>7
        DEF Next, vars, extend_leases, LeaseLapses, lease_backup, bind_result_payload

(* No job is reported done while it owns a unit that is pending or leased.  *)
THEOREM DoneJobs == Spec => []DoneJobOwnsNoLiveUnit
<1>1. Init => DoneJobOwnsNoLiveUnit
  BY DEF Init, DoneJobOwnsNoLiveUnit, UnitIn
<1> QED BY <1>1, QueueInvariant, DoneJobStep, PTL DEF Spec

-----------------------------------------------------------------------------
(* A completion or a requeue finds the owner's membership unsettled, and a  *)
(* new job has no membership yet: no step rewrites a recorded outcome.      *)
LEMMA OutcomeStep ==
    ASSUME IInv, [Next]_vars,
           NEW j \in Jobs, NEW u \in Units,
           memberships[j][u] # NULL, memberships[j][u].terminal # NULL
    PROVE  memberships'[j][u] = memberships[j][u]
<1> USE DEF IInv
<1>1. ASSUME NEW v \in Units, UnitIn(v, {"pending", "leased"})
      PROVE  ~(v = u /\ work_units[v].job = j)
  BY <1>1, SMT DEF UnitIn, OwnerSettled, Unsettled
<1>2. ASSUME NEW i \in Jobs, NEW s \in Submissions, submit_job(i, s)
      PROVE  memberships'[j][u] = memberships[j][u]
  <2>1. i # j
    BY <1>2 DEF submit_job, AttemptsAhead
  <2>2. \E f : memberships' = [SnapshotTerminalOwner(DOMAIN s.idx) EXCEPT ![i] = f]
    BY <1>2 DEF submit_job
  <2>3. \E f : memberships' = [memberships EXCEPT ![i] = f]
    BY <2>2, SnapshotUnchanged
  <2> QED BY <2>1, <2>3 DEF TypeOK
<1>3. ASSUME NEW a \in Agents, NEW v \in Units, NEW k \in Attempts, NEW r \in Results,
             complete_unit(a, k, v, r.status, r.ref)
      PROVE  memberships'[j][u] = memberships[j][u]
  <2>1. UnitIn(v, {"pending", "leased"})
    BY <1>3 DEF complete_unit, CompletionApplies, _completion_accepted, _backup_role, LeasedTo, UnitIn
  <2>2. PICK i \in Jobs : i = work_units[v].job
    BY <2>1 DEF TypeOK, Optional, UnitRow, UnitIn
  <2>3. PICK o : memberships' = MarkJobUnitTerminal(memberships, i, v, o)
    BY <1>3, <2>2 DEF complete_unit, CompletionApplies
  <2>4. ~(i = j /\ v = u)
    BY <1>1, <2>1, <2>2
  <2>5. memberships \in [Jobs -> [Units -> Optional(MembershipRow)]]
    BY DEF TypeOK
  <2> HIDE DEF IInv
  <2>6. memberships' = [memberships EXCEPT ![i][v] =
                           IF memberships[i][v] = NULL THEN NULL ELSE o]
    BY <2>3 DEF MarkJobUnitTerminal
  <2> QED BY <2>4, <2>5, <2>6
<1>4. ASSUME NEW us \in SUBSET Units, \A v \in us : UnitIn(v, {"leased"}), _requeue(us)
      PROVE  memberships'[j][u] = memberships[j][u]
  <2>1. \A v \in us : UnitIn(v, {"pending", "leased"})
    BY <1>4 DEF UnitIn
  <2>2. ~(u \in us /\ work_units[u].job = j)
    BY <1>1, <2>1
  <2> QED BY <1>4, <2>2 DEF _requeue
<1>5. requeue_expired => memberships'[j][u] = memberships[j][u]
  BY <1>4 DEF requeue_expired, TypeOK
<1>6. \A a \in Agents : requeue_agent(a) => memberships'[j][u] = memberships[j][u]
  BY <1>4 DEF requeue_agent, LeasedTo
<1> QED BY <1>2, <1>3, <1>5, <1>6
        DEF Next, vars, lease_next, ClaimUnit, extend_leases, LeaseLapses, lease_backup, bind_result_payload

(* The outcome a job recorded for a unit is never changed.                  *)
THEOREM FixedOutcomes == Spec => OutcomeFixed
<1>1. IInv /\ [Next]_vars =>
        [\A j \in Jobs, u \in Units :
            memberships[j][u] # NULL /\ memberships[j][u].terminal # NULL
                => memberships'[j][u] = memberships[j][u]]_vars
  BY OutcomeStep
<1> QED BY <1>1, QueueInvariant, PTL DEF Spec, OutcomeFixed

(* Only submit_job deletes results, and never one whose payload is bound.   *)
LEMMA ResultStep ==
    ASSUME IInv, [Next]_vars,
           NEW u \in Units, unit_results[u] # NULL, unit_results[u].status = "succeeded"
    PROVE  unit_results'[u] = unit_results[u]
<1>1. ASSUME NEW j \in Jobs, NEW s \in Submissions, submit_job(j, s)
      PROVE  unit_results'[u] = unit_results[u]
  <2>1. u \notin DOMAIN s.idx \ _succeeded_unit_results(DOMAIN s.idx)
    BY AcceptedRefs DEF _succeeded_unit_results
  <2> QED BY <1>1, <2>1 DEF submit_job
<1>2. ASSUME NEW a \in Agents, NEW v \in Units, NEW k \in Attempts, NEW r \in Results,
             complete_unit(a, k, v, r.status, r.ref)
      PROVE  unit_results'[u] = unit_results[u]
  BY <1>2 DEF complete_unit, CompletionApplies, IInv, TypeOK
<1> QED BY <1>1, <1>2
        DEF Next, vars, lease_next, ClaimUnit, extend_leases, LeaseLapses, lease_backup,
            bind_result_payload, requeue_expired, requeue_agent, _requeue

(* A succeeded result is never replaced or deleted.                         *)
THEOREM FixedResults == Spec => SucceededResultFixed
<1>1. IInv /\ [Next]_vars =>
        [\A u \in Units :
            unit_results[u] # NULL /\ unit_results[u].status = "succeeded"
                => unit_results'[u] = unit_results[u]]_vars
  BY ResultStep
<1> QED BY <1>1, QueueInvariant, PTL DEF Spec, SucceededResultFixed

=============================================================================
