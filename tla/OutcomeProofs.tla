--------------------------- MODULE OutcomeProofs ----------------------------
(* The queue implements JobOutcomes, for any jobs, units, agents, payloads  *)
(* and submissions and any number of attempts.                              *)
EXTENDS QueueProofs, TLAPS

(* Zenon proves what does not ask for the arithmetic of SMT.                *)
USE ZenonT(60)

(* A unit of which a job has heard has a row.                               *)
MembersHaveRows ==
    \A j \in Jobs, u \in Units : memberships[j][u] # NULL => work_units[u] # NULL

OutcomeInv == IInv /\ DoneJobOwnsNoLiveUnit /\ MembersHaveRows

(* Job j waits for unit u: no outcome, and the row is still the job's.      *)
OpenIn(j, u) ==
    memberships[j][u] # NULL /\ memberships[j][u].terminal = NULL /\ work_units[u].job = j

OpenSound ==
    \A u \in Units :
        /\ \A j \in Jobs : OpenIn(j, u) => UnitIn(u, {"pending", "leased"})
        /\ UnitIn(u, {"pending", "leased"}) =>
               OpenIn(work_units[u].job, u) /\ work_units[u].job \in Jobs
        /\ \A j \in Jobs :
               /\ outcomeOf(j, u) = Outcomes!Open <=> OpenIn(j, u)
               /\ memberships[j][u] = NULL => outcomeOf(j, u) = NULL

(* The open units are the pending and the leased ones, each in the job that *)
(* owns its row; and the abstract view shows exactly these as open.         *)
LEMMA OpenRows == OutcomeInv => OpenSound
<1> SUFFICES ASSUME OutcomeInv, NEW u \in Units
             PROVE  /\ \A j \in Jobs : OpenIn(j, u) => UnitIn(u, {"pending", "leased"})
                    /\ UnitIn(u, {"pending", "leased"}) =>
                           OpenIn(work_units[u].job, u) /\ work_units[u].job \in Jobs
                    /\ \A j \in Jobs :
                           /\ outcomeOf(j, u) = Outcomes!Open <=> OpenIn(j, u)
                           /\ memberships[j][u] = NULL => outcomeOf(j, u) = NULL
  BY DEF OpenSound
<1> USE DEF OutcomeInv, IInv
<1>1. ASSUME work_units[u] # NULL
      PROVE  /\ work_units[u] \in UnitRow
             /\ work_units[u].state \in {"done", "dead"} => memberships[work_units[u].job][u].terminal # NULL
             /\ work_units[u].state \in {"pending", "leased"} => memberships[work_units[u].job][u] = Unsettled
  <2>1. work_units[u] \in UnitRow
    BY <1>1 DEF TypeOK, Optional
  <2>2. ASSUME work_units[u].state = "done"
        PROVE  memberships[work_units[u].job][u].terminal = "done"
    <3>1. PICK status, ref : memberships[work_units[u].job][u] = Settled("done", status, ref)
      BY <1>1, <2>2 DEF OwnerSettled
    <3> QED BY <3>1, SMT DEF Settled
  <2>3. ASSUME work_units[u].state = "dead"
        PROVE  memberships[work_units[u].job][u].terminal = "dead"
    <3>1. memberships[work_units[u].job][u] = Settled("dead", NULL, NULL)
      BY <1>1, <2>3 DEF OwnerSettled
    <3> QED BY <3>1, SMT DEF Settled
  <2>4. work_units[u].state \in {"pending", "leased"} => memberships[work_units[u].job][u] = Unsettled
    BY <1>1 DEF OwnerSettled
  <2> QED BY <2>1, <2>2, <2>3, <2>4, NullAssumption DEF Terminal
<1>2. Unsettled \in MembershipRow /\ Unsettled.terminal = NULL
  BY DEF Unsettled, MembershipRow
<1>3. ASSUME NEW j \in Jobs, OpenIn(j, u)
      PROVE  UnitIn(u, {"pending", "leased"})
  <2>1. work_units[u] # NULL
    BY <1>3 DEF OpenIn, MembersHaveRows
  <2> QED BY <1>1, <1>3, <2>1 DEF OpenIn, UnitRow, UnitStates, UnitIn
<1>4. ASSUME UnitIn(u, {"pending", "leased"})
      PROVE  OpenIn(work_units[u].job, u) /\ work_units[u].job \in Jobs
  BY <1>1, <1>2, <1>4, NullAssumption DEF UnitIn, OpenIn, UnitRow
<1>5. ASSUME NEW j \in Jobs
      PROVE  /\ outcomeOf(j, u) = Outcomes!Open <=> OpenIn(j, u)
             /\ memberships[j][u] = NULL => outcomeOf(j, u) = NULL
  <2> DEFINE m == memberships[j][u]
  <2>1. CASE m = NULL
    BY <2>1, OutcomeAssumption, SMT DEF outcomeOf, OpenIn, Outcomes!Open
  <2>2. CASE m # NULL /\ m.terminal = NULL
    BY <2>2 DEF outcomeOf, OpenIn, Outcomes!Open
  <2>3. CASE m # NULL /\ m.terminal # NULL
    <3>1. m \in MembershipRow /\ (m.terminal = "done" => m.status # NULL)
      BY <2>3, SMT DEF TypeOK, Optional, OutcomesComplete
    <3>2. m.terminal = "dead" \/ m.status \in {"succeeded", "failed"}
      BY <2>3, <3>1 DEF MembershipRow, Terminal, Statuses
    <3>3. outcomeOf(j, u).is # "open"
      BY <2>3, <3>2 DEF outcomeOf
    <3> QED BY <2>3, <3>3, SMT DEF OpenIn, Outcomes!Open
  <2> QED BY <2>1, <2>2, <2>3
<1> QED BY <1>3, <1>4, <1>5

(* The same after a step.                                                   *)
LEMMA OpenRowsNext == OutcomeInv' => OpenSound'
BY OpenRows, PTL

-----------------------------------------------------------------------------
(* A recomputed job is done exactly when none of its units is open.         *)
LEMMA RecomputeDone ==
    ASSUME OutcomeInv', NEW js \in [Jobs -> Optional(JobRow)], NEW affected,
           jobs' = _recompute_job_state(js, affected, work_units', memberships'),
           NEW j \in Jobs, j \in affected, js[j] # NULL
    PROVE  jobs'[j].state = "done" <=> \A u \in Units : ~OpenIn(j, u)'
<1> DEFINE states == _unit_states(work_units', memberships', j)
<1>1. jobs'[j].state = next_job_state(states)
  <2>1. js[j] \in JobRow
    BY DEF Optional
  <2>2. jobs'[j] = [js[j] EXCEPT !.state = next_job_state(states)]
    BY DEF _recompute_job_state
  <2> QED BY <2>1, <2>2 DEF JobRow
<1>2. jobs'[j].state = "done" <=> states \cap {"pending", "leased"} = {}
  BY <1>1 DEF next_job_state
<1>3. ASSUME NEW u \in Units, OpenIn(j, u)'
      PROVE  states \cap {"pending", "leased"} # {}
  <2>1. UnitIn(u, {"pending", "leased"})'
    BY <1>3, OpenRowsNext DEF OpenSound
  <2>2. EffectiveState(work_units', memberships', j, u) \in {"pending", "leased"}
    BY <1>3, <2>1 DEF EffectiveState, OpenIn, UnitIn
  <2>3. EffectiveState(work_units', memberships', j, u) \in states
    BY <1>3 DEF OpenIn, _unit_states
  <2> QED BY <2>2, <2>3
<1>4. ASSUME NEW x \in {"pending", "leased"}, x \in states
      PROVE  \E u \in Units : OpenIn(j, u)'
  <2>1. PICK u \in Units : /\ memberships'[j][u] # NULL
                           /\ x = EffectiveState(work_units', memberships', j, u)
    BY <1>4 DEF _unit_states
  <2>2. memberships'[j][u].terminal \in Terminal \cup {NULL}
    BY <2>1, SMT DEF OutcomeInv, IInv, TypeOK, Optional, MembershipRow
  <2>3. memberships'[j][u].terminal = NULL
    BY <2>1, <2>2 DEF EffectiveState, Terminal
  <2>4. x # NULL
    BY OutcomeAssumption DEF UnitStates
  <2>5. work_units'[u].job = j
    BY <2>1, <2>3, <2>4 DEF EffectiveState
  <2> QED BY <2>1, <2>3, <2>5 DEF OpenIn
<1> QED BY <1>2, <1>3, <1>4

(* A step that ends the units of the domain of result, all of them open,    *)
(* and recomputes the jobs of the units in us is a Settle: the other units  *)
(* of us stay open, so that their jobs are not done before or after.        *)
LEMMA SettleStep ==
    ASSUME OutcomeInv, OutcomeInv',
           NEW us \in SUBSET Units, NEW result, DOMAIN result \subseteq us,
           \A u \in us : UnitIn(u, {"pending", "leased"}),
           \A u \in us \ DOMAIN result : UnitIn(u, {"pending", "leased"})'
                                      /\ work_units'[u].job = work_units[u].job,
           jobs' = _recompute_job_state(jobs, {work_units[u].job : u \in us},
                                        work_units', memberships'),
           \A j \in Jobs, u \in Units :
               outcomeOf(j, u)' = IF u \in DOMAIN result /\ OpenIn(j, u)
                                  THEN result[u] ELSE outcomeOf(j, u)
    PROVE  Outcomes!Settle(result)
<1> DEFINE o == [j \in Jobs |-> [u \in Units |-> outcomeOf(j, u)]]
           done == {j \in Jobs : jobs[j] # NULL /\ jobs[j].state = "done"}
           affected == {work_units[u].job : u \in us}
<1>1. OpenSound /\ OpenSound'
  BY OpenRows, OpenRowsNext
<1>2. jobs \in [Jobs -> Optional(JobRow)]
  BY DEF OutcomeInv, IInv, TypeOK
<1>3. \A j \in Jobs, u \in Units : o[j][u] = Outcomes!Open <=> OpenIn(j, u)
  BY <1>1 DEF OpenSound
<1>4. \A u \in DOMAIN result : Outcomes!Holders(o, {u}) # {}
  BY <1>1, <1>3 DEF OpenSound, Outcomes!Holders
<1>5. o' = Outcomes!Settled(o, result)
  BY <1>3, SMT DEF Outcomes!Settled
<1>6. \A j \in Jobs : Outcomes!Waits(o', j) <=> \E u \in Units : OpenIn(j, u)'
  BY <1>1 DEF OpenSound, Outcomes!Waits
<1>7. \A j \in Jobs : j \in Outcomes!Holders(o, DOMAIN result)
                        <=> \E u \in DOMAIN result : OpenIn(j, u)
  BY <1>3 DEF Outcomes!Holders
<1>8. \A j \in Jobs : jobs'[j] = NULL <=> jobs[j] = NULL
  BY <1>2, RecomputeJobs, SMT
<1>9. ASSUME NEW j \in Jobs, j \notin affected
      PROVE  (j \in done' <=> j \in done) /\ j \notin Outcomes!Holders(o, DOMAIN result)
  <2>1. jobs'[j] = jobs[j]
    BY <1>9 DEF _recompute_job_state
  <2>2. \A u \in DOMAIN result : ~OpenIn(j, u)
    BY <1>9 DEF OpenIn
  <2> QED BY <1>7, <2>1, <2>2
<1>10. ASSUME NEW j \in Jobs, j \in affected
       PROVE  /\ j \notin done
              /\ j \in done' <=> /\ j \in Outcomes!Holders(o, DOMAIN result)
                                /\ ~Outcomes!Waits(o', j)
  <2>1. PICK u \in us : work_units[u].job = j
    BY <1>10
  <2>2. UnitIn(u, {"pending", "leased"}) /\ OpenIn(j, u)
    BY <1>1, <2>1 DEF OpenSound
  <2>3. jobs[j] # NULL /\ j \notin done
    BY <2>1, <2>2 DEF OutcomeInv, IInv, AttemptsAhead, DoneJobOwnsNoLiveUnit, UnitIn
  <2>4. jobs'[j].state = "done" <=> \A v \in Units : ~OpenIn(j, v)'
    BY <1>2, <1>10, <2>3, RecomputeDone
  <2>5. CASE u \in DOMAIN result
    BY <1>6, <1>7, <1>8, <2>2, <2>3, <2>4, <2>5
  <2>6. CASE u \notin DOMAIN result
    <3>1. OpenIn(j, u)'
      BY <1>1, <2>1, <2>6 DEF OpenSound
    <3>2. j \notin done'
      BY <2>4, <3>1
    <3>3. Outcomes!Waits(o', j)
      BY <1>6, <3>1
    <3> QED BY <2>3, <3>2, <3>3
  <2> QED BY <2>3, <2>5, <2>6
<1>11. done' = Outcomes!Finished(o, result)
  <2>1. Outcomes!Finished(o, result) =
            done \cup {j \in Outcomes!Holders(o, DOMAIN result) : ~Outcomes!Waits(o', j)}
    BY <1>5 DEF Outcomes!Finished
  <2>2. Outcomes!Holders(o, DOMAIN result) \subseteq Jobs
    BY DEF Outcomes!Holders
  <2> HIDE DEF o
  <2> QED BY <1>9, <1>10, <2>1, <2>2
<1> QED BY <1>4, <1>5, <1>11 DEF Outcomes!Settle

-----------------------------------------------------------------------------
(* lease_next and lease_backup, the clock and the uploads end no unit.      *)
LEMMA ClaimStep ==
    ASSUME OutcomeInv, OutcomeInv', NEW a \in Agents, NEW models \in SUBSET Models,
           lease_next(a, models)
    PROVE  Outcomes!OutcomesNext
<1>1. PICK u \in _select_candidate(models) : ClaimUnit(a, u)
  BY DEF lease_next
<1>2. u \in Units /\ UnitIn(u, {"pending", "leased"})
  BY DEF _select_candidate, Runnable, UnitIn
<1>3. work_units \in [Units -> Optional(UnitRow)] /\ work_units[u] \in UnitRow
  BY <1>2 DEF OutcomeInv, IInv, TypeOK, Optional, UnitIn
<1>4. /\ work_units'[u] = [work_units[u] EXCEPT !.state = "leased", !.attempts = @ + 1,
                                               !.lease_agent = a]
      /\ \A v \in Units : v # u => work_units'[v] = work_units[v]
      /\ memberships' = memberships
  BY <1>1, <1>2, <1>3 DEF ClaimUnit
<1>5. jobs' = _recompute_job_state(jobs, {work_units[v].job : v \in {u}},
                                   work_units', memberships')
  <2>1. {work_units[v].job : v \in {u}} = {work_units[u].job}
    OBVIOUS
  <2> QED BY <1>1, <2>1 DEF ClaimUnit
<1>6. work_units'[u].job = work_units[u].job /\ work_units'[u].state = "leased"
  BY <1>3, <1>4 DEF UnitRow
<1>7. UnitIn(u, {"pending", "leased"})'
  <2>1. work_units[u].job \in Jobs /\ memberships'[work_units[u].job][u] # NULL
    BY <1>2, <1>4, OpenRows DEF OpenSound, OpenIn
  <2>2. work_units'[u] # NULL
    BY <1>2, <2>1 DEF OutcomeInv, MembersHaveRows
  <2> QED BY <1>6, <2>2 DEF UnitIn
<1> DEFINE none == [v \in {} |-> NULL]
<1>8. \A j \in Jobs, v \in Units : outcomeOf(j, v)' = outcomeOf(j, v)
  BY <1>4, <1>6 DEF outcomeOf
<1>9. DOMAIN none = {} /\ none \in Outcomes!SettledUnits
  BY SMT DEF Outcomes!SettledUnits
<1> HIDE DEF none
<1>10. Outcomes!Settle(none)
  BY <1>2, <1>5, <1>6, <1>7, <1>8, <1>9, SettleStep
<1> QED BY <1>9, <1>10 DEF Outcomes!OutcomesNext

(* complete_unit ends one unit in the job that owns it.                     *)
LEMMA CompleteStep ==
    ASSUME OutcomeInv, OutcomeInv',
           NEW a \in Agents, NEW u \in Units, NEW k \in Attempts, NEW r \in Results,
           complete_unit(a, k, u, r.status, r.ref)
    PROVE  Outcomes!OutcomesNext
<1> DEFINE end == [is |-> r.status, ref |-> r.ref]
           result == [v \in {u} |-> end]
<1>0. UnitIn(u, {"pending", "leased"})
  BY DEF complete_unit, CompletionApplies, _completion_accepted, LeasedTo, _backup_role, UnitIn
<1>1. PICK i \in Jobs : work_units[u].job = i /\ OpenIn(i, u)
  BY <1>0, OpenRows DEF OpenSound
<1>2. work_units \in [Units -> Optional(UnitRow)] /\ work_units[u] \in UnitRow
  BY <1>0 DEF OutcomeInv, IInv, TypeOK, Optional, UnitIn
<1>3. memberships \in [Jobs -> [Units -> Optional(MembershipRow)]]
  BY DEF OutcomeInv, IInv, TypeOK
<1>4. end \in Outcomes!Ends /\ (r.status # "succeeded" => r.ref = NULL)
  BY DEF Results, Outcomes!Ends, Outcomes!Succeeded
<1>5. work_units' = [work_units EXCEPT ![u].state = "done"]
  BY DEF complete_unit
<1>6. \A v \in Units : work_units'[v].job = work_units[v].job
  BY <1>2, <1>5 DEF UnitRow
<1> DEFINE out == Settled("done", r.status, IF r.status = "succeeded" THEN r.ref ELSE NULL)
<1>7. memberships' = [memberships EXCEPT ![i][u] = IF @ = NULL THEN NULL ELSE out]
  BY <1>1 DEF complete_unit, MarkJobUnitTerminal
<1>8. /\ memberships'[i][u] = out
      /\ \A j \in Jobs, v \in Units : j # i \/ v # u => memberships'[j][v] = memberships[j][v]
  BY <1>1, <1>3, <1>7 DEF OpenIn
<1>9. out.terminal = "done" /\ out.status = r.status /\ out.ref = r.ref
  BY <1>4 DEF Settled
<1>10. out # NULL
  <2>1. out \in MembershipRow
    BY <1>4 DEF Settled, Results, MembershipRow, Terminal, Statuses
  <2> QED BY <2>1, NullAssumption
<1>11. outcomeOf(i, u)' = end
  <2>1. "done" # NULL
    BY NullAssumption DEF Terminal
  <2> HIDE DEF out, end
  <2>2. outcomeOf(i, u)' = [is |-> out.status, ref |-> out.ref]
    BY <1>8, <1>9, <1>10, <2>1 DEF outcomeOf
  <2> QED BY <1>9, <2>2 DEF end
<1>12. \A j \in Jobs, v \in Units : j # i \/ v # u => outcomeOf(j, v)' = outcomeOf(j, v)
  BY <1>6, <1>8, SMT DEF outcomeOf
<1>13. jobs' = _recompute_job_state(jobs, {work_units[v].job : v \in {u}},
                                    work_units', memberships')
  <2>1. {work_units[v].job : v \in {u}} = {work_units[u].job}
    OBVIOUS
  <2> QED BY <2>1 DEF complete_unit
<1>14. DOMAIN result = {u} /\ result[u] = end /\ result \in Outcomes!SettledUnits
  <2>1. result \in [{u} -> Outcomes!Ends] /\ {u} \in SUBSET Units
    BY <1>4
  <2> QED BY <2>1 DEF Outcomes!SettledUnits
<1>15. \A j \in Jobs, v \in Units :
          outcomeOf(j, v)' = IF v \in DOMAIN result /\ OpenIn(j, v)
                             THEN result[v] ELSE outcomeOf(j, v)
  <2> HIDE DEF result, end
  <2>1. \A j \in Jobs : OpenIn(j, u) <=> j = i
    BY <1>1 DEF OpenIn
  <2> QED BY <1>11, <1>12, <1>14, <2>1
<1> HIDE DEF result, end, out
<1>16. Outcomes!Settle(result)
  BY <1>0, <1>13, <1>14, <1>15, SettleStep
<1> QED BY <1>14, <1>16 DEF Outcomes!OutcomesNext

(* A requeue ends the units whose budget is spent, and no other.            *)
LEMMA RequeueStep ==
    ASSUME OutcomeInv, OutcomeInv', NEW us \in SUBSET Units,
           \A u \in us : UnitIn(u, {"leased"}), _requeue(us)
    PROVE  Outcomes!OutcomesNext
<1>0. PICK dead : dead = {u \in us : ~RetriesLeft(u)}
  OBVIOUS
<1> DEFINE end == [is |-> "dead", ref |-> NULL]
           result == [u \in dead |-> end]
           out == Settled("dead", NULL, NULL)
<1>1. \A u \in us : /\ UnitIn(u, {"pending", "leased"}) /\ work_units[u] \in UnitRow
                    /\ OpenIn(work_units[u].job, u) /\ work_units[u].job \in Jobs
  BY OpenRows DEF OpenSound, UnitIn, OutcomeInv, IInv, TypeOK, Optional
<1>2. \A u \in Units : work_units'[u] =
          IF u \in us THEN [work_units[u] EXCEPT !.state = IF u \in dead THEN "dead" ELSE "pending"]
          ELSE work_units[u]
  BY <1>0 DEF _requeue
<1>3. \A u \in Units : work_units'[u].job = work_units[u].job
  BY <1>1, <1>2 DEF UnitRow
<1>4. \A j \in Jobs, u \in Units : memberships'[j][u] =
          IF u \in dead /\ OpenIn(j, u) THEN out ELSE memberships[j][u]
  <2>1. \A j \in Jobs, u \in Units : memberships'[j][u] =
            IF u \in dead /\ work_units[u].job = j /\ memberships[j][u] # NULL
            THEN out ELSE memberships[j][u]
    BY <1>0 DEF _requeue
  <2>2. \A j \in Jobs, u \in dead : OpenIn(j, u) <=> work_units[u].job = j /\ memberships[j][u] # NULL
    BY <1>0, <1>1 DEF OpenIn
  <2> HIDE DEF out
  <2> QED BY <2>1, <2>2, SMT
<1>5. \A u \in us \ dead : UnitIn(u, {"pending", "leased"})'
  <2> SUFFICES ASSUME NEW u \in us \ dead PROVE UnitIn(u, {"pending", "leased"})'
    OBVIOUS
  <2>1. work_units'[u].state = "pending"
    BY <1>1, <1>2 DEF UnitRow
  <2>2. memberships'[work_units[u].job][u] # NULL
    BY <1>1, <1>4 DEF OpenIn
  <2>3. work_units'[u] # NULL
    BY <1>1, <2>2 DEF OutcomeInv, MembersHaveRows
  <2> QED BY <2>1, <2>3 DEF UnitIn
<1>6. out # NULL /\ out.terminal = "dead" /\ out.ref = NULL /\ "dead" # NULL
  BY NullAssumption, SMT DEF Settled, MembershipRow, Terminal
<1>7. DOMAIN result = dead /\ (\A u \in dead : result[u] = end)
      /\ result \in Outcomes!SettledUnits
  <2>1. end \in Outcomes!Ends
    BY DEF Outcomes!Ends
  <2>2. result \in [dead -> Outcomes!Ends] /\ dead \in SUBSET Units
    BY <1>0, <2>1
  <2> QED BY <2>2 DEF Outcomes!SettledUnits
<1> HIDE DEF out, result
<1>8. ASSUME NEW j \in Jobs, NEW u \in Units
      PROVE  outcomeOf(j, u)' = IF u \in dead /\ OpenIn(j, u) THEN end ELSE outcomeOf(j, u)
  <2>1. CASE u \in dead /\ OpenIn(j, u)
    BY <1>4, <1>6, <2>1 DEF outcomeOf
  <2>2. CASE ~(u \in dead /\ OpenIn(j, u))
    BY <1>3, <1>4, <2>2 DEF outcomeOf
  <2> QED BY <2>1, <2>2
<1>9. jobs' = _recompute_job_state(jobs, {work_units[u].job : u \in us},
                                   work_units', memberships')
  BY DEF _requeue
<1>10. dead \subseteq us
  BY <1>0
<1>11. \A j \in Jobs, u \in Units :
          outcomeOf(j, u)' = IF u \in DOMAIN result /\ OpenIn(j, u)
                             THEN result[u] ELSE outcomeOf(j, u)
  BY <1>7, <1>8
<1>12. Outcomes!Settle(result)
  BY <1>1, <1>3, <1>5, <1>7, <1>9, <1>10, <1>11, SettleStep
<1> QED BY <1>7, <1>12 DEF Outcomes!OutcomesNext

(* A new job has no outcome yet; its units with a known result are done in  *)
(* it at once, the others are open and no longer open in any other job.     *)
LEMMA SubmitStep ==
    ASSUME OutcomeInv, OutcomeInv', NEW j \in Jobs, NEW s \in Submissions, submit_job(j, s)
    PROVE  Outcomes!OutcomesNext
<1> DEFINE us == DOMAIN s.idx
           o == [i \in Jobs |-> [u \in Units |-> outcomeOf(i, u)]]
           done == {i \in Jobs : jobs[i] # NULL /\ jobs[i].state = "done"}
<1>1. PICK deduped, refs : /\ deduped = _succeeded_unit_results(us)
                           /\ refs = [u \in Units |-> AcceptedRef(u)]
  OBVIOUS
<1> DEFINE members == [u \in Units |->
                          IF u \in deduped THEN [is |-> "succeeded", ref |-> refs[u]]
                          ELSE IF u \in us THEN Outcomes!Open ELSE NULL]
           inserted == [jobs EXCEPT ![j] = [request |-> s.request, state |-> "pending"]]
<1>2. us \subseteq Units /\ s.request \in Requests
  BY SubmissionsAssumption
<1>3. deduped \subseteq us /\ \A u \in deduped : refs[u] \in Refs /\ unit_results[u] # NULL
  BY <1>1, <1>2, AcceptedRefs DEF _succeeded_unit_results, OutcomeInv
<1>4. /\ jobs \in [Jobs -> Optional(JobRow)]
      /\ memberships \in [Jobs -> [Units -> Optional(MembershipRow)]]
      /\ \A u \in Units : memberships[j][u] = NULL
      /\ jobs[j] = NULL
  BY DEF OutcomeInv, IInv, TypeOK, AttemptsAhead, submit_job
<1>5. \A u \in Units : work_units'[u] = IF u \in us
          THEN [job |-> j, idx |-> s.idx[u], state |-> IF u \in deduped THEN "done" ELSE "pending",
                attempts |-> 0, lease_agent |-> NULL]
          ELSE work_units[u]
  BY <1>1 DEF submit_job
<1>5a. \A u \in us : work_units'[u].job = j
  <2> SUFFICES ASSUME NEW u \in us PROVE work_units'[u].job = j
    OBVIOUS
  <2>1. PICK w, n, state : /\ w = [job |-> j, idx |-> n, state |-> state,
                                  attempts |-> 0, lease_agent |-> NULL]
                          /\ w = work_units'[u]
    BY <1>2, <1>5
  <2>2. w.job = j
    BY <2>1, SMT
  <2> QED BY <2>1, <2>2
<1>6. memberships' = [memberships EXCEPT ![j] = [u \in Units |->
          IF u \in deduped THEN Settled("done", "succeeded", AcceptedRef(u))
          ELSE IF u \in us THEN Unsettled ELSE NULL]]
  <2>1. SnapshotTerminalOwner(us) = memberships
    BY SnapshotUnchanged DEF OutcomeInv
  <2> QED BY <1>1, <2>1 DEF submit_job
<1>7. /\ \A u \in Units : memberships'[j][u] =
            IF u \in deduped THEN Settled("done", "succeeded", refs[u])
            ELSE IF u \in us THEN Unsettled ELSE NULL
      /\ \A i \in Jobs \ {j} : memberships'[i] = memberships[i]
  BY <1>1, <1>4, <1>6
<1>8. members \in Outcomes!Members
  BY <1>3 DEF Outcomes!Members, Outcomes!Succeeded
<1>9. OpenSound /\ OpenSound'
  BY OpenRows, OpenRowsNext
<1>10. ASSUME NEW u \in Units
       PROVE  outcomeOf(j, u)' = members[u]
  <2>1. CASE u \in deduped
    <3>1. Settled("done", "succeeded", refs[u]) \in MembershipRow
      BY <1>3, <2>1 DEF Settled, MembershipRow, Terminal, Statuses
    <3>2. PICK m \in MembershipRow : m = Settled("done", "succeeded", refs[u]) /\ m # NULL
      BY <3>1, NullAssumption
    <3>3. m.terminal = "done" /\ m.terminal # NULL /\ m.status = "succeeded" /\ m.ref = refs[u]
      BY <3>2, NullAssumption DEF Settled, Terminal
    <3>4. outcomeOf(j, u)' = [is |-> m.status, ref |-> m.ref]
      BY <1>7, <2>1, <3>2, <3>3 DEF outcomeOf
    <3> QED BY <2>1, <3>3, <3>4
  <2>2. CASE u \in us \ deduped
    <3>1. Unsettled # NULL /\ Unsettled.terminal = NULL
      BY NullAssumption, SMT DEF Unsettled, MembershipRow
    <3>2. work_units'[u].job = j
      BY <1>5a, <2>2
    <3>3. OpenIn(j, u)'
      BY <1>7, <2>2, <3>1, <3>2 DEF OpenIn
    <3> QED BY <1>9, <2>2, <3>3 DEF OpenSound, Outcomes!Open
  <2>3. CASE u \notin us
    BY <1>3, <1>7, <1>9, <2>3 DEF OpenSound
  <2> QED BY <2>1, <2>2, <2>3
<1>11. ASSUME NEW i \in Jobs, i # j, NEW u \in Units
       PROVE  outcomeOf(i, u)' = IF o[i][u] = Outcomes!Open /\ members[u] = Outcomes!Open
                                 THEN Outcomes!Taken ELSE o[i][u]
  <2> DEFINE m == memberships[i][u]
  <2>1. memberships'[i][u] = m /\ o[i][u] = outcomeOf(i, u)
    BY <1>7, <1>11
  <2>2. o[i][u] = Outcomes!Open <=> OpenIn(i, u)
    BY <1>9, <2>1 DEF OpenSound
  <2>3. CASE u \notin us
    <3>1. outcomeOf(i, u)' = outcomeOf(i, u)
      BY <1>5, <2>1, <2>3 DEF outcomeOf
    <3>2. members[u] = NULL /\ NULL # Outcomes!Open
      BY <1>3, <2>3, OutcomeAssumption, SMT DEF Outcomes!Open
    <3> HIDE DEF members, o
    <3> QED BY <2>1, <3>1, <3>2
  <2>4. CASE u \in us /\ (m = NULL \/ m.terminal # NULL)
    <3>1. outcomeOf(i, u)' = outcomeOf(i, u)
      BY <2>1, <2>4 DEF outcomeOf
    <3>2. ~OpenIn(i, u)
      BY <2>4 DEF OpenIn
    <3> HIDE DEF members, o
    <3> QED BY <2>1, <2>2, <3>1, <3>2
  <2>5. CASE u \in us /\ m # NULL /\ m.terminal = NULL
    <3>1. work_units'[u].job = j
      BY <1>5a, <2>5
    <3>2. outcomeOf(i, u)' = Outcomes!Taken
      BY <1>11, <2>1, <2>5, <3>1 DEF outcomeOf, Outcomes!Taken
    <3>3. ~OpenIn(i, u) => o[i][u] = Outcomes!Taken
      BY <2>5 DEF outcomeOf, OpenIn, Outcomes!Taken
    <3>4. OpenIn(i, u) => members[u] = Outcomes!Open
      <4>1. ASSUME u \in deduped PROVE ~OpenIn(i, u)
        BY <1>3, <1>9, <4>1 DEF OutcomeInv, IInv, DoneHasResult, UnitIn, OpenSound
      <4> QED BY <2>5, <4>1
    <3> HIDE DEF members, o
    <3> QED BY <2>2, <3>2, <3>3, <3>4
  <2> QED BY <2>3, <2>4, <2>5
<1>12. o' = Outcomes!Submitted(o, j, members)
  <2>1. \A i \in Jobs, u \in Units : outcomeOf(i, u)' =
          IF i = j THEN members[u]
          ELSE IF o[i][u] = Outcomes!Open /\ members[u] = Outcomes!Open
          THEN Outcomes!Taken ELSE o[i][u]
    BY <1>10, <1>11
  <2> HIDE DEF members
  <2> QED BY <2>1 DEF Outcomes!Submitted
<1>13. Outcomes!Waits(o', j) <=> \E u \in Units : OpenIn(j, u)'
  BY <1>9 DEF OpenSound, Outcomes!Waits
<1>14. done' = IF Outcomes!Waits(o', j) THEN done ELSE done \cup {j}
  <2>1. jobs' = _recompute_job_state(inserted, {j}, work_units', memberships')
    BY DEF submit_job
  <2>2. [request |-> s.request, state |-> "pending"] \in JobRow
    BY <1>2 DEF JobRow
  <2>3. inserted \in [Jobs -> Optional(JobRow)] /\ inserted[j] # NULL
    BY <1>4, <2>2, NullAssumption DEF Optional
  <2>4. jobs'[j] # NULL /\ (jobs'[j].state = "done" <=> \A u \in Units : ~OpenIn(j, u)')
    <3> HIDE DEF inserted
    <3>1. jobs'[j] # NULL
      BY <2>1, <2>3, RecomputeJobs, SMT
    <3>2. jobs'[j].state = "done" <=> \A u \in Units : ~OpenIn(j, u)'
      BY <2>1, <2>3, RecomputeDone
    <3> QED BY <3>1, <3>2
  <2>5. \A i \in Jobs : i # j => jobs'[i] = jobs[i]
    BY <2>1, SMT DEF _recompute_job_state
  <2> HIDE DEF o
  <2> QED BY <1>4, <1>13, <2>4, <2>5
<1>15. j \notin done /\ \A u \in Units : o[j][u] = NULL
  BY <1>4, <1>9 DEF OpenSound
<1> HIDE DEF members
<1>16. Outcomes!Submit(j, members)
  BY <1>12, <1>14, <1>15 DEF Outcomes!Submit
<1> QED BY <1>8, <1>16 DEF Outcomes!OutcomesNext

-----------------------------------------------------------------------------
(* Only submit_job adds memberships, and it inserts the rows with them; no  *)
(* step deletes a row.                                                      *)
LEMMA MembersStep ==
    ASSUME OutcomeInv, [Next]_vars
    PROVE  MembersHaveRows'
<1> SUFFICES ASSUME NEW j \in Jobs, NEW u \in Units, memberships'[j][u] # NULL
             PROVE  work_units'[u] # NULL
  BY DEF MembersHaveRows
<1>1. IInv /\ IInv'
  BY NextIInv DEF OutcomeInv
<1>2. ASSUME work_units'[u] = work_units[u], memberships'[j][u] # NULL => memberships[j][u] # NULL
      PROVE  work_units'[u] # NULL
  BY <1>2 DEF OutcomeInv, MembersHaveRows
<1>3. \A row \in UnitRow, x \in UnitStates : [row EXCEPT !.state = x] # NULL
  BY NullAssumption DEF UnitRow
<1>4. \A v \in Units : work_units[v] # NULL => work_units[v] \in UnitRow
  BY <1>1 DEF IInv, TypeOK, Optional
<1>5. ASSUME NEW i \in Jobs, NEW s \in Submissions, submit_job(i, s)
      PROVE  work_units'[u] # NULL
  <2>1. CASE u \in DOMAIN s.idx
    <3> DEFINE state == IF u \in _succeeded_unit_results(DOMAIN s.idx) THEN "done" ELSE "pending"
               row == [job |-> i, idx |-> s.idx[u], state |-> state,
                       attempts |-> 0, lease_agent |-> NULL]
    <3>1. work_units'[u] = row
      BY <1>5, <2>1 DEF submit_job
    <3>2. state \in UnitStates /\ s.idx[u] \in Nat
      BY <2>1, SubmissionsAssumption DEF UnitStates
    <3> HIDE DEF state
    <3>3. row \in UnitRow
      BY <3>2, MaxAttemptsAssumption, SMT DEF UnitRow
    <3> QED BY <3>1, <3>3, NullAssumption
  <2>2. CASE u \notin DOMAIN s.idx
    <3>1. work_units'[u] = work_units[u]
      BY <1>5, <2>2 DEF submit_job
    <3>2. SnapshotTerminalOwner(DOMAIN s.idx) = memberships
      BY <1>1, SnapshotUnchanged
    <3>3. u \notin _succeeded_unit_results(DOMAIN s.idx)
      BY <2>2 DEF _succeeded_unit_results
    <3>4. memberships'[j][u] # NULL => memberships[j][u] # NULL
      BY <1>1, <1>5, <2>2, <3>2, <3>3 DEF submit_job, IInv, TypeOK
    <3> QED BY <1>2, <3>1, <3>4
  <2> QED BY <2>1, <2>2
<1>6. ASSUME NEW a \in Agents, NEW models \in SUBSET Models, lease_next(a, models)
      PROVE  work_units'[u] # NULL
  <2>1. PICK v \in _select_candidate(models) : ClaimUnit(a, v)
    BY <1>6 DEF lease_next
  <2>2. v \in Units /\ UnitIn(v, {"pending"})
    BY DEF _select_candidate, Runnable
  <2>3. work_units[v] \in UnitRow /\ work_units[v].attempts < MaxAttempts
    BY <1>1, <1>4, <2>2 DEF UnitIn, IInv, AttemptsAhead
  <2>4. work_units[v].attempts + 1 \in 0..MaxAttempts
    BY <2>3, MaxAttemptsAssumption, SMT DEF UnitRow
  <2> DEFINE row == [work_units[v] EXCEPT !.state = "leased", !.attempts = @ + 1,
                                          !.lease_agent = a]
  <2>5. row \in UnitRow
    BY <2>3, <2>4 DEF UnitRow, UnitStates
  <2>6. /\ work_units' = [work_units EXCEPT ![v] = row]
        /\ memberships' = memberships
    BY <1>1, <2>1, <2>2 DEF ClaimUnit, IInv, TypeOK
  <2>7. CASE u = v
    BY <1>1, <2>5, <2>6, <2>7, NullAssumption DEF IInv, TypeOK
  <2>8. CASE u # v
    BY <1>2, <2>6, <2>8, SMT
  <2> QED BY <2>7, <2>8
<1>7. ASSUME NEW a \in Agents, NEW v \in Units, NEW k \in Attempts, NEW r \in Results,
             complete_unit(a, k, v, r.status, r.ref)
      PROVE  work_units'[u] # NULL
  <2>1. work_units' = [work_units EXCEPT ![v] = [work_units[v] EXCEPT !.state = "done"]]
    BY <1>1, <1>7 DEF complete_unit, IInv, TypeOK
  <2>2. work_units[v] # NULL
    BY <1>7 DEF complete_unit, CompletionApplies
  <2>3. memberships'[j][u] # NULL => memberships[j][u] # NULL
    BY <1>1, <1>7, SMT DEF complete_unit, MarkJobUnitTerminal, IInv, TypeOK
  <2>4. CASE u = v
    BY <1>1, <1>3, <1>4, <2>1, <2>2, <2>4 DEF UnitStates, IInv, TypeOK
  <2>5. CASE u # v
    BY <1>2, <2>1, <2>3, <2>5, SMT
  <2> QED BY <2>4, <2>5
<1>8. ASSUME NEW us, \A v \in us : UnitIn(v, {"leased"}), _requeue(us)
      PROVE  work_units'[u] # NULL
  <2>1. PICK x \in UnitStates : work_units'[u] =
          IF u \in us THEN [work_units[u] EXCEPT !.state = x] ELSE work_units[u]
    BY <1>8 DEF _requeue, UnitStates
  <2>2. memberships'[j][u] # NULL => memberships[j][u] # NULL
    BY <1>8 DEF _requeue
  <2>3. CASE u \in us
    BY <1>3, <1>4, <1>8, <2>1, <2>3 DEF UnitIn
  <2>4. CASE u \notin us
    BY <1>2, <2>1, <2>2, <2>4
  <2> QED BY <2>3, <2>4
<1>9. requeue_expired => work_units'[u] # NULL
  BY <1>8 DEF requeue_expired
<1>10. \A a \in Agents : requeue_agent(a) => work_units'[u] # NULL
  BY <1>8 DEF requeue_agent, LeasedTo
<1>11. ASSUME UNCHANGED <<work_units, memberships>> PROVE work_units'[u] # NULL
  BY <1>2, <1>11
<1> QED BY <1>5, <1>6, <1>7, <1>9, <1>10, <1>11
        DEF Next, vars, extend_leases, LeaseLapses, lease_backup, bind_result_payload

(* The three invariants together are inductive.                             *)
LEMMA OutcomeInvStep == OutcomeInv /\ [Next]_vars => OutcomeInv'
BY NextIInv, DoneJobStep, MembersStep DEF OutcomeInv

(* Every step of the queue is a step of JobOutcomes or changes nothing that *)
(* JobOutcomes shows.                                                       *)
LEMMA OutcomeStepSimulated ==
    ASSUME OutcomeInv, OutcomeInv', [Next]_vars
    PROVE  [Outcomes!OutcomesNext]_(Outcomes!outcome_vars)
<1>1. ASSUME UNCHANGED <<jobs, work_units, memberships>>
      PROVE  UNCHANGED Outcomes!outcome_vars
  BY <1>1, SMT DEF Outcomes!outcome_vars, outcomeOf
<1>2. ASSUME NEW j \in Jobs, NEW s \in Submissions, submit_job(j, s)
      PROVE  Outcomes!OutcomesNext
  BY <1>2, SubmitStep
<1>3. ASSUME NEW a \in Agents, NEW models \in SUBSET Models, lease_next(a, models)
      PROVE  Outcomes!OutcomesNext
  BY <1>3, ClaimStep
<1>4. ASSUME NEW a \in Agents, NEW us \in SUBSET Units, extend_leases(a, us)
      PROVE  UNCHANGED Outcomes!outcome_vars
  BY <1>1, <1>4 DEF extend_leases
<1>5. ASSUME NEW u \in Units, LeaseLapses(u)
      PROVE  UNCHANGED Outcomes!outcome_vars
  BY <1>1, <1>5 DEF LeaseLapses
<1>6. ASSUME NEW a \in Agents, NEW u \in Units, lease_backup(a, u)
      PROVE  UNCHANGED Outcomes!outcome_vars
  BY <1>1, <1>6 DEF lease_backup
<1>7. ASSUME NEW a \in Agents, NEW u \in Units, NEW k \in Attempts, NEW ref \in Refs,
             bind_result_payload(a, u, k, ref)
      PROVE  UNCHANGED Outcomes!outcome_vars
  BY <1>1, <1>7 DEF bind_result_payload
<1>8. ASSUME NEW a \in Agents, NEW u \in Units, NEW k \in Attempts, NEW r \in Results,
             complete_unit(a, k, u, r.status, r.ref)
      PROVE  Outcomes!OutcomesNext
  BY <1>8, CompleteStep
<1>9. ASSUME requeue_expired PROVE Outcomes!OutcomesNext
  <2> DEFINE us == {u \in expired : UnitIn(u, {"leased"})}
  <2>0. us \in SUBSET Units
    BY DEF OutcomeInv, IInv, TypeOK
  <2>1. PICK c : c = us /\ c \in SUBSET Units
    BY <2>0
  <2>2. _requeue(c)
    BY <1>9, <2>1 DEF requeue_expired
  <2> QED BY <2>1, <2>2, RequeueStep
<1>10. ASSUME NEW a \in Agents, requeue_agent(a) PROVE Outcomes!OutcomesNext
  <2> DEFINE us == {u \in Units : LeasedTo(u, a)}
  <2>1. PICK c : c = us /\ c \in SUBSET Units
    OBVIOUS
  <2>2. _requeue(c)
    BY <1>10, <2>1 DEF requeue_agent
  <2>3. \A u \in c : UnitIn(u, {"leased"})
    BY <2>1 DEF LeasedTo
  <2> QED BY <2>1, <2>2, <2>3, RequeueStep
<1>11. CASE UNCHANGED vars
  BY <1>1, <1>11 DEF vars
<1> QED BY <1>2, <1>3, <1>4, <1>5, <1>6, <1>7, <1>8, <1>9, <1>10, <1>11 DEF Next

(* The queue implements JobOutcomes: a unit of a job comes to one end and   *)
(* keeps it, a later job takes over only open units, and a job reports DONE *)
(* in the step in which its last open unit ends.                            *)
THEOREM Implementation == Spec => ImplementsOutcomes
<1>1. Init => OutcomeInv
  <2>1. Init => DoneJobOwnsNoLiveUnit /\ MembersHaveRows
    BY DEF Init, DoneJobOwnsNoLiveUnit, MembersHaveRows, UnitIn
  <2> QED BY <2>1, InitIInv DEF OutcomeInv
<1>2. Init => Outcomes!OutcomesInit
  BY SMT DEF Init, Outcomes!OutcomesInit, outcomeOf
<1>3. OutcomeInv /\ OutcomeInv' /\ [Next]_vars
        => [Outcomes!OutcomesNext]_(Outcomes!outcome_vars)
  BY OutcomeStepSimulated
<1> QED
  BY <1>1, <1>2, <1>3, OutcomeInvStep, PTL DEF Spec, ImplementsOutcomes, Outcomes!OutcomesSpec

=============================================================================
