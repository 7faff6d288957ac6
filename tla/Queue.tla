------------------------------- MODULE Queue -------------------------------
(***************************************************************************)
(* The coordinator's durable job queue (queue/store.py, queue/_sql.py).    *)
(*                                                                         *)
(* Each variable is one table of queue/schema.sql, as a function from the  *)
(* primary key to the row or NULL.  Every mutator of SqliteQueueStore runs *)
(* under one asyncio.Lock and commits once, so it is one action here.  The *)
(* callers are left arbitrary: any agent may make any call, with any       *)
(* attempt and payload, at any time.  Late, repeated and reordered calls   *)
(* are therefore all among the behaviours.                                 *)
(*                                                                         *)
(* Time appears only as the set "expired" of leased units whose            *)
(* lease_expires is behind the clock.                                      *)
(***************************************************************************)
EXTENDS Integers, FiniteSets, Null

CONSTANTS
    Jobs,           \* job ids, numbered in the order of their created_at
    Units,          \* content-addressed work_unit_ids
    Agents,         \* agent ids
    Models,         \* model ids
    Refs,           \* payload digests; the result_ref of a payload is its digest
    Submissions,    \* the submissions callers make: [request, idx, reuse_active]
    MaxAttempts     \* max_attempts

(* A submission carries the request columns of the jobs table, the unit      *)
(* list after the repeated ids are dropped (a function from its units to     *)
(* their idx), and the reuse_active flag.                                    *)
Requests == [model : Models, priority : Int, params : Int]

ASSUME JobsAssumption == Jobs \subseteq Nat

ASSUME SubmissionsAssumption ==
    \A s \in Submissions : /\ s.request \in Requests
                           /\ DOMAIN s.idx \subseteq Units
                           /\ s.idx \in [DOMAIN s.idx -> Nat]
                           /\ s.reuse_active \in BOOLEAN

ASSUME MaxAttemptsAssumption == MaxAttempts \in Nat \ {0}

VARIABLES jobs, work_units, expired, unit_results, bindings, memberships, backup_leases

vars == <<jobs, work_units, expired, unit_results, bindings, memberships, backup_leases>>

-----------------------------------------------------------------------------
(* The rows.                                                                 *)

Attempts == 1..(MaxAttempts + 1)

_backup_attempt == MaxAttempts + 1

UnitStates == {"pending", "leased", "done", "dead"}

Terminal == {"done", "dead"}

Statuses == {"succeeded", "failed"}

JobRow == [request : Requests, state : {"pending", "running", "done"}]

UnitRow == [job : Jobs, idx : Nat, state : UnitStates, attempts : 0..MaxAttempts,
            lease_agent : Agents \cup {NULL}]

ResultRow == [status : Statuses, ref : Refs \cup {NULL}, agent : Agents]

BindingRow == [agent : Agents, ref : Refs]

MembershipRow == [terminal : Terminal \cup {NULL}, status : Statuses \cup {NULL},
                  ref : Refs \cup {NULL}]

Optional(S) == S \cup {NULL}

ASSUME NullAssumption ==
    /\ \A S \in {Agents, Refs, Terminal, Statuses} : NULL \notin S
    /\ NULL \notin JobRow
    /\ NULL \notin UnitRow
    /\ NULL \notin ResultRow
    /\ NULL \notin BindingRow
    /\ NULL \notin MembershipRow

TypeOK ==
    /\ jobs \in [Jobs -> Optional(JobRow)]
    /\ work_units \in [Units -> Optional(UnitRow)]
    /\ expired \in SUBSET Units
    /\ unit_results \in [Units -> Optional(ResultRow)]
    /\ bindings \in [Units -> [Attempts -> Optional(BindingRow)]]
    /\ memberships \in [Jobs -> [Units -> Optional(MembershipRow)]]
    /\ backup_leases \in [Units -> Optional(Agents)]

Unsettled == [terminal |-> NULL, status |-> NULL, ref |-> NULL]

Settled(state, status, ref) == [terminal |-> state, status |-> status, ref |-> ref]

UnitIn(u, states) == work_units[u] # NULL /\ work_units[u].state \in states

LeasedTo(u, a) == UnitIn(u, {"leased"}) /\ work_units[u].lease_agent = a

Binds(u, attempt, a, ref) ==
    bindings[u][attempt] # NULL /\ bindings[u][attempt].agent = a /\ bindings[u][attempt].ref = ref

-----------------------------------------------------------------------------
(* Job state: recomputed from the job's memberships, each of which shows its *)
(* own terminal state or, while the job still owns the unit row, the row's.  *)

EffectiveState(rows, ms, j, u) ==
    IF ms[j][u].terminal # NULL THEN ms[j][u].terminal
    ELSE IF rows[u] # NULL /\ rows[u].job = j THEN rows[u].state ELSE NULL

_unit_states(rows, ms, j) ==
    {EffectiveState(rows, ms, j, u) : u \in {v \in Units : ms[j][v] # NULL}}

(* Mutant: leased units are not counted as unfinished.                       *)
IgnoreLeased(states) == IF "pending" \notin states THEN "done" ELSE "running"

next_job_state(states) ==
    IF states \cap {"pending", "leased"} = {} THEN "done"
    ELSE IF states \cap {"done", "dead", "leased"} # {} THEN "running" ELSE "pending"

(* Mutant: a changed unit leaves the state of its job as it was.             *)
KeepJobState(js, affected, rows, ms) == js

_recompute_job_state(js, affected, rows, ms) ==
    [j \in Jobs |->
        IF j \in affected /\ js[j] # NULL
        THEN [js[j] EXCEPT !.state = next_job_state(_unit_states(rows, ms, j))]
        ELSE js[j]]

-----------------------------------------------------------------------------
Init ==
    /\ jobs = [j \in Jobs |-> NULL]
    /\ work_units = [u \in Units |-> NULL]
    /\ expired = {}
    /\ unit_results = [u \in Units |-> NULL]
    /\ bindings = [u \in Units |-> [k \in Attempts |-> NULL]]
    /\ memberships = [j \in Jobs |-> [u \in Units |-> NULL]]
    /\ backup_leases = [u \in Units |-> NULL]

(* The accepted payload of u: the ref of a succeeded result that some        *)
(* binding of the same agent backs, as three of the SQL statements test it.  *)
AcceptedRef(u) ==
    IF /\ unit_results[u] # NULL
       /\ unit_results[u].status = "succeeded"
       /\ \E k \in Attempts : Binds(u, k, unit_results[u].agent, unit_results[u].ref)
    THEN unit_results[u].ref ELSE NULL

(* Mutant: only a result of the agent that held the primary lease is found.  *)
PrimaryResult(us) == {u \in us : /\ AcceptedRef(u) # NULL
                                 /\ work_units[u].lease_agent = unit_results[u].agent}

_succeeded_unit_results(us) == {u \in us : AcceptedRef(u) # NULL}

(* The jobs that own a pending or leased unit of us.                         *)
ActiveJobs(us) == {work_units[u].job : u \in {v \in us : UnitIn(v, {"pending", "leased"})}}

(* SNAPSHOT_TERMINAL_OWNER: before the row of a terminal unit is handed to   *)
(* another job, the outcome is recorded in its owner's membership.           *)
SnapshotTerminalOwner(us) ==
    [j \in Jobs |-> [u \in Units |->
        IF /\ u \in us /\ UnitIn(u, Terminal) /\ work_units[u].job = j
           /\ (memberships[j][u] = NULL \/ memberships[j][u].terminal = NULL)
        THEN IF work_units[u].state = "done" /\ unit_results[u] # NULL
             THEN Settled("done", unit_results[u].status, AcceptedRef(u))
             ELSE Settled(work_units[u].state, NULL, NULL)
        ELSE memberships[j][u]]]

(* submit_job, when it inserts.  With reuse_active and a unit already in     *)
(* work it returns the one matching job or raises; neither changes a table.  *)
submit_job(j, s) ==
    LET us == DOMAIN s.idx
        deduped == _succeeded_unit_results(us)
        reset == us \ deduped
        rows == [u \in Units |->
                    IF u \in us
                    THEN [job |-> j, idx |-> s.idx[u],
                          state |-> IF u \in deduped THEN "done" ELSE "pending",
                          attempts |-> 0, lease_agent |-> NULL]
                    ELSE work_units[u]]
        ms == [SnapshotTerminalOwner(us) EXCEPT ![j] =
                  [u \in Units |->
                      IF u \in deduped THEN Settled("done", "succeeded", AcceptedRef(u))
                      ELSE IF u \in us THEN Unsettled ELSE NULL]]
        inserted == [jobs EXCEPT ![j] = [request |-> s.request, state |-> "pending"]]
    IN  /\ jobs[j] = NULL
        /\ \A i \in Jobs : i < j => jobs[i] # NULL
        /\ s.reuse_active => ActiveJobs(us) = {}
        /\ work_units' = rows
        /\ memberships' = ms
        /\ expired' = expired \ us
        /\ bindings' = [u \in Units |-> IF u \in reset THEN [k \in Attempts |-> NULL]
                                        ELSE bindings[u]]
        /\ unit_results' = [u \in Units |-> IF u \in reset THEN NULL ELSE unit_results[u]]
        /\ backup_leases' = [u \in Units |-> IF u \in reset THEN NULL ELSE backup_leases[u]]
        /\ jobs' = _recompute_job_state(inserted, {j}, rows, ms)

-----------------------------------------------------------------------------
(* SELECT_LEASE_CANDIDATE: priority DESC, created_at ASC, idx ASC.           *)
Runnable(models) == {u \in Units : /\ UnitIn(u, {"pending"})
                                   /\ jobs[work_units[u].job].request.model \in models}

Precedes(u, v) ==
    LET p(w) == jobs[work_units[w].job].request.priority
        c(w) == work_units[w].job
        i(w) == work_units[w].idx
    IN  \/ p(u) > p(v)
        \/ p(u) = p(v) /\ c(u) < c(v)
        \/ p(u) = p(v) /\ c(u) = c(v) /\ i(u) < i(v)

_select_candidate(models) ==
    {u \in Runnable(models) : \A v \in Runnable(models) : ~Precedes(v, u)}

(* Mutant: a new lease repeats the attempt of the one before.                *)
ClaimSameAttempt(a, u) ==
    LET rows == [work_units EXCEPT ![u].state = "leased",
                                   ![u].attempts = IF @ = 0 THEN 1 ELSE @,
                                   ![u].lease_agent = a]
    IN  /\ work_units' = rows
        /\ jobs' = _recompute_job_state(jobs, {work_units[u].job}, rows, memberships)
        /\ UNCHANGED <<expired, unit_results, bindings, memberships, backup_leases>>

(* CLAIM_UNIT on the selected candidate, and the job state that follows.     *)
ClaimUnit(a, u) ==
    LET rows == [work_units EXCEPT ![u].state = "leased",
                                   ![u].attempts = @ + 1,
                                   ![u].lease_agent = a]
    IN  /\ work_units' = rows
        /\ jobs' = _recompute_job_state(jobs, {work_units[u].job}, rows, memberships)
        /\ UNCHANGED <<expired, unit_results, bindings, memberships, backup_leases>>

lease_next(a, models) == \E u \in _select_candidate(models) : ClaimUnit(a, u)

extend_leases(a, us) ==
    /\ expired' = expired \ {u \in us : LeasedTo(u, a)}
    /\ UNCHANGED <<jobs, work_units, unit_results, bindings, memberships, backup_leases>>

(* The clock passes lease_expires of a leased unit.                          *)
LeaseLapses(u) ==
    /\ UnitIn(u, {"leased"})
    /\ expired' = expired \cup {u}
    /\ UNCHANGED <<jobs, work_units, unit_results, bindings, memberships, backup_leases>>

lease_backup(a, u) ==
    /\ UnitIn(u, {"leased"})
    /\ work_units[u].lease_agent # a
    /\ backup_leases[u] = NULL
    /\ backup_leases' = [backup_leases EXCEPT ![u] = a]
    /\ UNCHANGED <<jobs, work_units, expired, unit_results, bindings, memberships>>

-----------------------------------------------------------------------------
(* The attempt under which agent a may upload a payload for u, or NULL.      *)
result_upload_attempt(a, u) ==
    IF LeasedTo(u, a) THEN work_units[u].attempts
    ELSE IF backup_leases[u] = a /\ unit_results[u] = NULL THEN _backup_attempt
    ELSE NULL

(* BIND_RESULT_PAYLOAD, else BIND_RESULT_PAYLOAD_BACKUP; an existing binding *)
(* of the attempt is never overwritten (a matching one is only acknowledged).*)
MayBind(a, u, attempt) ==
    \/ LeasedTo(u, a) /\ work_units[u].attempts = attempt
    \/ backup_leases[u] = a /\ attempt = _backup_attempt /\ unit_results[u] = NULL

bind_result_payload(a, u, attempt, ref) ==
    /\ MayBind(a, u, attempt)
    /\ bindings[u][attempt] = NULL
    /\ bindings' = [bindings EXCEPT ![u][attempt] = [agent |-> a, ref |-> ref]]
    /\ UNCHANGED <<jobs, work_units, expired, unit_results, memberships, backup_leases>>

_completion_accepted(a, attempt, u) == LeasedTo(u, a) /\ work_units[u].attempts = attempt

_backup_role(a, attempt, u) ==
    UnitIn(u, {"leased", "pending"}) /\ backup_leases[u] = a /\ attempt = _backup_attempt

(* Mutant: a payload any agent uploaded for the unit will do.                *)
AnyAgentsBinding(a, attempt, u, ref) ==
    \E k \in Attempts : bindings[u][k] # NULL /\ bindings[u][k].ref = ref

_result_binding_accepted(a, attempt, u, ref) == Binds(u, attempt, a, ref)

MarkJobUnitTerminal(ms, j, u, outcome) ==
    [ms EXCEPT ![j][u] = IF @ = NULL THEN NULL ELSE outcome]

CompletionApplies(a, attempt, u, status, ref) ==
    /\ work_units[u] # NULL
    /\ unit_results[u] = NULL
    /\ _completion_accepted(a, attempt, u) \/ _backup_role(a, attempt, u)
    /\ status = "succeeded" => _result_binding_accepted(a, attempt, u, ref)

(* complete_unit, when it applies: the other paths only answer the caller.   *)
complete_unit(a, attempt, u, status, ref) ==
    LET j == work_units[u].job
        rows == [work_units EXCEPT ![u].state = "done"]
        ms == MarkJobUnitTerminal(memberships, j, u,
                 Settled("done", status, IF status = "succeeded" THEN ref ELSE NULL))
    IN  /\ CompletionApplies(a, attempt, u, status, ref)
        /\ unit_results' = [unit_results EXCEPT ![u] =
                               [status |-> status, ref |-> ref, agent |-> a]]
        /\ work_units' = rows
        /\ memberships' = ms
        /\ jobs' = _recompute_job_state(jobs, {j}, rows, ms)
        /\ expired' = expired \ {u}
        /\ UNCHANGED <<bindings, backup_leases>>

-----------------------------------------------------------------------------
RetriesLeft(u) == work_units[u].attempts < MaxAttempts

(* The requeue of the leased units in us: another attempt while the budget   *)
(* lasts, else dead.  The lease columns and the backup lease stay.           *)
_requeue(us) ==
    LET dead == {u \in us : ~RetriesLeft(u)}
        rows == [u \in Units |->
                    IF u \in us
                    THEN [work_units[u] EXCEPT !.state = IF u \in dead THEN "dead" ELSE "pending"]
                    ELSE work_units[u]]
        ms == [j \in Jobs |-> [u \in Units |->
                    IF u \in dead /\ work_units[u].job = j /\ memberships[j][u] # NULL
                    THEN Settled("dead", NULL, NULL) ELSE memberships[j][u]]]
    IN  /\ us # {}
        /\ work_units' = rows
        /\ memberships' = ms
        /\ expired' = expired \ us
        /\ jobs' = _recompute_job_state(jobs, {work_units[u].job : u \in us}, rows, ms)
        /\ UNCHANGED <<unit_results, bindings, backup_leases>>

(* Mutant: a unit whose budget is spent is left leased.                      *)
RequeueRetriable == _requeue({u \in expired : UnitIn(u, {"leased"}) /\ RetriesLeft(u)})

requeue_expired == _requeue({u \in expired : UnitIn(u, {"leased"})})

requeue_agent(a) == _requeue({u \in Units : LeasedTo(u, a)})

-----------------------------------------------------------------------------
(* A failed result carries no payload reference.                             *)
Results == [status : {"succeeded"}, ref : Refs] \cup [status : {"failed"}, ref : {NULL}]

Next ==
    \/ \E j \in Jobs, s \in Submissions : submit_job(j, s)
    \/ \E a \in Agents, models \in SUBSET Models : lease_next(a, models)
    \/ \E a \in Agents, us \in SUBSET Units : extend_leases(a, us)
    \/ \E u \in Units : LeaseLapses(u)
    \/ \E a \in Agents, u \in Units : lease_backup(a, u)
    \/ \E a \in Agents, u \in Units, k \in Attempts, ref \in Refs :
          bind_result_payload(a, u, k, ref)
    \/ \E a \in Agents, u \in Units, k \in Attempts, r \in Results :
          complete_unit(a, k, u, r.status, r.ref)
    \/ requeue_expired
    \/ \E a \in Agents : requeue_agent(a)

Spec == Init /\ [][Next]_vars

-----------------------------------------------------------------------------
(* A succeeded result always has the payload binding of the agent that       *)
(* reported it.  _succeeded_unit_results and completed_result_ref read the   *)
(* result only through that binding: a result without one would be run       *)
(* again, or be reported done and never be served.                           *)
ResultsAreBound ==
    \A u \in Units :
        unit_results[u] # NULL /\ unit_results[u].status = "succeeded"
            => \E k \in Attempts : Binds(u, k, unit_results[u].agent, unit_results[u].ref)

(* A unit row is done exactly while its result is stored, across requeues,   *)
(* backups that finish late, and resubmissions.                              *)
DoneHasResult ==
    \A u \in Units : unit_results[u] # NULL <=> UnitIn(u, {"done"})

(* The owner of a unit row always has a membership for it, and that          *)
(* membership is settled exactly when the row is terminal, with the outcome  *)
(* of the stored result.  It makes the snapshot in submit_job and the        *)
(* backfill in init leave memberships alone.                                 *)
OwnerSettled ==
    \A u \in Units : work_units[u] # NULL =>
        memberships[work_units[u].job][u] =
            IF work_units[u].state = "done"
            THEN Settled("done", unit_results[u].status,
                         IF unit_results[u].status = "succeeded"
                         THEN unit_results[u].ref ELSE NULL)
            ELSE IF work_units[u].state = "dead" THEN Settled("dead", NULL, NULL)
            ELSE Unsettled

(* What ingestion reads of a finished job: a unit done and succeeded has its *)
(* payload reference, and no unit is done without a result status.           *)
OutcomesComplete ==
    \A j \in Jobs, u \in Units : memberships[j][u] # NULL =>
        LET m == memberships[j][u]
        IN  /\ m.terminal = "done" <=> m.status # NULL
            /\ m.status = "succeeded" <=> m.ref # NULL

(* The payload bound to the attempt that now holds the lease was uploaded by *)
(* the holder of that lease, although attempts start again at 1 when a unit  *)
(* is resubmitted; and the reserved attempt is bound by the backup only.     *)
CurrentAttemptBinding ==
    \A u \in Units :
        /\ UnitIn(u, {"leased"}) =>
              LET b == bindings[u][work_units[u].attempts]
              IN  b # NULL => b.agent = work_units[u].lease_agent
        /\ bindings[u][_backup_attempt] # NULL =>
              bindings[u][_backup_attempt].agent = backup_leases[u]

(* The retry budget and the bindings agree: a pending unit has an attempt    *)
(* left, a leased one has a holder and a current attempt within the budget,  *)
(* and no attempt that is still to come has a payload.  Jobs and memberships *)
(* come into being together.                                                 *)
AttemptsAhead ==
    /\ \A u \in Units : work_units[u] # NULL =>
          /\ jobs[work_units[u].job] # NULL
          /\ work_units[u].state = "pending" => work_units[u].attempts < MaxAttempts
          /\ work_units[u].state = "leased" => /\ work_units[u].attempts >= 1
                                               /\ work_units[u].lease_agent \in Agents
          /\ work_units[u].state \in {"pending", "leased"} =>
                \A k \in Attempts : work_units[u].attempts < k /\ k <= MaxAttempts
                                        => bindings[u][k] = NULL
    /\ \A j \in Jobs : jobs[j] = NULL => \A u \in Units : memberships[j][u] = NULL

(* A job that reports DONE owns no unit that is pending or leased.           *)
DoneJobOwnsNoLiveUnit ==
    \A u \in Units : UnitIn(u, {"pending", "leased"}) =>
        jobs[work_units[u].job].state \in {"pending", "running"}

(* docs/architecture.md says of resubmitted work that "A job reaches DONE    *)
(* when every unit is DONE or DEAD": a DONE job has an outcome for each of   *)
(* its units.                                                                *)
DoneJobIsSettled ==
    \A j \in Jobs : jobs[j] # NULL /\ jobs[j].state = "done" =>
        \A u \in Units : memberships[j][u] # NULL => memberships[j][u].terminal # NULL


(* The outcome of a unit in a job never changes once recorded, whatever      *)
(* later job takes the unit over.                                            *)
OutcomeFixed ==
    [][\A j \in Jobs, u \in Units :
          memberships[j][u] # NULL /\ memberships[j][u].terminal # NULL
              => memberships'[j][u] = memberships[j][u]]_vars

(* A succeeded result is never replaced or deleted: of two holders the first *)
(* to complete wins, and a resubmission keeps the result.                    *)
SucceededResultFixed ==
    [][\A u \in Units :
          unit_results[u] # NULL /\ unit_results[u].status = "succeeded"
              => unit_results'[u] = unit_results[u]]_vars

(* The invariants of the tables together with the bound on attempts: the     *)
(* form in which one step of any mutator of store.py preserves them.         *)
IInv ==
    /\ TypeOK
    /\ ResultsAreBound
    /\ DoneHasResult
    /\ OwnerSettled
    /\ OutcomesComplete
    /\ CurrentAttemptBinding
    /\ AttemptsAhead

-----------------------------------------------------------------------------
(* The queue implements JobOutcomes: the outcome of a unit in a job is its   *)
(* membership row, seen together with the owner of the unit row.             *)
ASSUME OutcomeAssumption ==
    /\ NULL \notin UnitStates
    /\ NULL \notin [is : {"open", "taken"}, ref : {NULL}]

outcomeOf(j, u) ==
    LET m == memberships[j][u]
    IN  IF m = NULL THEN NULL
        ELSE IF m.terminal = NULL
        THEN [is |-> IF work_units[u].job = j THEN "open" ELSE "taken", ref |-> NULL]
        ELSE [is |-> IF m.terminal = "dead" THEN "dead" ELSE m.status, ref |-> m.ref]

Outcomes ==
    INSTANCE JobOutcomes WITH
        outcome <- [j \in Jobs |-> [u \in Units |-> outcomeOf(j, u)]],
        finished <- {j \in Jobs : jobs[j] # NULL /\ jobs[j].state = "done"}

(* Every step of the queue is a step of JobOutcomes or changes nothing that  *)
(* JobOutcomes shows: whatever is requeued, backed up, completed late or     *)
(* submitted again, a unit of a job comes to one end, keeps it, and the job  *)
(* reports DONE in the step in which its last open unit ends.                *)
ImplementsOutcomes == Outcomes!OutcomesSpec

=============================================================================
