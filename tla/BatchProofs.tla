---------------------------- MODULE BatchProofs ----------------------------
(* The batch lane, for any number of agents, units, jobs and requests: it    *)
(* drives the queue only through the queue's own steps, so that everything   *)
(* proved of Queue holds in it; its leases are distinct; and a report for    *)
(* the current lease is accepted.                                            *)
EXTENDS BatchWork, QueueProofs, TLAPS

(* Zenon proves what does not ask for the arithmetic of SMT.                *)
USE ZenonT(60)

(* What stays true of a lease once handed out: its job exists, and while the *)
(* unit still belongs to that job the attempt is spent.                      *)
LeaseOK(l) ==
    /\ l \in Leases
    /\ jobs[l.job] # NULL
    /\ work_units[l.unit].job = l.job =>
          IF l.attempt = _backup_attempt THEN backup_leases[l.unit] # NULL
          ELSE l.attempt <= work_units[l.unit].attempts

(* The payload of a succeeded report is bound while the unit belongs to the  *)
(* job of the lease.                                                         *)
Stored(q) ==
    work_units[q.lease.unit].job = q.lease.job =>
        Binds(q.lease.unit, q.lease.attempt, q.agent, q.ref)

RequestOK(q) ==
    /\ q = [kind |-> q.kind, agent |-> q.agent, lease |-> q.lease,
            status |-> q.status, ref |-> q.ref, live |-> q.live]
    /\ q.agent \in Agents
    /\ q.kind # "poll" => LeaseOK(q.lease)
    /\ q.kind \in {"check", "bind"} => q.ref \in Refs
    /\ q.kind = "result" => \/ q.status = "succeeded" /\ q.ref \in Refs /\ Stored(q)
                            \/ q.status = "failed" /\ q.ref = NULL

Loop == [pc : {"idle", "polling", "running", "uploading", "reporting"},
         lease : Optional(Leases), ref : Optional(Refs)]

LoopOK(w) ==
    /\ w \in Loop
    /\ w.lease # NULL \/ w.pc \in {"running", "uploading"} => LeaseOK(w.lease)
    /\ w.pc = "uploading" => w.ref \in Refs

BatchInv ==
    /\ IInv
    /\ work \in [Agents -> Loop]
    /\ \A a \in Agents : LoopOK(work[a])
    /\ \A q \in requests : RequestOK(q)
    /\ LeasesDistinct

-----------------------------------------------------------------------------
(* A step of the queue hands a unit to a job that did not exist before, or   *)
(* leaves it to its job, with the attempts it has spent, its backup lease    *)
(* and the payloads bound to its attempts.                                   *)
Keeps(u) ==
    /\ work_units'[u].job = work_units[u].job
    /\ \A k \in Attempts : k <= work_units[u].attempts => k <= work_units'[u].attempts
    /\ backup_leases[u] # NULL => backup_leases'[u] = backup_leases[u]
    /\ \A k \in Attempts : bindings[u][k] # NULL => bindings'[u][k] = bindings[u][k]

(* Every mutator of store.py treats a unit in one of these two ways.        *)
LEMMA UnitStep ==
    ASSUME IInv, [Next]_vars, NEW u \in Units
    PROVE  Keeps(u) \/ \E j \in Jobs : jobs[j] = NULL /\ work_units'[u].job = j
<1> DEFINE New == \E j \in Jobs : jobs[j] = NULL /\ work_units'[u].job = j
<1>0. /\ work_units \in [Units -> Optional(UnitRow)]
      /\ bindings \in [Units -> [Attempts -> Optional(BindingRow)]]
      /\ backup_leases \in [Units -> Optional(Agents)]
  BY DEF IInv, TypeOK
<1>1. ASSUME UNCHANGED <<work_units, bindings, backup_leases>> PROVE Keeps(u)
  BY <1>1 DEF Keeps
<1>2. ASSUME NEW j \in Jobs, NEW s \in Submissions, submit_job(j, s)
      PROVE  Keeps(u) \/ New
  <2>1. CASE u \in DOMAIN s.idx
    <3>1. PICK n, state : work_units'[u] = [job |-> j, idx |-> n, state |-> state,
                                            attempts |-> 0, lease_agent |-> NULL]
      BY <1>2, <2>1 DEF submit_job
    <3>2. work_units'[u].job = j /\ jobs[j] = NULL
      BY <1>2, <3>1, SMT DEF submit_job
    <3> QED BY <3>2
  <2>2. CASE u \notin DOMAIN s.idx
    <3>1. u \notin DOMAIN s.idx \ _succeeded_unit_results(DOMAIN s.idx)
      BY <2>2
    <3>2. work_units'[u] = work_units[u] /\ bindings'[u] = bindings[u]
          /\ backup_leases'[u] = backup_leases[u]
      BY <1>2, <2>2, <3>1 DEF submit_job
    <3> QED BY <3>2 DEF Keeps
  <2> QED BY <2>1, <2>2
<1>3. ASSUME NEW a \in Agents, NEW models \in SUBSET Models, lease_next(a, models)
      PROVE  Keeps(u)
  <2>1. PICK v \in _select_candidate(models) : ClaimUnit(a, v)
    BY <1>3 DEF lease_next
  <2>2. v \in Units /\ work_units[v] # NULL
    BY DEF _select_candidate, Runnable, UnitIn
  <2>3. work_units[v] \in UnitRow
    BY <1>0, <2>2 DEF Optional
  <2>4. work_units' = [work_units EXCEPT ![v] = [work_units[v] EXCEPT
            !.state = "leased", !.attempts = @ + 1, !.lease_agent = a]]
        /\ UNCHANGED <<bindings, backup_leases>>
    BY <1>0, <2>1 DEF ClaimUnit
  <2>5. CASE u = v
    <3>1. /\ work_units'[u].job = work_units[u].job
          /\ work_units'[u].attempts = work_units[u].attempts + 1
      BY <1>0, <2>3, <2>4, <2>5 DEF UnitRow
    <3>2. work_units[u].attempts \in Int /\ Attempts \subseteq Int
      BY <2>3, <2>5, MaxAttemptsAssumption, SMT DEF UnitRow, Attempts
    <3>3. \A k \in Attempts : k <= work_units[u].attempts => k <= work_units[u].attempts + 1
      BY <3>2, SMT
    <3> QED BY <2>4, <3>1, <3>3 DEF Keeps
  <2>6. CASE u # v
    BY <1>0, <2>4, <2>6 DEF Keeps
  <2> QED BY <2>5, <2>6
<1>4. ASSUME NEW a \in Agents, NEW v \in Units, lease_backup(a, v)
      PROVE  Keeps(u)
  BY <1>0, <1>4 DEF lease_backup, Keeps
<1>5. ASSUME NEW a \in Agents, NEW v \in Units, NEW k \in Attempts, NEW ref \in Refs,
             bind_result_payload(a, v, k, ref)
      PROVE  Keeps(u)
  BY <1>0, <1>5 DEF bind_result_payload, Keeps
<1>6. ASSUME NEW a \in Agents, NEW v \in Units, NEW k \in Attempts, NEW r \in Results,
             complete_unit(a, k, v, r.status, r.ref)
      PROVE  Keeps(u)
  <2>1. work_units' = [work_units EXCEPT ![v] = [work_units[v] EXCEPT !.state = "done"]]
        /\ UNCHANGED <<bindings, backup_leases>>
    BY <1>0, <1>6 DEF complete_unit
  <2>2. work_units[v] \in UnitRow
    BY <1>0, <1>6 DEF complete_unit, CompletionApplies, Optional
  <2>3. work_units'[u].job = work_units[u].job /\ work_units'[u].attempts = work_units[u].attempts
    BY <1>0, <2>1, <2>2 DEF UnitRow
  <2> QED BY <2>1, <2>3 DEF Keeps
<1>7. ASSUME NEW us, \A v \in us : UnitIn(v, {"leased"}), _requeue(us)
      PROVE  Keeps(u)
  <2>1. PICK x : work_units'[u] =
          IF u \in us THEN [work_units[u] EXCEPT !.state = x] ELSE work_units[u]
    BY <1>7 DEF _requeue
  <2>2. u \in us => work_units[u] \in UnitRow
    BY <1>0, <1>7 DEF UnitIn, Optional
  <2>3. work_units'[u].job = work_units[u].job /\ work_units'[u].attempts = work_units[u].attempts
    BY <2>1, <2>2 DEF UnitRow
  <2> QED BY <1>7, <2>3 DEF Keeps, _requeue
<1>8. requeue_expired => Keeps(u)
  BY <1>7 DEF requeue_expired
<1>9. \A a \in Agents : requeue_agent(a) => Keeps(u)
  BY <1>7 DEF requeue_agent, LeasedTo
<1> QED BY <1>1, <1>2, <1>3, <1>4, <1>5, <1>6, <1>8, <1>9
        DEF Next, vars, extend_leases, LeaseLapses

(* No step deletes a job.                                                    *)
LEMMA JobsStay ==
    ASSUME IInv, [Next]_vars, NEW i \in Jobs, jobs[i] # NULL
    PROVE  jobs'[i] # NULL
<1>0. jobs \in [Jobs -> Optional(JobRow)]
  BY DEF IInv, TypeOK
<1>1. ASSUME NEW affected, NEW rows, NEW ms, jobs' = _recompute_job_state(jobs, affected, rows, ms)
      PROVE  jobs'[i] # NULL
  BY <1>0, <1>1, RecomputeJobs
<1>2. ASSUME NEW j \in Jobs, NEW s \in Submissions, submit_job(j, s)
      PROVE  jobs'[i] # NULL
  <2> DEFINE js == [jobs EXCEPT ![j] = [request |-> s.request, state |-> "pending"]]
  <2>1. jobs' = _recompute_job_state(js, {j}, work_units', memberships') /\ jobs[j] = NULL
    BY <1>2 DEF submit_job
  <2>2. js[i] = jobs[i] /\ i \notin {j}
    BY <1>0, <2>1
  <2> HIDE DEF js
  <2>3. jobs'[i] = js[i]
    BY <2>1, <2>2 DEF _recompute_job_state
  <2> QED BY <2>2, <2>3
<1>3. \A a \in Agents, models \in SUBSET Models : lease_next(a, models) => jobs'[i] # NULL
  BY <1>1 DEF lease_next, ClaimUnit
<1>4. \A a \in Agents, u \in Units, k \in Attempts, r \in Results :
          complete_unit(a, k, u, r.status, r.ref) => jobs'[i] # NULL
  BY <1>1 DEF complete_unit
<1>5. \A us : _requeue(us) => jobs'[i] # NULL
  BY <1>1 DEF _requeue
<1> QED BY <1>2, <1>3, <1>4, <1>5
       DEF Next, vars, extend_leases, LeaseLapses, lease_backup, bind_result_payload,
            requeue_expired, requeue_agent

(* A step of the queue invalidates no lease, request or loop that was       *)
(* sound: a lease outlives its unit's move to another job, since job ids    *)
(* are not reused.                                                          *)
LEMMA Kept ==
    ASSUME IInv, [Next]_vars
    PROVE  /\ \A l : LeaseOK(l) => LeaseOK(l)'
           /\ \A q : RequestOK(q) => RequestOK(q)'
           /\ \A w : LoopOK(w) => LoopOK(w)'
<1>1. ASSUME NEW l, LeaseOK(l) PROVE LeaseOK(l)'
  <2>1. l \in Leases /\ jobs[l.job] # NULL /\ l.unit \in Units /\ l.job \in Jobs /\ l.attempt \in Attempts
    BY <1>1 DEF LeaseOK, Leases
  <2>2. jobs'[l.job] # NULL
    BY <2>1, JobsStay
  <2>3. CASE Keeps(l.unit)
    BY <1>1, <2>1, <2>2, <2>3 DEF LeaseOK, Keeps
  <2>4. CASE \E j \in Jobs : jobs[j] = NULL /\ work_units'[l.unit].job = j
    BY <2>1, <2>2, <2>4 DEF LeaseOK
  <2> QED BY <2>1, <2>3, <2>4, UnitStep
<1>2. ASSUME NEW q, LeaseOK(q.lease), Stored(q) PROVE Stored(q)'
  <2>1. jobs[q.lease.job] # NULL /\ q.lease.unit \in Units /\ q.lease.attempt \in Attempts
    BY <1>2 DEF LeaseOK, Leases
  <2>2. CASE Keeps(q.lease.unit)
    BY <1>2, <2>1, <2>2 DEF Stored, Keeps, Binds
  <2>3. CASE \E j \in Jobs : jobs[j] = NULL /\ work_units'[q.lease.unit].job = j
    BY <2>1, <2>3 DEF Stored
  <2> QED BY <2>1, <2>2, <2>3, UnitStep
<1>3. ASSUME NEW q, RequestOK(q) PROVE RequestOK(q)'
  BY <1>1, <1>2, <1>3 DEF RequestOK
<1>4. ASSUME NEW w, LoopOK(w) PROVE LoopOK(w)'
  BY <1>1, <1>4 DEF LoopOK
<1> QED BY <1>1, <1>3, <1>4

(* A step that moves the loop of agent a to w, or no loop, and sends only    *)
(* sound requests.                                                           *)
LEMMA WorkStep ==
    ASSUME BatchInv, [Next]_vars,
           NEW a \in Agents, NEW w, LoopOK(w)',
           \/ w.lease = NULL
           \/ w.lease = work[a].lease
           \/ \A b \in Agents \ {a} : work[b].lease # w.lease,
           work' = work \/ work' = [work EXCEPT ![a] = w],
           \A r \in requests' : r \in requests \/ RequestOK(r)'
    PROVE  BatchInv'
<1>1. IInv'
  BY NextIInv DEF BatchInv
<1>2. work' \in [Agents -> Loop]
  BY DEF BatchInv, LoopOK
<1>3. \A r \in requests' : RequestOK(r)'
  BY Kept DEF BatchInv
<1>4. \A b \in Agents : LoopOK(work[b])'
  <2> SUFFICES ASSUME NEW b \in Agents PROVE LoopOK(work[b])'
    OBVIOUS
  <2>1. PICK v : v = work'[b]
    OBVIOUS
  <2>2. v = work[b] \/ v = w
    BY <2>1 DEF BatchInv
  <2>3. LoopOK(v)'
    BY <2>2, Kept DEF BatchInv
  <2> QED BY <2>1, <2>3 DEF LoopOK, LeaseOK
<1>5. LeasesDistinct'
  <2> SUFFICES ASSUME NEW b \in Agents, NEW c \in Agents, b # c, work'[b].lease # NULL
               PROVE  work'[b].lease # work'[c].lease
    BY DEF LeasesDistinct
  <2>1. work[b].lease # NULL => work[b].lease # work[c].lease
    BY DEF BatchInv, LeasesDistinct
  <2>2. work[c].lease # NULL => work[b].lease # work[c].lease
    BY DEF BatchInv, LeasesDistinct
  <2>3. CASE work' = work
    BY <2>1, <2>3
  <2>4. CASE work' = [work EXCEPT ![a] = w]
    <3>1. \A d \in Agents : work'[d] = IF d = a THEN w ELSE work[d]
      BY <2>4 DEF BatchInv
    <3>2. CASE b = a
      BY <2>1, <3>1, <3>2
    <3>3. CASE c = a
      BY <2>1, <2>2, <3>1, <3>3
    <3>4. CASE b # a /\ c # a
      BY <2>1, <3>1, <3>4
    <3> QED BY <3>2, <3>3, <3>4
  <2> QED BY <2>3, <2>4
<1> QED BY <1>1, <1>2, <1>3, <1>4, <1>5 DEF BatchInv

-----------------------------------------------------------------------------
(* A request nobody waits for any more stays as sound as it was.             *)
LEMMA OrphanOK ==
    ASSUME NEW q, RequestOK(q), NEW r, r = [q EXCEPT !.live = FALSE]
    PROVE  RequestOK(r)
<1>1. r = [kind |-> q.kind, agent |-> q.agent, lease |-> q.lease,
           status |-> q.status, ref |-> q.ref, live |-> FALSE]
  BY DEF RequestOK
<1>2. /\ r.kind = q.kind /\ r.agent = q.agent /\ r.lease = q.lease
      /\ r.status = q.status /\ r.ref = q.ref /\ r.live = FALSE
  BY <1>1
<1>3. r = [kind |-> r.kind, agent |-> r.agent, lease |-> r.lease,
           status |-> r.status, ref |-> r.ref, live |-> r.live]
  BY <1>1, <1>2
<1> QED BY <1>2, <1>3 DEF RequestOK, Stored

(* The steps of an agent leave the queue alone.                              *)
LEMMA AgentStep ==
    ASSUME BatchInv, NEW a \in Agents, Agent(a)
    PROVE  [Next]_vars /\ BatchInv'
<1>0. UNCHANGED vars
  BY DEF Agent, _poll, _upload, _failed, GiveUp, Retry
<1> USE <1>0
<1>1. [Next]_vars /\ IInv
  BY DEF BatchInv
<1>2. work[a] \in Loop /\ LoopOK(work[a]) /\ work \in [Agents -> Loop]
  BY DEF BatchInv
<1>3. \A q \in Lost(a) \cup Orphaned(a) : RequestOK(q)
  BY OrphanOK DEF BatchInv, Lost, Orphaned
<1>4. ASSUME NEW kind, NEW l, NEW status, NEW ref, NEW r,
             r = Request(kind, a, l, status, ref),
             kind # "poll" => LeaseOK(l),
             kind \in {"check", "bind"} => ref \in Refs,
             kind = "result" => status = "failed" /\ ref = NULL
      PROVE  RequestOK(r)
  BY <1>4 DEF RequestOK, Request
<1>5. ASSUME NEW pc \in {"polling", "uploading", "reporting"},
             NEW ref \in Optional(Refs),
             pc = "uploading" => ref \in Refs /\ LeaseOK(work[a].lease)
      PROVE  LoopOK([pc |-> pc, lease |-> work[a].lease, ref |-> ref])
  BY <1>2, <1>5 DEF LoopOK, Loop
<1>6. CASE _poll(a)
  <2>1. PICK r : r = Request("poll", a, NULL, NULL, NULL)
    OBVIOUS
  <2>2. PICK w : w = [pc |-> "polling", lease |-> work[a].lease, ref |-> work[a].ref]
    OBVIOUS
  <2>3. work[a].ref \in Optional(Refs)
    BY <1>2 DEF Loop
  <2>4. RequestOK(r) /\ LoopOK(w)
    BY <1>4, <1>5, <2>1, <2>2, <2>3
  <2>5. work' = [work EXCEPT ![a] = w] /\ w.lease = work[a].lease
    <3>1. w = [work[a] EXCEPT !.pc = "polling"] /\ w.lease = work[a].lease
      BY <1>2, <2>2, <2>3, SMT DEF Loop
    <3> QED BY <1>2, <1>6, <3>1 DEF _poll
  <2>6. requests' = requests \cup {r}
    BY <1>6, <2>1 DEF _poll
  <2> QED BY <1>1, <2>4, <2>5, <2>6, Kept, WorkStep
<1>7. ASSUME NEW ref \in Refs, _upload(a, ref) PROVE BatchInv'
  <2>1. PICK r : r = Request("check", a, work[a].lease, NULL, ref)
    OBVIOUS
  <2>2. PICK w : w = [pc |-> "uploading", lease |-> work[a].lease, ref |-> ref]
    OBVIOUS
  <2>3. LeaseOK(work[a].lease) /\ ref \in Optional(Refs)
    BY <1>2, <1>7 DEF _upload, LoopOK, Optional
  <2>4. RequestOK(r) /\ LoopOK(w)
    BY <1>4, <1>5, <2>1, <2>2, <2>3
  <2>5. work' = [work EXCEPT ![a] = w] /\ w.lease = work[a].lease
    <3>0. PICK pc, l, x : work[a] = [pc |-> pc, lease |-> l, ref |-> x]
      BY <1>2 DEF Loop
    <3>1. w = [work[a] EXCEPT !.pc = "uploading", !.ref = ref] /\ w.lease = work[a].lease
      <4>1. [work[a] EXCEPT !.pc = "uploading"] = [pc |-> "uploading", lease |-> l, ref |-> x]
        BY <3>0, SMT
      <4>2. [[work[a] EXCEPT !.pc = "uploading"] EXCEPT !.ref = ref]
              = [pc |-> "uploading", lease |-> l, ref |-> ref]
        <5>1. PICK y : y = [pc |-> "uploading", lease |-> l, ref |-> x]
          OBVIOUS
        <5>2. [y EXCEPT !.ref = ref] = [pc |-> "uploading", lease |-> l, ref |-> ref]
          BY <5>1, SMT
        <5> QED BY <4>1, <5>1, <5>2
      <4> QED BY <2>2, <3>0, <4>2
    <3> QED BY <1>2, <1>7, <3>1 DEF _upload
  <2>6. requests' = requests \cup {r}
    BY <1>7, <2>1 DEF _upload
  <2> QED BY <1>1, <2>4, <2>5, <2>6, Kept, WorkStep
<1>8. CASE _failed(a)
  <2>1. PICK r : r = Request("result", a, work[a].lease, "failed", NULL)
    OBVIOUS
  <2>2. PICK w : w = [pc |-> "reporting", lease |-> work[a].lease, ref |-> work[a].ref]
    OBVIOUS
  <2>3. LeaseOK(work[a].lease) /\ work[a].ref \in Optional(Refs)
    BY <1>2, <1>8 DEF _failed, LoopOK, Loop
  <2>4. RequestOK(r) /\ LoopOK(w)
    BY <1>4, <1>5, <2>1, <2>2, <2>3, SMT
  <2>5. work' = [work EXCEPT ![a] = w] /\ w.lease = work[a].lease
    <3>1. w = [work[a] EXCEPT !.pc = "reporting"] /\ w.lease = work[a].lease
      BY <1>2, <2>2, <2>3, SMT DEF Loop
    <3> QED BY <1>2, <1>8, <3>1 DEF _failed
  <2>6. requests' = requests \cup {r}
    BY <1>8, <2>1 DEF _failed
  <2> QED BY <1>1, <2>4, <2>5, <2>6, Kept, WorkStep
<1>9. CASE GiveUp(a)
  <2>0. Idle \in Loop /\ Idle.pc = "idle" /\ Idle.lease = NULL
    BY DEF Idle, Loop, Optional
  <2>1. PICK w : w = Idle /\ LoopOK(w) /\ w.lease = NULL
    BY <2>0 DEF LoopOK
  <2>2. work' = [work EXCEPT ![a] = w] /\ \A r \in requests' : RequestOK(r)
    BY <1>3, <1>9, <2>1 DEF GiveUp
  <2> QED BY <1>1, <2>1, <2>2, Kept, WorkStep
<1>10. CASE Retry(a)
  <2>1. PICK kind, r :
          /\ kind \in {"poll", "check"}
          /\ kind = IF work[a].pc = "polling" THEN "poll" ELSE "check"
          /\ r = Request(kind, a, work[a].lease, NULL, work[a].ref)
    BY SMT
  <2>2. kind # "poll" => LeaseOK(work[a].lease) /\ work[a].ref \in Refs
    BY <1>2, <1>10, <2>1 DEF Retry, LoopOK
  <2>3. RequestOK(r)
    BY <1>4, <2>1, <2>2
  <2>4. \A q \in requests' : RequestOK(q)
    BY <1>3, <1>10, <2>1, <2>3 DEF Retry
  <2>5. PICK w : w = work[a]
    OBVIOUS
  <2> QED BY <1>1, <1>2, <1>10, <2>4, <2>5, Kept, WorkStep DEF Retry
<1> QED BY <1>1, <1>6, <1>7, <1>8, <1>9, <1>10 DEF Agent

-----------------------------------------------------------------------------
(* An answer to a request: the loop of an agent that waits for it moves to   *)
(* w, and its next request is sent.                                          *)
LEMMA AnswerStep ==
    ASSUME BatchInv, [Next]_vars, NEW q \in requests,
           NEW w, NEW follow, Answer(q, w, follow), LoopOK(w)',
           \/ w.lease = NULL
           \/ w.lease = work[q.agent].lease
           \/ \A b \in Agents : work[b].lease # w.lease,
           \A r \in follow : RequestOK(r)'
    PROVE  BatchInv'
<1>1. q.agent \in Agents
  BY DEF BatchInv, RequestOK
<1>2. work' = work \/ work' = [work EXCEPT ![q.agent] = w]
  BY DEF Answer
<1>3. \A r \in requests' : r \in requests \/ RequestOK(r)'
  BY DEF Answer
<1> QED BY <1>1, <1>2, <1>3, WorkStep

(* The loop between two polls holds no lease.                               *)
LEMMA IdleOK == LoopOK(Idle) /\ Idle.lease = NULL
BY DEF Idle, LoopOK, Loop, Optional

(* A poll that leases a unit: the attempt is a new one of the unit's job.    *)
LEMMA ServeLeaseStep ==
    ASSUME BatchInv, NEW q \in requests, ServeLease(q)
    PROVE  [Next]_vars /\ BatchInv'
<1>0. PICK models \in SUBSET Models : \E u \in _select_candidate(models) :
        /\ ClaimUnit(q.agent, u)
        /\ Answer(q, Running([unit |-> u, job |-> work_units[u].job,
                              attempt |-> work_units[u].attempts + 1]), {})
  BY DEF ServeLease
<1>1. PICK u \in _select_candidate(models) :
        /\ ClaimUnit(q.agent, u)
        /\ Answer(q, Running([unit |-> u, job |-> work_units[u].job,
                              attempt |-> work_units[u].attempts + 1]), {})
  BY <1>0
<1>2. q.agent \in Agents /\ IInv
  BY DEF BatchInv, RequestOK
<1>3. lease_next(q.agent, models)
  BY <1>1 DEF lease_next
<1>4. [Next]_vars
  BY <1>2, <1>3 DEF Next
<1>5. u \in Units /\ UnitIn(u, {"pending"})
  BY DEF _select_candidate, Runnable
<1>6. /\ work_units[u] \in UnitRow /\ work_units[u].attempts < MaxAttempts
      /\ jobs[work_units[u].job] # NULL
      /\ work_units \in [Units -> Optional(UnitRow)]
  BY <1>2, <1>5 DEF IInv, TypeOK, AttemptsAhead, UnitIn, Optional
<1>7. PICK l, w : /\ l = [unit |-> u, job |-> work_units[u].job,
                          attempt |-> work_units[u].attempts + 1]
                  /\ w = Running(l)
  OBVIOUS
<1>8. /\ l \in Leases /\ l.unit = u /\ l.job = work_units[u].job
      /\ l.attempt = work_units[u].attempts + 1
      /\ l.attempt # _backup_attempt
  BY <1>5, <1>6, <1>7, MaxAttemptsAssumption, SMT DEF Leases, UnitRow, Attempts, _backup_attempt
<1>9. work_units'[u].attempts = l.attempt
  BY <1>1, <1>5, <1>6, <1>8 DEF ClaimUnit, UnitRow
<1>10. LeaseOK(l)'
  <2>1. jobs'[l.job] # NULL
    BY <1>2, <1>4, <1>6, <1>8, JobsStay DEF UnitRow
  <2>2. l.attempt <= work_units'[u].attempts
    BY <1>8, <1>9, MaxAttemptsAssumption, SMT DEF Leases, Attempts
  <2> QED BY <1>8, <2>1, <2>2 DEF LeaseOK
<1>11. LoopOK(w)' /\ w.lease = l
  <2>1. w \in Loop /\ w.pc = "running" /\ w.lease = l
    BY <1>7, <1>8 DEF Running, Loop, Optional
  <2> QED BY <1>10, <2>1 DEF LoopOK
<1>12. l = NULL \/ \A b \in Agents : work[b].lease # l
  <2> SUFFICES ASSUME l # NULL, NEW b \in Agents, work[b].lease = l PROVE FALSE
    OBVIOUS
  <2>1. LeaseOK(l)
    BY DEF BatchInv, LoopOK
  <2>2. l.attempt <= work_units[u].attempts
    BY <1>8, <2>1 DEF LeaseOK
  <2> QED BY <1>6, <1>8, <2>2, SMT DEF UnitRow
<1>13. Answer(q, w, {})
  BY <1>1, <1>7
<1>14. BatchInv'
  BY <1>4, <1>11, <1>12, <1>13, AnswerStep, SMT
<1> QED BY <1>4, <1>14

(* A poll that leases a backup: the unit had none.                           *)
LEMMA ServeBackupStep ==
    ASSUME BatchInv, NEW q \in requests, ServeBackup(q)
    PROVE  [Next]_vars /\ BatchInv'
<1>1. PICK u \in Units :
        /\ lease_backup(q.agent, u)
        /\ Answer(q, Running([unit |-> u, job |-> work_units[u].job,
                              attempt |-> _backup_attempt]), {})
  BY DEF ServeBackup
<1>2. q.agent \in Agents /\ IInv
  BY DEF BatchInv, RequestOK
<1>3. [Next]_vars
  BY <1>1, <1>2 DEF Next
<1>4. /\ work_units[u] \in UnitRow /\ jobs[work_units[u].job] # NULL
      /\ backup_leases[u] = NULL /\ backup_leases \in [Units -> Optional(Agents)]
  BY <1>1, <1>2 DEF lease_backup, UnitIn, IInv, TypeOK, AttemptsAhead, Optional
<1>5. PICK l, w : /\ l = [unit |-> u, job |-> work_units[u].job, attempt |-> _backup_attempt]
                  /\ w = Running(l)
  OBVIOUS
<1>6. /\ l \in Leases /\ l.unit = u /\ l.job = work_units[u].job
      /\ l.attempt = _backup_attempt
  BY <1>4, <1>5, MaxAttemptsAssumption, SMT DEF Leases, UnitRow, Attempts, _backup_attempt
<1>7. LeaseOK(l)'
  <2>1. jobs'[l.job] # NULL /\ backup_leases'[u] = q.agent
    BY <1>1, <1>4, <1>6 DEF lease_backup
  <2>2. q.agent # NULL
    BY <1>2, NullAssumption
  <2> QED BY <1>6, <2>1, <2>2 DEF LeaseOK
<1>8. LoopOK(w)' /\ w.lease = l
  <2>1. w \in Loop /\ w.pc = "running" /\ w.lease = l
    BY <1>5, <1>6 DEF Running, Loop, Optional
  <2> QED BY <1>7, <2>1 DEF LoopOK
<1>9. l = NULL \/ \A b \in Agents : work[b].lease # l
  <2> SUFFICES ASSUME l # NULL, NEW b \in Agents, work[b].lease = l PROVE FALSE
    OBVIOUS
  <2>1. LeaseOK(l)
    BY DEF BatchInv, LoopOK
  <2> QED BY <1>4, <1>6, <2>1 DEF LeaseOK
<1>10. Answer(q, w, {})
  BY <1>1, <1>5
<1>11. BatchInv'
  BY <1>3, <1>8, <1>9, <1>10, AnswerStep, SMT
<1> QED BY <1>3, <1>11

(* The payload route: the check goes on to the binding, and a payload that   *)
(* is bound is followed by its report.                                       *)
LEMMA PayloadStep ==
    ASSUME BatchInv, NEW q \in requests, payload_check(q) \/ payload_bind(q)
    PROVE  [Next]_vars /\ BatchInv'
<1>1. /\ RequestOK(q) /\ IInv /\ q.agent \in Agents /\ q.ref \in Refs
      /\ LeaseOK(q.lease) /\ q.lease.unit \in Units /\ q.lease.attempt \in Attempts
  BY DEF BatchInv, RequestOK, payload_check, payload_bind, LeaseOK, Leases
<1>2. PICK idle : idle = Idle /\ LoopOK(idle) /\ idle.lease = NULL
  BY IdleOK
<1>3. ASSUME payload_check(q) PROVE [Next]_vars /\ BatchInv'
  <2>1. [Next]_vars
    BY <1>3 DEF payload_check
  <2>2. CASE Answer(q, Idle, {})
    BY <1>1, <1>2, <2>1, <2>2, Kept, AnswerStep, SMT
  <2>3. CASE ~Answer(q, Idle, {})
    <3>1. PICK r : r = [q EXCEPT !.kind = "bind"]
      OBVIOUS
    <3>2. requests' = (requests \ {q}) \cup {r} /\ work' = work
      BY <1>3, <2>3, <3>1 DEF payload_check
    <3>3. RequestOK(r)
      <4>1. r = [kind |-> "bind", agent |-> q.agent, lease |-> q.lease,
                 status |-> q.status, ref |-> q.ref, live |-> q.live]
        BY <1>1, <3>1 DEF RequestOK
      <4> QED BY <1>1, <4>1 DEF RequestOK
    <3> QED BY <1>1, <1>2, <2>1, <3>2, <3>3, Kept, WorkStep
  <2> QED BY <2>1, <2>2, <2>3
<1>4. ASSUME payload_bind(q) PROVE [Next]_vars /\ BatchInv'
  <2>1. [Next]_vars
    BY <1>1, <1>4 DEF payload_bind, Next
  <2>2. CASE Answer(q, Idle, {})
    BY <1>1, <1>2, <2>1, <2>2, Kept, AnswerStep, SMT
  <2>3. CASE ~Answer(q, Idle, {})
    <3>1. PICK r, w : /\ r = Request("result", q.agent, q.lease, "succeeded", q.ref)
                      /\ w = [work[q.agent] EXCEPT !.pc = "reporting"]
      OBVIOUS
    <3>2. /\ Answer(q, w, {r})
          /\ \/ bind_result_payload(q.agent, q.lease.unit, q.lease.attempt, q.ref)
             \/ MatchingBinding(q.agent, q.lease.unit, q.lease.attempt, q.ref) /\ UNCHANGED vars
      BY <1>4, <2>3, <3>1 DEF payload_bind
    <3>3. Binds(q.lease.unit, q.lease.attempt, q.agent, q.ref)'
      <4>1. CASE bind_result_payload(q.agent, q.lease.unit, q.lease.attempt, q.ref)
        <5>1. PICK b : b = [agent |-> q.agent, ref |-> q.ref]
          OBVIOUS
        <5>2. bindings'[q.lease.unit][q.lease.attempt] = b
          BY <1>1, <4>1, <5>1 DEF bind_result_payload, IInv, TypeOK
        <5>3. b.agent = q.agent /\ b.ref = q.ref /\ b # NULL
          BY <1>1, <5>1, NullAssumption, SMT DEF BindingRow
        <5> QED BY <5>2, <5>3 DEF Binds
      <4>2. CASE MatchingBinding(q.agent, q.lease.unit, q.lease.attempt, q.ref) /\ UNCHANGED vars
        BY <4>2 DEF MatchingBinding, Binds, vars
      <4> QED BY <3>2, <4>1, <4>2
    <3>4. RequestOK(r)'
      <4>1. r = [kind |-> "result", agent |-> q.agent, lease |-> q.lease,
                 status |-> "succeeded", ref |-> q.ref, live |-> TRUE]
        BY <3>1 DEF Request
      <4>2. LeaseOK(q.lease)'
        BY <1>1, <2>1, Kept
      <4> QED BY <1>1, <3>3, <4>1, <4>2 DEF RequestOK, Stored
    <3>5. LoopOK(w) /\ w.lease = work[q.agent].lease
      <4>1. work[q.agent] \in Loop /\ LoopOK(work[q.agent])
        BY <1>1 DEF BatchInv
      <4>2. w \in Loop /\ w.pc = "reporting" /\ w.lease = work[q.agent].lease
        BY <3>1, <4>1 DEF Loop
      <4> QED BY <4>1, <4>2 DEF LoopOK
    <3> QED BY <1>1, <2>1, <3>2, <3>4, <3>5, Kept, AnswerStep
  <2> QED BY <2>1, <2>2, <2>3
<1> QED BY <1>3, <1>4

(* Every route the coordinator serves makes one call of the queue, or       *)
(* none.                                                                    *)
LEMMA ServeStep ==
    ASSUME BatchInv, NEW q \in requests, Serve(q)
    PROVE  [Next]_vars /\ BatchInv'
<1>1. RequestOK(q) /\ IInv /\ q.agent \in Agents
  BY DEF BatchInv, RequestOK
<1>2. PICK idle : idle = Idle /\ LoopOK(idle) /\ idle.lease = NULL
  BY IdleOK
<1>3. ASSUME [Next]_vars, Answer(q, Idle, {}) PROVE BatchInv'
  BY <1>1, <1>2, <1>3, Kept, AnswerStep, SMT
<1>4. CASE ServeNothing(q)
  BY <1>3, <1>4 DEF ServeNothing
<1>5. CASE result(q)
  <2>1. LeaseOK(q.lease) /\ q.lease.unit \in Units /\ q.lease.attempt \in Attempts
    BY <1>1, <1>5 DEF result, RequestOK, LeaseOK, Leases
  <2>2. PICK r \in Results : r.status = q.status /\ r.ref = q.ref
    <3>1. [status |-> q.status, ref |-> q.ref] \in Results
      BY <1>1, <1>5 DEF result, RequestOK, Results
    <3> QED BY <3>1
  <2>3. [Next]_vars
    BY <1>1, <1>5, <2>1, <2>2 DEF result, Next
  <2> QED BY <1>3, <1>5, <2>3 DEF result
<1> QED BY <1>4, <1>5, ServeLeaseStep, ServeBackupStep, PayloadStep DEF Serve

(* A step of the lane is a step of the queue or leaves the queue alone.     *)
LEMMA BatchStep ==
    ASSUME BatchInv, [BatchNext]_batch_vars
    PROVE  [Next]_vars /\ BatchInv'
<1>1. ASSUME [Next]_vars, UNCHANGED <<work, requests>>
      PROVE  BatchInv'
  <2>1. IInv'
    BY <1>1, NextIInv DEF BatchInv
  <2>2. \A a \in Agents : LoopOK(work[a])'
    <3> SUFFICES ASSUME NEW a \in Agents PROVE LoopOK(work[a])'
      OBVIOUS
    <3>1. PICK w : w = work[a] /\ LoopOK(w)
      BY DEF BatchInv
    <3>2. LoopOK(w)'
      BY <1>1, <3>1, Kept DEF BatchInv
    <3> QED BY <1>1, <3>1, <3>2 DEF LoopOK, LeaseOK
  <2>3. \A q \in requests' : RequestOK(q)'
    BY <1>1, Kept DEF BatchInv
  <2>4. work' \in [Agents -> Loop] /\ LeasesDistinct'
    BY <1>1 DEF BatchInv, LeasesDistinct
  <2> QED BY <2>1, <2>2, <2>3, <2>4 DEF BatchInv
<1>2. CASE \E a \in Agents : Agent(a)
  BY <1>2, AgentStep
<1>3. CASE \E q \in requests : Serve(q)
  BY <1>3, ServeStep
<1>4. CASE Coordinator
  BY <1>1, <1>4 DEF Coordinator, Next
<1>5. CASE UNCHANGED batch_vars
  BY <1>1, <1>5 DEF batch_vars
<1> QED BY <1>2, <1>3, <1>4, <1>5 DEF BatchNext

(* Nothing is leased and nothing in flight at the start.                    *)
LEMMA BatchInitial == BatchInit => BatchInv
<1> SUFFICES ASSUME BatchInit PROVE BatchInv
  OBVIOUS
<1>1. IInv
  BY InitIInv DEF BatchInit
<1>2. \A a \in Agents : work[a] = Idle
  BY DEF BatchInit
<1>3. Idle \in Loop
  BY IdleOK DEF LoopOK
<1> QED BY <1>1, <1>2, <1>3, IdleOK DEF BatchInit, BatchInv, LeasesDistinct

(* In every state of the batch lane the leases, the payloads and the         *)
(* requests in flight agree with the queue.                                  *)
THEOREM BatchInvariant == BatchSpec => []BatchInv
BY BatchInitial, BatchStep, PTL DEF BatchSpec

(* The batch lane implements the queue: whatever the agents do, retry, lose  *)
(* or repeat, each of their requests is one of the calls of Queue, so that   *)
(* its theorems hold of the lane.                                            *)
THEOREM LaneIsQueue == BatchSpec => Spec
<1>1. BatchInit => Init
  BY DEF BatchInit
<1>2. BatchInv /\ [BatchNext]_batch_vars => [Next]_vars
  BY BatchStep
<1> QED BY <1>1, <1>2, BatchInvariant, PTL DEF BatchSpec, Spec

(* No two agents run the same attempt of a unit for the same job.            *)
THEOREM DistinctLeases == BatchSpec => []LeasesDistinct
BY BatchInvariant, PTL DEF BatchInv

(* A report that is under way for the current lease will be accepted.        *)
THEOREM AcceptedReports == BatchSpec => []CurrentReportAccepted
<1>1. BatchInv => CurrentReportAccepted
  <2> SUFFICES ASSUME BatchInv, NEW q \in requests, q.kind = "result",
                      LeasedTo(q.lease.unit, q.agent),
                      work_units[q.lease.unit].job = q.lease.job,
                      work_units[q.lease.unit].attempts = q.lease.attempt
               PROVE  CompletionApplies(q.agent, q.lease.attempt, q.lease.unit, q.status, q.ref)
    BY DEF CurrentReportAccepted
  <2>1. RequestOK(q) /\ IInv /\ LeaseOK(q.lease) /\ q.lease.unit \in Units
    BY DEF BatchInv, RequestOK, LeaseOK, Leases
  <2>2. work_units[q.lease.unit] # NULL /\ unit_results[q.lease.unit] = NULL
    BY <2>1 DEF IInv, DoneHasResult, LeasedTo, UnitIn
  <2>3. q.status = "succeeded" => Binds(q.lease.unit, q.lease.attempt, q.agent, q.ref)
    BY <2>1 DEF RequestOK, Stored
  <2> QED BY <2>2, <2>3 DEF CompletionApplies, _completion_accepted, _result_binding_accepted
<1> QED BY <1>1, BatchInvariant, PTL

=============================================================================
