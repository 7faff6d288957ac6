----------------------------- MODULE BatchWork -----------------------------
(***************************************************************************)
(* The batch lane end to end: the agents' work loops, the HTTP requests    *)
(* between them and the coordinator, and the queue.                        *)
(*                                                                         *)
(* A request stays in flight until the coordinator answers it.  The agent  *)
(* may stop waiting at any moment (transport error, lease slack); the      *)
(* request is then orphaned (live = FALSE): the coordinator may still act  *)
(* on it, late, and the answer is lost.                                    *)
(***************************************************************************)
EXTENDS Queue

CONSTANTS
    MaxOrphans,     \* bound on the orphaned requests in flight
    Backups         \* speculative_backup_enabled

ASSUME BatchAssumption == MaxOrphans \in Nat /\ Backups \in BOOLEAN

VARIABLES
    work,       \* per agent: where its work loop is, and the lease it runs
    requests    \* the requests in flight

batch_vars == <<vars, work, requests>>

Leases == [unit : Units, job : Jobs, attempt : Attempts]

Idle == [pc |-> "idle", lease |-> NULL, ref |-> NULL]

Kinds == {"poll", "check", "bind", "result"}

Request(kind, a, lease, status, ref) ==
    [kind |-> kind, agent |-> a, lease |-> lease, status |-> status, ref |-> ref, live |-> TRUE]

BatchInit ==
    /\ Init
    /\ work = [a \in Agents |-> Idle]
    /\ requests = {}

Orphans == {q \in requests : ~q.live}

(* What is in flight after agent a stops waiting for its answer.             *)
Lost(a) == {q \in requests : q.agent # a \/ ~q.live}

Orphaned(a) == Lost(a) \cup {[q EXCEPT !.live = FALSE] : q \in {r \in requests : r.agent = a}}

-----------------------------------------------------------------------------
(* The agent: WorkLoop.tick and what it calls.                               *)

_poll(a) ==
    /\ work[a].pc = "idle"
    /\ work' = [work EXCEPT ![a].pc = "polling"]
    /\ requests' = requests \cup {Request("poll", a, NULL, NULL, NULL)}
    /\ UNCHANGED <<vars>>

(* The unit ran; its payload is sent.                                        *)
_upload(a, ref) ==
    /\ work[a].pc = "running"
    /\ work' = [work EXCEPT ![a].pc = "uploading", ![a].ref = ref]
    /\ requests' = requests \cup {Request("check", a, work[a].lease, NULL, ref)}
    /\ UNCHANGED <<vars>>

(* The unit raised: a FAILED result is reported without an upload.           *)
_failed(a) ==
    /\ work[a].pc = "running"
    /\ work' = [work EXCEPT ![a].pc = "reporting"]
    /\ requests' = requests \cup {Request("result", a, work[a].lease, "failed", NULL)}
    /\ UNCHANGED <<vars>>

(* The agent stops waiting: a failed poll or report, an upload out of        *)
(* retries, or the slack of the lease.  It reports nothing more.  What it    *)
(* sent is lost, or is orphaned and may yet be served.                       *)
GiveUp(a) ==
    /\ work[a].pc # "idle"
    /\ work' = [work EXCEPT ![a] = Idle]
    /\ \/ requests' = Lost(a)
       \/ Cardinality(Orphans) < MaxOrphans /\ requests' = Orphaned(a)
    /\ UNCHANGED <<vars>>

(* A transport error during a poll or an upload: the same request is sent    *)
(* again.                                                                    *)
Retry(a) ==
    /\ work[a].pc \in {"polling", "uploading"}
    /\ LET again == Request(IF work[a].pc = "polling" THEN "poll" ELSE "check",
                            a, work[a].lease, NULL, work[a].ref)
       IN  \/ requests' = Lost(a) \cup {again}
           \/ Cardinality(Orphans) < MaxOrphans /\ requests' = Orphaned(a) \cup {again}
    /\ UNCHANGED <<vars, work>>

-----------------------------------------------------------------------------
(* The coordinator's routes.  Answer(q, w) removes the request and, if its   *)
(* agent still waits, moves the agent's loop to w.                           *)

Answer(q, w, follow) ==
    /\ requests' = (requests \ {q}) \cup (IF q.live THEN follow ELSE {})
    /\ work' = IF q.live THEN [work EXCEPT ![q.agent] = w] ELSE work

Running(lease) == [pc |-> "running", lease |-> lease, ref |-> NULL]

(* _try_lease for an agent that the registry and the policy let work.        *)
ServeLease(q) ==
    \E models \in SUBSET Models : \E u \in _select_candidate(models) :
        /\ q.kind = "poll"
        /\ ClaimUnit(q.agent, u)
        /\ Answer(q, Running([unit |-> u, job |-> work_units[u].job,
                              attempt |-> work_units[u].attempts + 1]), {})

(* _try_backup_lease: nothing pending for the agent's models, and the        *)
(* scheduler picks one of the candidates.                                    *)
ServeBackup(q) ==
    \E models \in SUBSET Models, u \in Units :
        /\ q.kind = "poll" /\ Backups
        /\ models # {} /\ Runnable(models) = {}
        /\ unit_results[u] = NULL
        /\ lease_backup(q.agent, u)
        /\ jobs[work_units[u].job].request.model \in models
        /\ Answer(q, Running([unit |-> u, job |-> work_units[u].job,
                              attempt |-> _backup_attempt]), {})

(* The long poll ends with 204.                                              *)
ServeNothing(q) ==
    /\ q.kind = "poll"
    /\ Answer(q, Idle, {})
    /\ UNCHANGED <<vars>>

(* The payload route checks the lease before it takes the body ...           *)
payload_check(q) ==
    /\ q.kind = "check"
    /\ IF result_upload_attempt(q.agent, q.lease.unit) = q.lease.attempt
       THEN /\ requests' = (requests \ {q}) \cup {[q EXCEPT !.kind = "bind"]}
            /\ UNCHANGED work
       ELSE Answer(q, Idle, {})
    /\ UNCHANGED <<vars>>

(* Mutant: any payload of the attempt counts as the one uploaded.            *)
AnyPayload(a, u, k, ref) == bindings[u][k] # NULL /\ MayBind(a, u, k)

(* The binding that a repeated upload finds, for the primary or the backup.  *)
MatchingBinding(a, u, k, ref) ==
    /\ Binds(u, k, a, ref)
    /\ \/ LeasedTo(u, a) /\ work_units[u].attempts = k
       \/ backup_leases[u] = a /\ k = _backup_attempt

(* ... and binds the digest once the body is stored.  A refused upload is    *)
(* deferred: the agent reports nothing.                                      *)
payload_bind(q) ==
    LET u == q.lease.unit
        k == q.lease.attempt
        report == {Request("result", q.agent, q.lease, "succeeded", q.ref)}
        told == [work[q.agent] EXCEPT !.pc = "reporting"]
        matches == MatchingBinding(q.agent, u, k, q.ref)
    IN  /\ q.kind = "bind"
        /\ \/ bind_result_payload(q.agent, u, k, q.ref) /\ Answer(q, told, report)
           \/ matches /\ UNCHANGED vars /\ Answer(q, told, report)
           \/ /\ ~matches
              /\ ~MayBind(q.agent, u, k) \/ bindings[u][k] # NULL
              /\ UNCHANGED vars
              /\ Answer(q, Idle, {})

(* The result route; both answers (200 and 409) end the agent's iteration.   *)
result(q) ==
    /\ q.kind = "result"
    /\ \/ /\ complete_unit(q.agent, q.lease.attempt, q.lease.unit, q.status, q.ref)
       \/ /\ ~CompletionApplies(q.agent, q.lease.attempt, q.lease.unit, q.status, q.ref)
          /\ UNCHANGED <<vars>>
    /\ Answer(q, Idle, {})

-----------------------------------------------------------------------------
Agent(a) ==
    \/ _poll(a)
    \/ \E ref \in Refs : _upload(a, ref)
    \/ _failed(a)
    \/ GiveUp(a)
    \/ Retry(a)

Serve(q) ==
    \/ ServeLease(q)
    \/ ServeBackup(q)
    \/ ServeNothing(q)
    \/ payload_check(q)
    \/ payload_bind(q)
    \/ result(q)

(* submit_job, the lease clock, tick of the dispatch sweep, and the offline  *)
(* eviction's requeue.                                                       *)
Coordinator ==
    /\ \/ \E j \in Jobs, s \in Submissions : submit_job(j, s)
       \/ \E u \in Units : LeaseLapses(u)
       \/ requeue_expired
       \/ \E a \in Agents : requeue_agent(a)
    /\ UNCHANGED <<work, requests>>

BatchNext ==
    \/ \E a \in Agents : Agent(a)
    \/ \E q \in requests : Serve(q)
    \/ Coordinator

BatchSpec == BatchInit /\ [][BatchNext]_batch_vars

(* The loops keep going: an agent polls again, a wait ends (every await of   *)
(* the work loop is under a timeout), leases run out, and the sweep of       *)
(* run_forever survives its errors.  Polls that find the agent eligible      *)
(* recur.                                                                    *)
Fairness ==
    /\ \A a \in Agents : WF_batch_vars(_poll(a)) /\ WF_batch_vars(GiveUp(a))
    /\ \A u \in Units : WF_batch_vars(LeaseLapses(u) /\ UNCHANGED <<work, requests>>)
    /\ WF_batch_vars(requeue_expired /\ UNCHANGED <<work, requests>>)
    /\ SF_batch_vars(\E q \in requests : ServeLease(q))

FairBatchSpec == BatchSpec /\ Fairness

-----------------------------------------------------------------------------
(* No two agents ever run the same attempt of a unit for the same job: the   *)
(* attempt a lease carries names one holder, across lost answers, expiry,    *)
(* backups and late requests.                                                *)
LeasesDistinct ==
    \A a, b \in Agents :
        a # b /\ work[a].lease # NULL => work[a].lease # work[b].lease

(* A report that is under way for the lease that is current will be          *)
(* accepted: no late upload or report of an earlier request can make the     *)
(* coordinator refuse what the holder was told is stored.                    *)
CurrentReportAccepted ==
    LET Holds(q) == /\ LeasedTo(q.lease.unit, q.agent)
                    /\ work_units[q.lease.unit].job = q.lease.job
                    /\ work_units[q.lease.unit].attempts = q.lease.attempt
    IN  \A q \in {r \in requests : r.kind = "result" /\ r.live} :
            Holds(q) => CompletionApplies(q.agent, q.lease.attempt, q.lease.unit,
                                          q.status, q.ref)

=============================================================================
