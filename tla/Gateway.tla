------------------------------ MODULE Gateway ------------------------------
(***************************************************************************)
(* The inference gateway of the coordinator (gateway/router.py, service.py, *)
(* admission.py, affinity.py, inflight.py, proxy.py, streaming.py).        *)
(*                                                                         *)
(* A request is authenticated and parsed, waits in the FIFO lane of its    *)
(* model until a probe of the registry finds a replica, is sent to that    *)
(* replica and at most one other, and is answered.  The event loop runs    *)
(* one handler at a time up to its next await, which is the grain of an    *)
(* action here; the lock of the waiting room is never held across an       *)
(* await, so entering, testing the head and leaving are part of the step   *)
(* that does them.                                                         *)
(***************************************************************************)
EXTENDS Integers, Sequences, SequencesExt, FiniteSetsExt

CONSTANTS
    Requests,       \* the HTTP requests a behaviour may bring
    Models,         \* model ids, the keys of the lanes
    Bodies,         \* what a request asks for: the model, the session or NULL, a stream or not
    Endpoints,      \* replica endpoints
    ModelOf,        \* the model an endpoint serves
    Capacity,       \* admission_capacity
    MaxPolls,       \* polls of a lane that fit into admission_timeout_s
    AffinityMax,    \* affinity_max
    AffinityTtl,    \* affinity_ttl_s, in ticks
    MaxNow,         \* bound on the ticks
    NULL

ASSUME GatewayAssumption ==
    /\ ModelOf \in [Endpoints -> Models]
    /\ \A body \in Bodies : body.model \in Models /\ body.stream \in BOOLEAN
    /\ Capacity \in Nat \ {0}
    /\ MaxPolls \in Nat
    /\ AffinityMax \in Nat \ {0}
    /\ AffinityTtl \in Nat \ {0}
    /\ MaxNow \in Nat

VARIABLES
    requests,   \* the handler of each request, NULL before it arrives
    lanes,      \* _lanes: per model, the tickets in order
    waiting,    \* _waiting
    entries,    \* _entries of the affinity map, least recently touched first
    counts,     \* _counts of the in-flight tracker
    log,        \* the records written for each request
    now         \* the clock of the affinity map

gateway_vars == <<requests, lanes, waiting, entries, counts, log, now>>

MaxAttempts == 2

(* The key of the affinity map holds the model.                             *)
derive_session_key(body) == IF body.session = NULL THEN NULL ELSE <<body.model, body.session>>

Done(status) == [pc |-> "done", status |-> status]

InRoom(r) == requests[r] # NULL /\ requests[r].pc \in {"probing", "sleeping"}

(* Dialling a replica, or forwarding the body it streams.                    *)
AtReplica(r) == requests[r] # NULL /\ requests[r].pc \in {"trying", "streaming"}

GatewayInit ==
    /\ requests = [r \in Requests |-> NULL]
    /\ lanes = [m \in Models |-> <<>>]
    /\ waiting = 0
    /\ entries = <<>>
    /\ counts = [e \in Endpoints |-> 0]
    /\ log = [r \in Requests |-> <<>>]
    /\ now = 0

----------------------------------------------------------------------------
(* The affinity map.                                                         *)

(* Entries leave from the front, up to the first one that is not idle for    *)
(* the whole lifetime.                                                       *)
_expire(es) ==
    LET expired == {n \in 0..Len(es) : \A i \in 1..n : now - es[i].touched_at >= AffinityTtl}
    IN  SubSeq(es, Max(expired) + 1, Len(es))

Without(es, key) == SelectSeq(es, LAMBDA x : x.key # key)

Lookup(es, key) == {x \in ToSet(es) : x.key = key}

(* Mutant of remember: the entry keeps its place.                            *)
RememberInPlace(es, key, e) ==
    LET old == _expire(es)
        fresh == [key |-> key, endpoint |-> e, touched_at |-> now]
        kept == IF Lookup(old, key) = {} THEN Append(old, fresh)
                ELSE [i \in DOMAIN old |-> IF old[i].key = key THEN fresh ELSE old[i]]
    IN  SubSeq(kept, Max({1, Len(kept) - AffinityMax + 1}), Len(kept))

(* The key moves to the end; the least recently touched entries go when the  *)
(* map is over its limit.                                                    *)
remember(es, key, e) ==
    LET kept == Append(Without(_expire(es), key), [key |-> key, endpoint |-> e, touched_at |-> now])
    IN  SubSeq(kept, Max({1, Len(kept) - AffinityMax + 1}), Len(kept))

forget(es, key) == IF key = NULL THEN es ELSE Without(es, key)

(* pick is the choice of the scheduler among the candidates.                 *)
resolve(es, key, candidates, pick) ==
    LET kept == _expire(es)
        found == Lookup(kept, key)
        mapped == (CHOOSE x \in found : TRUE).endpoint
        Missed(rest) == [endpoint |-> pick, entries |-> IF pick = NULL THEN rest ELSE remember(rest, key, pick)]
    IN  IF key = NULL THEN [endpoint |-> pick, entries |-> es]
        ELSE IF found = {} THEN Missed(kept)
        ELSE IF mapped \in candidates
             THEN [endpoint |-> mapped, entries |-> remember(kept, key, mapped)]
        ELSE IF candidates = {} THEN [endpoint |-> NULL, entries |-> kept]
        ELSE Missed(Without(kept, key))

Picks(candidates) == IF candidates = {} THEN {NULL} ELSE candidates

----------------------------------------------------------------------------
(* The in-flight tracker.                                                    *)

hold(cs, e) == [cs EXCEPT ![e] = @ + 1]

release(cs, e) == [cs EXCEPT ![e] = Max({0, @ - 1})]

_record(r, status, agent) == log' = [log EXCEPT ![r] = Append(@, [status |-> status, agent |-> agent])]

----------------------------------------------------------------------------
(* Arrival: authentication, quota (see Quota), parsing and checks.  A        *)
(* refused request is answered at once, with 400, 401, 403, 404, 422 or 429, *)
(* and leaves no record.                                                     *)

Refuse(r) ==
    /\ requests[r] = NULL
    /\ requests' = [requests EXCEPT ![r] = Done("refused")]
    /\ UNCHANGED <<lanes, waiting, entries, counts, log, now>>

(* Mutant of _is_head: any ticket of the lane may probe.                     *)
AnyTicket(m, r) == Contains(lanes[m], r)

_is_head(m, r) == lanes[m] # <<>> /\ Head(lanes[m]) = r

(* A newcomer is turned away when the room is full, unless its lane is empty:*)
(* then it may probe once.  admission_timeout_s is positive here; at 0 there *)
(* is no waiting room, and a request probes once without a ticket.           *)
wait(r, body) ==
    LET over == waiting >= Capacity
        empty == lanes[body.model] = <<>>
    IN  IF over /\ ~empty
        THEN /\ requests' = [requests EXCEPT ![r] = Done("shed")]
             /\ _record(r, "shed", NULL)
             /\ UNCHANGED <<lanes, waiting>>
        ELSE /\ requests' = [requests EXCEPT ![r] = [pc |-> IF empty THEN "probing" ELSE "sleeping",
                                                     body |-> body, over |-> over, polls |-> 0]]
             /\ lanes' = [lanes EXCEPT ![body.model] = Append(@, r)]
             /\ waiting' = waiting + 1
             /\ UNCHANGED log

Arrive(r) ==
    /\ requests[r] = NULL
    /\ \E body \in Bodies : wait(r, body)
    /\ UNCHANGED <<entries, counts, now>>

(* Mutant of _remove: the place in the room is not given back.               *)
RemoveUncounted(m, r) == lanes' = [lanes EXCEPT ![m] = Remove(@, r)] /\ UNCHANGED waiting

_remove(m, r) ==
    LET held == Contains(lanes[m], r)
    IN  /\ lanes' = [lanes EXCEPT ![m] = Remove(@, r)]
        /\ waiting' = IF held THEN waiting - 1 ELSE waiting

(* The request leaves the room unserved.  A timeout forgets its session.     *)
Shed(r, timeout, es) ==
    LET body == requests[r].body
    IN  /\ _remove(body.model, r)
        /\ entries' = IF timeout THEN forget(es, derive_session_key(body)) ELSE es
        /\ requests' = [requests EXCEPT ![r] = Done("shed")]
        /\ _record(r, "shed", NULL)
        /\ UNCHANGED counts

(* The probe at the head of the lane reads the ready endpoints, any of those *)
(* that serve the model, and asks the affinity map.  A find that comes after *)
(* the deadline is dropped.                                                  *)
Probe(r) ==
    /\ requests[r] # NULL /\ requests[r].pc = "probing"
    /\ LET q == requests[r]
       IN  \E candidates \in SUBSET {e \in Endpoints : ModelOf[e] = q.body.model} :
           \E pick \in Picks(candidates), late \in BOOLEAN :
              LET found == resolve(entries, derive_session_key(q.body), candidates, pick)
              IN  \/ /\ late
                     /\ Shed(r, TRUE, found.entries)
                  \/ /\ ~late
                     /\ found.endpoint # NULL
                     /\ _remove(q.body.model, r)
                     /\ entries' = found.entries
                     /\ counts' = hold(counts, found.endpoint)
                     /\ requests' = [requests EXCEPT ![r] =
                           [pc |-> "trying", body |-> q.body, candidates |-> candidates,
                            endpoint |-> found.endpoint, tried |-> {}, last_5xx |-> NULL]]
                     /\ UNCHANGED log
                  \/ /\ ~late
                     /\ found.endpoint = NULL
                     /\ q.polls = 0 /\ q.over
                     /\ Shed(r, FALSE, found.entries)
                  \/ /\ ~late
                     /\ found.endpoint = NULL
                     /\ ~(q.polls = 0 /\ q.over)
                     /\ requests' = [requests EXCEPT ![r].pc = "sleeping"]
                     /\ entries' = found.entries
                     /\ UNCHANGED <<lanes, waiting, counts, log>>
    /\ UNCHANGED now

(* The registry raises inside the probe: the ticket goes and the exception   *)
(* leaves the handler.                                                       *)
ProbeFails(r) ==
    /\ requests[r] # NULL /\ requests[r].pc = "probing"
    /\ _remove(requests[r].body.model, r)
    /\ requests' = [requests EXCEPT ![r] = Done("raised")]
    /\ UNCHANGED <<entries, counts, log, now>>

(* A sleeper wakes.  It gives up at its deadline, which is certain after     *)
(* MaxPolls polls; otherwise it probes if it is the head of its lane.        *)
Wake(r) ==
    /\ requests[r] # NULL /\ requests[r].pc = "sleeping"
    /\ LET q == requests[r]
       IN  \/ Shed(r, TRUE, entries)
           \/ /\ q.polls < MaxPolls
              /\ requests' = [requests EXCEPT
                    ![r].polls = @ + 1,
                    ![r].pc = IF _is_head(q.body.model, r) THEN "probing" ELSE "sleeping"]
              /\ UNCHANGED <<lanes, waiting, entries, counts, log>>
    /\ UNCHANGED now

(* The client goes away while its request waits.                             *)
CancelWaiting(r) ==
    /\ InRoom(r)
    /\ _remove(requests[r].body.model, r)
    /\ requests' = [requests EXCEPT ![r] = Done("cancelled")]
    /\ _record(r, "cancelled", NULL)
    /\ UNCHANGED <<entries, counts, now>>

----------------------------------------------------------------------------
(* The attempts: the first pick and at most one other, both before a byte    *)
(* has reached the client.                                                   *)

RespondReleases(r) ==
    LET q == requests[r]
    IN  /\ requests' = [requests EXCEPT ![r] = IF q.body.stream
                                               THEN [pc |-> "streaming", endpoint |-> q.endpoint]
                                               ELSE Done("served")]
        /\ counts' = release(counts, q.endpoint)
        /\ IF q.body.stream THEN UNCHANGED log ELSE _record(r, "served", q.endpoint)
        /\ UNCHANGED entries

(* A response: a session is bound to the endpoint that gave it.  A stream    *)
(* keeps its hold until its body ends.                                       *)
Respond(r) ==
    LET q == requests[r]
        key == derive_session_key(q.body)
    IN  /\ entries' = IF key = NULL THEN entries ELSE remember(entries, key, q.endpoint)
        /\ IF q.body.stream
           THEN /\ requests' = [requests EXCEPT ![r] = [pc |-> "streaming", endpoint |-> q.endpoint]]
                /\ UNCHANGED <<counts, log>>
           ELSE /\ requests' = [requests EXCEPT ![r] = Done("served")]
                /\ counts' = release(counts, q.endpoint)
                /\ _record(r, "served", q.endpoint)

(* Both attempts are spent: the last server error is passed on, or there was *)
(* no upstream at all.                                                       *)
GiveUp(r, last_5xx) ==
    LET key == derive_session_key(requests[r].body)
    IN  /\ counts' = release(counts, requests[r].endpoint)
        /\ entries' = IF key # NULL /\ last_5xx # NULL
                      THEN remember(entries, key, last_5xx)
                      ELSE forget(entries, key)
        /\ requests' = [requests EXCEPT ![r] = Done(IF last_5xx # NULL THEN "server_error" ELSE "no_upstream")]
        /\ _record(r, "error", last_5xx)

_make_repick(q, tried) == Picks(q.candidates \ tried)

(* The attempt fails, with a server error or because the replica cannot be   *)
(* reached, and the request goes to another of the candidates it was given.  *)
Retry(r, server_error) ==
    LET q == requests[r]
        tried == q.tried \cup {q.endpoint}
        last_5xx == IF server_error THEN q.endpoint ELSE q.last_5xx
    IN  IF Cardinality(tried) >= MaxAttempts
        THEN GiveUp(r, last_5xx)
        ELSE \E e \in _make_repick(q, tried) :
                IF e = NULL
                THEN GiveUp(r, last_5xx)
                ELSE /\ counts' = hold(release(counts, q.endpoint), e)
                     /\ requests' = [requests EXCEPT ![r].endpoint = e, ![r].tried = tried,
                                                     ![r].last_5xx = last_5xx]
                     /\ UNCHANGED <<entries, log>>

(* The agent of a relay reported that its failure is not to be retried: it   *)
(* is answered as a server error at once.                                    *)
_on_failure(r) == GiveUp(r, requests[r].endpoint)

_run_attempts(r) ==
    /\ requests[r] # NULL /\ requests[r].pc = "trying"
    /\ \/ Respond(r)
       \/ \E server_error \in BOOLEAN : Retry(r, server_error)
       \/ _on_failure(r)
    /\ UNCHANGED <<lanes, waiting, now>>

(* An error outside the retryable ones, or a cancellation, leaves            *)
(* _run_attempts and the handler: neither releases the hold nor records.     *)
AttemptRaises(r) ==
    /\ requests[r] # NULL /\ requests[r].pc = "trying"
    /\ requests' = [requests EXCEPT ![r] = Done("raised")]
    /\ UNCHANGED <<lanes, waiting, entries, counts, log, now>>

(* The body ends, stalls, breaks off or loses its client.                    *)
StreamEnds(r) ==
    /\ requests[r] # NULL /\ requests[r].pc = "streaming"
    /\ requests' = [requests EXCEPT ![r] = Done("served")]
    /\ counts' = release(counts, requests[r].endpoint)
    /\ _record(r, "served", requests[r].endpoint)
    /\ UNCHANGED <<lanes, waiting, entries, now>>

----------------------------------------------------------------------------
Tick ==
    /\ now < MaxNow
    /\ now' = now + 1
    /\ UNCHANGED <<requests, lanes, waiting, entries, counts, log>>

Handle(r) == Probe(r) \/ Wake(r) \/ _run_attempts(r) \/ StreamEnds(r)

GatewayNext ==
    \/ \E r \in Requests : \/ Refuse(r) \/ Arrive(r) \/ Handle(r)
                           \/ ProbeFails(r) \/ CancelWaiting(r) \/ AttemptRaises(r)
    \/ Tick

GatewaySpec == GatewayInit /\ [][GatewayNext]_gateway_vars
----------------------------------------------------------------------------
(* The tickets of a lane are those of the requests that wait in it, each     *)
(* once, whoever was cancelled, timed out or failed in the meantime; the     *)
(* shared counter agrees with the lanes; and no more requests sleep in the   *)
(* room than it has places, although a request may probe beyond them         *)
(* (admission.py wait, _remove, _remove_uncancellable).                      *)
WaitingRoomSound ==
    /\ \A m \in Models :
          /\ ToSet(lanes[m]) = {r \in Requests : InRoom(r) /\ requests[r].body.model = m}
          /\ IsInjective(lanes[m])
    /\ waiting = Cardinality({r \in Requests : InRoom(r)})
    /\ Cardinality({r \in Requests : InRoom(r) /\ requests[r].pc = "sleeping"}) <= Capacity

(* A request is not admitted while an older one waits in its lane: the       *)
(* waiting room promises to wait "without allowing newer requests past older *)
(* peers" (admission.py wait, _is_head).                                     *)
NoQueueJumping ==
    [][\A m \in Models : \A i, j \in DOMAIN lanes[m] :
          i < j /\ requests'[lanes[m][j]].pc = "trying" => ~Contains(lanes'[m], lanes[m][i])]_gateway_vars

(* A routed request leaves exactly one record when it ends, with the agent   *)
(* whose response the client got; only an exception that leaves the handler  *)
(* ends one without a record (service.py _record and its callers).           *)
OneRecord ==
    \A r \in Requests :
        /\ Len(log[r]) <= 1
        /\ requests[r] = NULL \/ requests[r].pc # "done" => log[r] = <<>>
        /\ requests[r] # NULL /\ requests[r].pc = "done" /\ requests[r].status \notin {"refused", "raised"}
              => /\ Len(log[r]) = 1
                 /\ log[r][1].agent # NULL <=> requests[r].status \in {"served", "server_error"}

(* A replica at work on a request is counted as busy for as long, so the     *)
(* scheduler is never told that it is idle, and a retry never goes to a      *)
(* replica that failed for the same request (inflight.py, proxy.py           *)
(* _run_attempts, stream_body).                                              *)
BusyIsCounted ==
    /\ \A e \in Endpoints :
          counts[e] >= Cardinality({r \in Requests : AtReplica(r) /\ requests[r].endpoint = e})
    /\ \A r \in Requests :
          requests[r] # NULL /\ requests[r].pc = "trying" => requests[r].endpoint \notin requests[r].tried

(* The affinity map stays within its limit, holds a session once, and its    *)
(* order is that of the last touches: only then does an expiry that stops at *)
(* the first fresh entry leave no stale one (affinity.py remember, _expire). *)
AffinityOrdered ==
    /\ Len(entries) <= AffinityMax
    /\ \A i, j \in DOMAIN entries :
          i < j => /\ entries[i].key # entries[j].key
                   /\ entries[i].touched_at <= entries[j].touched_at

(* Both: a request leaves one record, and its replica is counted as busy for *)
(* as long as it works on it (service.py _record, inflight.py).              *)
RequestsAccounted == OneRecord /\ BusyIsCounted
============================================================================
