------------------------------ MODULE Handouts -------------------------------
(***************************************************************************)
(* Who gets the next piece of work: the rotation of the round robin policy *)
(* over the fit machines, and the replica a policy picks for a request,    *)
(* with the counts the machines report and the live counts of the gateway  *)
(* (policies.py, factory.py _build_enriched_pick, service.py _enrich).     *)
(* The ranking of machines by the other policies is in Churn.              *)
(***************************************************************************)
EXTENDS FiniteSets, FiniteSetsExt, Integers, Null

CONSTANTS Machines,      \* agent ids, as numbers in their order
          Ports,         \* replicas, as numbers in the order of their host:port
          Requests,      \* the requests
          MaxCursor,     \* bound: handouts
          MaxReported    \* bound: the count a heartbeat reports

VARIABLES policy,        \* "round_robin" or "capability"
          cursor,        \* RoundRobinScheduler._cursor
          eligible,      \* the machines that pass is_eligible
          handed,        \* machine -> units since the rotation was last disturbed
          reported,      \* replica -> inflight of its last heartbeat
          live,          \* replica -> InflightTracker count
          served,        \* the replicas the registry answers
          asked,         \* request -> the replica that holds it and the candidates, or NULL
          placed         \* replicas picked since a count last fell or was reported, and no session since came to

handout_vars == <<policy, cursor, eligible, handed, reported, live, served, asked, placed>>

Nobody == [a \in Machines |-> 0]

(* The element at a place, from 0, of those that ahead gives the ones      *)
(* before it in their order.                                               *)
At(ahead, i) == CHOOSE e \in DOMAIN ahead : Cardinality(ahead[e]) = i

(* Mutant: the cursor does not count in the rotation.                      *)
FirstAgain(length) == 0

(* Both policies gate alike; this one goes round the sorted machines.      *)
_next_index(length) == cursor % length

select_agent ==
    LET ahead == [m \in eligible |-> {b \in eligible : b < m}]
        a == At(ahead, _next_index(Cardinality(eligible)))
    IN  /\ policy = "round_robin"
        /\ eligible # {}
        /\ cursor < MaxCursor
        /\ cursor' = cursor + 1
        /\ handed' = [handed EXCEPT ![a] = @ + 1]
        /\ UNCHANGED <<policy, eligible, reported, live, served, asked, placed>>

reset ==
    /\ policy = "round_robin"
    /\ cursor' = 0
    /\ handed' = Nobody
    /\ UNCHANGED <<policy, eligible, reported, live, served, asked, placed>>

(***************************************************************************)
(* Picking a replica.                                                      *)
(***************************************************************************)
(* Mutant: the counts of the last heartbeats are taken as they are.        *)
HeartbeatCounts(counts, tracked) == counts

(* The candidates carry the larger of the reported and the live count.     *)
_enrich(counts, tracked) == [r \in DOMAIN counts |-> Max({counts[r], tracked[r]})]

_endpoint_sort_key(counts, r, s) == counts[r] < counts[s] \/ (counts[r] = counts[s] /\ r < s)

(* The replica at a place among the candidates, the least busy first.      *)
Sorted(counts, i) ==
    At([r \in DOMAIN counts |-> {s \in DOMAIN counts : _endpoint_sort_key(counts, s, r)}], i)

LeastBusy(counts) == Sorted(counts, 0)
NextReplica(counts) == Sorted(counts, _next_index(Cardinality(DOMAIN counts)))

pick_replica(counts, tracked) ==
    LET merged == _enrich(counts, tracked)
    IN  IF policy = "capability" THEN LeastBusy(merged) ELSE NextReplica(merged)

(* The rotation is advanced by machines and replicas alike.                *)
Advance ==
    IF policy = "capability" THEN UNCHANGED <<cursor, handed>>
    ELSE cursor < MaxCursor /\ cursor' = cursor + 1 /\ handed' = Nobody

(* A request is resolved, picked and held without an await in between.     *)
Holds(q, r, counts) ==
    /\ asked' = [asked EXCEPT ![q] = [at |-> r, candidates |-> counts]]
    /\ live' = [live EXCEPT ![r] = @ + 1]
    /\ UNCHANGED <<policy, eligible, reported, served>>

Candidates == _enrich([r \in served |-> reported[r]], live)

Route(q) ==
    LET r == pick_replica(Candidates, live)
    IN  /\ asked[q] = NULL
        /\ served # {}
        /\ Advance
        /\ Holds(q, r, Candidates)
        /\ placed' = placed \cup {r}

(* The request of a session goes to the replica remembered for it, if it   *)
(* is among the candidates, whatever its load; the scheduler is not asked. *)
(* The map of sessions is in Gateway: here it may hold any replica.        *)
RouteHit(q, r) ==
    /\ asked[q] = NULL
    /\ Holds(q, r, Candidates)
    /\ placed' = placed \ {r}
    /\ UNCHANGED <<cursor, handed>>

(* The one other attempt, among the candidates as they were counted when   *)
(* the request was resolved.                                               *)
Repick(q) ==
    LET rest == DOMAIN asked[q].candidates \ {asked[q].at}
        freed == [live EXCEPT ![asked[q].at] = @ - 1]
        r == pick_replica([s \in rest |-> asked[q].candidates[s]], freed)
    IN  /\ asked[q] # NULL
        /\ asked[q].candidates # <<>>
        /\ rest # {}
        /\ Advance
        /\ asked' = [asked EXCEPT ![q] = [at |-> r, candidates |-> <<>>]]
        /\ live' = [freed EXCEPT ![r] = @ + 1]
        /\ placed' = {}
        /\ UNCHANGED <<policy, eligible, reported, served>>

Finish(q) ==
    /\ asked[q] # NULL
    /\ live' = [live EXCEPT ![asked[q].at] = @ - 1]
    /\ asked' = [asked EXCEPT ![q] = NULL]
    /\ placed' = {}
    /\ UNCHANGED <<policy, cursor, eligible, handed, reported, served>>

(* A query is embedded by a replica picked in the same way, and not held;  *)
(* each of its attempts picks.                                             *)
EmbedAttempt ==
    /\ served # {}
    /\ policy = "round_robin"
    /\ Advance
    /\ UNCHANGED <<policy, eligible, reported, live, served, asked, placed>>

(***************************************************************************)
(* Heartbeats: the fit machines, what they report, who serves.  Bound: the *)
(* first changes under the one policy and the others under the other,      *)
(* which are the ones the properties below speak of.                       *)
(***************************************************************************)
Gate(S) ==
    /\ policy = "round_robin"
    /\ eligible' = S
    /\ handed' = Nobody
    /\ UNCHANGED <<policy, cursor, reported, live, served, asked, placed>>

Report(r, n) ==
    /\ policy = "capability"
    /\ reported' = [reported EXCEPT ![r] = n]
    /\ placed' = {}
    /\ UNCHANGED <<policy, cursor, eligible, handed, live, served, asked>>

Serve(S) ==
    /\ policy = "capability"
    /\ served' = S
    /\ placed' = {}
    /\ UNCHANGED <<policy, cursor, eligible, handed, reported, live, asked>>

HandoutInit ==
    /\ policy \in {"round_robin", "capability"}
    /\ cursor = 0
    /\ eligible = Machines
    /\ handed = Nobody
    /\ reported = [r \in Ports |-> 0]
    /\ live = [r \in Ports |-> 0]
    /\ served = Ports
    /\ asked = [q \in Requests |-> NULL]
    /\ placed = {}

HandoutNext ==
    \/ select_agent
    \/ reset
    \/ EmbedAttempt
    \/ \E q \in Requests : Route(q) \/ Repick(q) \/ Finish(q)
    \/ \E q \in Requests, r \in served : RouteHit(q, r)
    \/ \E S \in SUBSET Machines : Gate(S)
    \/ \E r \in Ports, n \in 0..MaxReported : Report(r, n)
    \/ \E S \in SUBSET Ports : Serve(S)

(***************************************************************************)
(* Properties.                                                             *)
(***************************************************************************)
(* The rotation over machines is fair, wherever the cursor stands when it  *)
(* begins: as long as the same machines are eligible and no replica is     *)
(* picked in between, none gets two units more than another                *)
(* (RoundRobinScheduler).                                                  *)
RotationIsFair == \A a, b \in eligible : handed[a] <= handed[b] + 1

Load(r) == Max({reported[r], live[r]})

(* Picking the least busy levels the replicas: as long as no count falls   *)
(* and no heartbeat changes one, a replica that was picked is at most one  *)
(* request busier than any other the registry answers, although the counts *)
(* of the heartbeats lag behind those of the gateway (CapabilityScheduler, *)
(* _build_enriched_pick).  It says nothing of a replica that sessions came *)
(* back to since it was picked: AffinityMap.resolve sends them there       *)
(* whatever its load, and only the next picks make up for it.              *)
LoadsAreLevel ==
    policy = "capability" => \A r \in placed \cap served, s \in served : Load(r) <= Load(s) + 1

HandoutsFair == RotationIsFair /\ LoadsAreLevel

=============================================================================
