------------------------------ MODULE Registry ------------------------------
(***************************************************************************)
(* The coordinator's registry (registry/sqlite_registry.py) under the      *)
(* routes and the sweep that write to it (app/agent_routes.py,             *)
(* app/admin_routes.py, app/background.py).                                *)
(*                                                                         *)
(* Every request runs on one aiosqlite connection.  The connection runs    *)
(* statements one at a time but it does not keep the transactions of two   *)
(* requests apart: db is what the connection sees, disk what is committed, *)
(* COMMIT writes everything pending and ROLLBACK drops everything pending, *)
(* whoever executed it.  A request is a slot with a program counter, and   *)
(* each of its steps is one statement or one call of the relay broker.     *)
(* The broker is reduced to its fence and to the generations of what it    *)
(* holds for an agent; RelayBroker has the rest.                           *)
(***************************************************************************)
EXTENDS Integers, Null, TLC

(* NULL in a slot: the request is not made yet.                              *)
CONSTANTS
    Agents,         \* agent ids
    Enrolled,       \* the agents already enrolled
    Tokens,         \* enrollment tokens
    SiteTokens,     \* the tokens minted with mode "site"
    Slots,          \* the requests made, one each
    MaxSent,        \* bound on the events and heartbeats an agent sends
    MaxGeneration,  \* bound on presence_generation
    DONE            \* a request that has returned or died

ASSUME RegistryAssumption ==
    /\ Enrolled \subseteq Agents
    /\ SiteTokens \subseteq Tokens
    /\ MaxSent \in Nat
    /\ MaxGeneration \in Nat
    /\ {NULL, DONE} \intersect (Agents \union Tokens \union Slots) = {}

VARIABLES
    db,         \* the rows as the shared connection sees them
    disk,       \* the committed rows
    locks,      \* the holders of _write_lock and of agent_liveness_lock
    req,        \* the request in each slot
    overrides,  \* EventStateOverrides
    fence,      \* the broker's _generation
    held,       \* the waiters and works the broker holds for an agent
    sent,       \* the report each agent sent with each sequence, once it arrived
    acked,      \* history: the requests answered with success
    lost        \* history: a rollback dropped another request's write

reg_vars == <<db, disk, locks, req, overrides, fence, held, sent, acked, lost>>

store == <<db, disk>>

broker == <<fence, held>>

history == <<acked, lost>>

memory == <<overrides, fence, held, sent>>

SeqNumbers == 0..(MaxSent - 1)

Generations == 0..MaxGeneration

(* "active" stands for draining too: only an idle agent is eligible.         *)
AgentStates == {"idle", "active"}

Rows == [transport: {"direct", "site_relay"}, state: AgentStates, paused: BOOLEAN,
         sequence: {-1} \union SeqNumbers, generation: Generations, revoked: BOOLEAN,
         token: Tokens \union {NULL}]

(* One sequence numbers the events and the heartbeats of an agent.  An event *)
(* announces a state; a heartbeat has the state and the reclaim flag.  Any   *)
(* report may follow any other: a release announces user_idle whatever the   *)
(* state is, and what was sent before may be lost.                           *)
Messages ==
    [kind: {"event"}, state: AgentStates, paused: {FALSE}]
        \union [kind: {"heartbeat"}, state: AgentStates, paused: BOOLEAN]

(* What the broker holds: the generation it was claimed with, and (history)  *)
(* the presence_sequence of the row the claim route resolved.                *)
Holds == [generation: Generations, sequence: {-1} \union SeqNumbers]

(* A request on its way: what it does, its program counter and what it read. *)
Operations ==
    {"create", "void", "register", "assign", "revoke", "heartbeat", "event", "claim", "sweep"}

Points ==
    {"insert", "commit", "rollback", "revoke", "revoke_commit", "unassign", "unassign_commit",
     "bump", "bump_commit", "bump_select", "invalidate", "record", "route", "snapshot", "pending",
     "set_state", "presence", "presence_select", "claim", "next"}

Requests ==
    [op: Operations, pc: Points, agent: Agents \union {NULL}, token: Tokens \union {NULL},
     seq: {-1} \union SeqNumbers, got: Generations, rest: SUBSET Agents, flag: BOOLEAN]

ASSUME NoneIsNoValue ==
    /\ NULL \notin Rows \union Messages
    /\ NULL \notin Generations
    /\ NULL \notin Requests
    /\ DONE \notin Requests

-----------------------------------------------------------------------------
(* Rows and reads.                                                           *)

transport_for_mode(t) == IF t \in SiteTokens THEN "site_relay" ELSE "direct"

(* _INSERT_AGENT: a new row is active, with no sequence and generation 0.    *)
NewRow(t, transport) ==
    [transport |-> transport, state |-> "active", paused |-> FALSE,
     sequence |-> -1, generation |-> 0, revoked |-> FALSE, token |-> t]

row(a) == db.agents[a]

authenticate_agent(a) == row(a) # NULL /\ ~row(a).revoked

(* The resolver over site_route: the generation of a live site agent.        *)
site_route(a) ==
    IF authenticate_agent(a) /\ row(a).transport = "site_relay" THEN row(a).generation ELSE NULL

(* The routing view of a row that is not revoked: the state of the last      *)
(* presence event, if any, replaces the one of the row.                      *)
_agent_snapshot(a) ==
    IF ~authenticate_agent(a) THEN NULL
    ELSE IF overrides[a] # NULL THEN [row(a) EXCEPT !.state = overrides[a]]
    ELSE row(a)

(* A report arrives: with a sequence seen before, it is the same report.     *)
Arrives(a, s, m) ==
    /\ sent[a][s] \in {NULL, m}
    /\ sent' = [sent EXCEPT ![a][s] = m]

-----------------------------------------------------------------------------
(* Requests.  A step of a request reads, writes or commits and then goes on  *)
(* as next says: the request with its new program counter, or DONE when it   *)
(* has returned.                                                             *)

Request(op, pc) ==
    [op |-> op, pc |-> pc, agent |-> NULL, token |-> NULL, seq |-> -1, got |-> 0, rest |-> {},
     flag |-> FALSE]

For(op, pc, a) == [Request(op, pc) EXCEPT !.agent = a]

At(r, op, pc) == req[r] \notin {NULL, DONE} /\ req[r].op = op /\ req[r].pc = pc

AtAny(r, pc) == req[r] \notin {NULL, DONE} /\ req[r].pc = pc

Goto(r, pc) == [req[r] EXCEPT !.pc = pc]

Acquire(lock, r) == locks[lock] = NULL /\ locks' = [locks EXCEPT ![lock] = r]

Release(lock) == locks' = [locks EXCEPT ![lock] = NULL]

Reads(r, next) ==
    /\ req' = [req EXCEPT ![r] = next]
    /\ UNCHANGED <<store, locks, memory, history>>

Writes(r, rows, next) ==
    /\ db' = rows
    /\ req' = [req EXCEPT ![r] = next]
    /\ UNCHANGED <<disk, memory, history>>

Updates(r, new, next) == Writes(r, [db EXCEPT !.agents[req[r].agent] = new], next)

(* COMMIT writes whatever is pending on the connection.                      *)
Commits(r, next) ==
    /\ disk' = db
    /\ req' = [req EXCEPT ![r] = next]
    /\ UNCHANGED <<db, memory>>

Answers(ack) == acked' = acked \union {ack} /\ lost' = lost

-----------------------------------------------------------------------------
(* Enrollment tokens.                                                        *)

(* The INSERT of a fresh token.                                              *)
create_enrollment_token(r, t) ==
    /\ req[r] = NULL
    /\ db.tokens[t] = "absent"
    /\ <<"create", t>> \notin acked
    /\ \A q \in Slots : ~(At(q, "create", "commit") /\ req[q].token = t)
    /\ Writes(r, [db EXCEPT !.tokens[t] = "unused"],
              [Request("create", "commit") EXCEPT !.token = t])
    /\ UNCHANGED locks

CreateCommit(r) ==
    /\ At(r, "create", "commit")
    /\ Commits(r, DONE)
    /\ Answers(<<"create", req[r].token>>)
    /\ UNCHANGED locks

(* Voiding an unused token; any other id answers that nothing was voided.    *)
revoke_enrollment_token(r, t) ==
    /\ req[r] = NULL
    /\ Acquire("write", r)
    /\ db.tokens[t] = "unused"
    /\ Writes(r, [db EXCEPT !.tokens[t] = "revoked"],
              [Request("void", "commit") EXCEPT !.token = t])

VoidCommit(r) ==
    /\ At(r, "void", "commit")
    /\ Commits(r, DONE)
    /\ Release("write")
    /\ Answers(<<"void", req[r].token>>)

(* Whether the UPDATE of register_agent finds the token: used_at IS NULL.    *)
SpendsToken(t) == db.tokens[t] = "unused"

register_agent(r, t) ==
    /\ req[r] = NULL
    /\ Acquire("write", r)
    /\ IF SpendsToken(t)
       THEN Writes(r, [db EXCEPT !.tokens[t] = "used"],
                   [Request("register", "insert") EXCEPT !.token = t])
       ELSE Writes(r, db, [Request("register", "rollback") EXCEPT !.token = t])

(* The INSERT of the agent, under an id never used before.                   *)
RegisterInsert(r, a) ==
    LET t == req[r].token
    IN /\ At(r, "register", "insert")
       /\ row(a) = NULL
       /\ Writes(r, [db EXCEPT !.agents[a] = NewRow(t, transport_for_mode(t))],
                 [Goto(r, "commit") EXCEPT !.agent = a])
       /\ UNCHANGED locks

RegisterInsertFails(r) ==
    /\ At(r, "register", "insert")
    /\ Reads(r, Goto(r, "rollback"))

RegisterCommit(r) ==
    /\ At(r, "register", "commit")
    /\ Commits(r, DONE)
    /\ Release("write")
    /\ UNCHANGED history

(* A request has executed a write that it has not committed yet.             *)
Pending(r) ==
    /\ req[r] \notin {NULL, DONE}
    /\ req[r].pc \in {"commit", "revoke_commit", "unassign_commit", "bump_commit"}

(* ROLLBACK drops whatever is pending on the connection.                     *)
RegisterRollback(r) ==
    /\ At(r, "register", "rollback")
    /\ db' = disk
    /\ lost' = (lost \/ (db # disk /\ \E q \in Slots \ {r} : Pending(q)))
    /\ req' = [req EXCEPT ![r] = DONE]
    /\ Release("write")
    /\ UNCHANGED <<disk, memory, acked>>

-----------------------------------------------------------------------------
(* Assignments and revocation.                                               *)

(* The DELETE of set_assignments for a request of the operator.              *)
set_assignments(r, a) ==
    /\ req[r] = NULL
    /\ Acquire("write", r)
    /\ row(a) # NULL
    /\ Writes(r, [db EXCEPT !.assigned[a] = FALSE], For("assign", "insert", a))

AssignsAnyway(a) == TRUE

(* Its INSERT checks again that the agent is not revoked.                    *)
InsertsAssignment(a) == ~row(a).revoked

AssignInsert(r) ==
    LET a == req[r].agent
    IN /\ At(r, "assign", "insert")
       /\ Writes(r, [db EXCEPT !.assigned[a] = InsertsAssignment(a)], Goto(r, "commit"))
       /\ UNCHANGED locks

AssignCommit(r) ==
    /\ At(r, "assign", "commit")
    /\ Commits(r, DONE)
    /\ Release("write")
    /\ UNCHANGED history

(* The admin route: it reads the transport, revoked or not, then revokes,    *)
(* clears the assignments and evicts a site agent from the relay.            *)
revoke_agent(r, a) ==
    /\ req[r] = NULL
    /\ row(a) # NULL
    /\ Reads(r, [For("revoke", "revoke", a) EXCEPT !.flag = row(a).transport = "site_relay"])

RevokeUnlocked(r) ==
    /\ At(r, "revoke", "revoke")
    /\ Updates(r, [row(req[r].agent) EXCEPT !.revoked = TRUE], Goto(r, "revoke_commit"))
    /\ UNCHANGED locks

RevokeUpdate(r) ==
    /\ At(r, "revoke", "revoke")
    /\ Acquire("write", r)
    /\ Updates(r, [row(req[r].agent) EXCEPT !.revoked = TRUE], Goto(r, "revoke_commit"))

RevokeCommit(r) ==
    /\ At(r, "revoke", "revoke_commit")
    /\ Commits(r, Goto(r, "unassign"))
    /\ Release("write")
    /\ UNCHANGED history

(* set_assignments with no model: the DELETE and no INSERT.                  *)
UnassignDelete(r) ==
    /\ At(r, "revoke", "unassign")
    /\ Acquire("write", r)
    /\ Writes(r, [db EXCEPT !.assigned[req[r].agent] = FALSE], Goto(r, "unassign_commit"))

UnassignCommit(r) ==
    /\ At(r, "revoke", "unassign_commit")
    /\ Release("write")
    /\ IF req[r].flag
       THEN Commits(r, Goto(r, "bump")) /\ UNCHANGED history
       ELSE Commits(r, DONE) /\ Answers(<<"revoke", req[r].agent>>)

-----------------------------------------------------------------------------
(* The relay fence: a newer generation is stored, read back and given to the *)
(* broker.  The heartbeat, the sweep and the revocation share it.            *)

BumpUpdate(r) ==
    LET old == row(req[r].agent)
    IN /\ AtAny(r, "bump")
       /\ old.generation < MaxGeneration
       /\ Updates(r, [old EXCEPT !.generation = @ + 1], Goto(r, "bump_commit"))
       /\ UNCHANGED locks

BumpCommit(r) ==
    /\ AtAny(r, "bump_commit")
    /\ Commits(r, Goto(r, IF req[r].op = "event" THEN "presence_select" ELSE "bump_select"))
    /\ UNCHANGED <<locks, history>>

BumpSelect(r) ==
    /\ AtAny(r, "bump_select")
    /\ Reads(r, [Goto(r, "invalidate") EXCEPT !.got = row(req[r].agent).generation])

(* broker.invalidate_agent, and how the request ends after it.               *)
invalidate_agent(r) ==
    LET a == req[r].agent
        g == req[r].got
    IN /\ AtAny(r, "invalidate")
       /\ fence' = [fence EXCEPT ![a] = IF g > @ THEN g ELSE @]
       /\ held' = [held EXCEPT ![a] = {h \in @ : h.generation >= g}]
       /\ req' = [req EXCEPT ![r] = IF @.op = "sweep" THEN Goto(r, "next") ELSE DONE]
       /\ CASE req[r].op = "revoke" -> Answers(<<"revoke", a>>)
            [] req[r].op = "event" /\ req[r].flag -> Answers(<<"event", a, req[r].seq>>)
            [] OTHER -> UNCHANGED history
       /\ UNCHANGED <<store, locks, overrides, sent>>

-----------------------------------------------------------------------------
(* Heartbeats.                                                               *)

(* The route authenticates the agent.  A heartbeat may arrive late, twice or *)
(* never.                                                                    *)
heartbeat(r, a, s, m) ==
    /\ req[r] = NULL
    /\ m.kind = "heartbeat"
    /\ Arrives(a, s, m)
    /\ authenticate_agent(a)
    /\ req' = [req EXCEPT ![r] = [For("heartbeat", "record", a) EXCEPT !.seq = s]]
    /\ UNCHANGED <<store, locks, overrides, broker, history>>

RecordUnfenced(old, s, m) ==
    [old EXCEPT !.state = m.state, !.paused = m.paused,
                !.sequence = IF s > @ THEN s ELSE @]

(* The UPDATE of record_heartbeat.  A site row keeps its presence when the   *)
(* heartbeat is older than presence_sequence.                                *)
record_heartbeat(old, s, m) ==
    LET current == old.transport = "direct" \/ s >= old.sequence
    IN [old EXCEPT !.state = IF current THEN m.state ELSE @,
                   !.paused = IF current THEN m.paused ELSE @,
                   !.sequence = IF s > @ THEN s ELSE @]

HeartbeatUpdate(r) ==
    LET a == req[r].agent
        s == req[r].seq
    IN /\ At(r, "heartbeat", "record")
       /\ Acquire("liveness", r)
       /\ Updates(r, record_heartbeat(row(a), s, sent[a][s]), Goto(r, "commit"))

HeartbeatCommit(r) ==
    /\ At(r, "heartbeat", "commit")
    /\ Commits(r, Goto(r, "route"))
    /\ Release("liveness")
    /\ UNCHANGED history

(* _fence_site_heartbeat reads the route, the snapshot and the broker, and   *)
(* stops at the first that says there is nothing to fence.  The snapshot     *)
(* leaves out an agent that is offline, and time is not modelled: an agent   *)
(* not heard of since the read before may always be offline.                 *)
HeartbeatRoute(r) ==
    /\ At(r, "heartbeat", "route")
    /\ Reads(r, IF site_route(req[r].agent) = NULL THEN DONE ELSE Goto(r, "snapshot"))

HeartbeatSnapshot(r) ==
    LET snapshot == _agent_snapshot(req[r].agent)
        eligible == snapshot = NULL \/ (snapshot.state = "idle" /\ ~snapshot.paused)
    IN /\ At(r, "heartbeat", "snapshot")
       /\ \E offline \in BOOLEAN :
             Reads(r, IF offline \/ eligible THEN DONE ELSE Goto(r, "pending"))

(* broker.has_pending, for the heartbeat and for the sweep.                  *)
has_pending(r) ==
    /\ AtAny(r, "pending")
    /\ Reads(r, CASE held[req[r].agent] # {} -> Goto(r, "bump")
                  [] req[r].op = "sweep" /\ held[req[r].agent] = {} -> Goto(r, "next")
                  [] OTHER -> DONE)

-----------------------------------------------------------------------------
(* Presence events.                                                          *)

(* Each event sets the state anew, whatever its sequence.                    *)
apply(a, m) == overrides' = [overrides EXCEPT ![a] = m.state]

(* The route authenticates the agent, writes the event and sets the          *)
(* override.  An event may arrive late, twice or never.                      *)
events(r, a, s, m) ==
    /\ req[r] = NULL
    /\ m.kind = "event"
    /\ Arrives(a, s, m)
    /\ authenticate_agent(a)
    /\ apply(a, m)
    /\ req' = [req EXCEPT ![r] = [For("event", "route", a) EXCEPT !.seq = s]]
    /\ UNCHANGED <<store, locks, broker, history>>

EventRoute(r) ==
    /\ At(r, "event", "route")
    /\ Reads(r, Goto(r, IF site_route(req[r].agent) = NULL THEN "set_state" ELSE "presence"))

set_agent_state(r) ==
    LET a == req[r].agent
    IN /\ At(r, "event", "set_state")
       /\ Acquire("liveness", r)
       /\ Updates(r, [row(a) EXCEPT !.state = sent[a][req[r].seq].state],
                  Goto(r, "commit"))

SetStateCommit(r) ==
    /\ At(r, "event", "commit")
    /\ Commits(r, DONE)
    /\ Release("liveness")
    /\ UNCHANGED history

SameGeneration(old, s, state) ==
    [old EXCEPT !.state = state, !.paused = FALSE, !.sequence = s]

(* The row after the UPDATE of apply_presence_event, for a newer sequence.   *)
PresenceRow(old, s, state) ==
    [old EXCEPT !.state = state, !.paused = FALSE, !.sequence = s,
                !.generation = @ + 1]

apply_presence_event(r) ==
    LET a == req[r].agent
        s == req[r].seq
        newer == row(a).sequence < s
    IN /\ At(r, "event", "presence")
       /\ Acquire("liveness", r)
       /\ newer => row(a).generation < MaxGeneration
       /\ Updates(r, IF newer THEN PresenceRow(row(a), s, sent[a][s].state) ELSE row(a),
                  [Goto(r, "bump_commit") EXCEPT !.flag = newer])

(* It returns the generation of the row, newer or not, and the route lets    *)
(* the lock go before it calls the broker.                                   *)
PresenceSelect(r) ==
    /\ At(r, "event", "presence_select")
    /\ Release("liveness")
    /\ req' = [req EXCEPT ![r] = [Goto(r, "invalidate") EXCEPT
                                     !.got = row(req[r].agent).generation]]
    /\ UNCHANGED <<store, memory, history>>

-----------------------------------------------------------------------------
(* Claims, the offline sweep, restarts.                             *)

inference_claim(r, a) ==
    /\ req[r] = NULL
    /\ authenticate_agent(a)
    /\ Reads(r, For("claim", "route", a))

ClaimRoute(r) ==
    LET a == req[r].agent
    IN /\ At(r, "claim", "route")
       /\ Reads(r, IF site_route(a) = NULL THEN DONE
                   ELSE [Goto(r, "claim") EXCEPT !.got = site_route(a), !.seq = row(a).sequence])

(* broker.claim refuses a generation older than its fence, and the route     *)
(* answers 204; a newer one raises the fence.                                *)
BrokerClaim(r) ==
    LET a == req[r].agent
        g == req[r].got
    IN /\ At(r, "claim", "claim")
       /\ IF g < fence[a] THEN UNCHANGED broker
          ELSE /\ held' = [held EXCEPT ![a] = @ \union {[generation |-> g, sequence |-> req[r].seq]}]
               /\ fence' = [fence EXCEPT ![a] = g]
       /\ req' = [req EXCEPT ![r] = DONE]
       /\ UNCHANGED <<store, locks, overrides, sent, history>>

(* A waiter times out, or a work finishes, fails or loses its client.        *)
HoldEnds(a) ==
    /\ \E h \in held[a] : held' = [held EXCEPT ![a] = @ \ {h}]
    /\ UNCHANGED <<store, locks, req, overrides, fence, sent, history>>

(* The sweep keeps the liveness lock over all the agents it found offline.   *)
offline_eviction_loop(r) ==
    /\ req[r] = NULL
    /\ Acquire("liveness", r)
    /\ \E offline \in SUBSET {a \in Agents : row(a) # NULL} \ {{}} :
          req' = [req EXCEPT ![r] = [Request("sweep", "next") EXCEPT !.rest = offline]]
    /\ UNCHANGED <<store, memory, history>>

SweepNext(r) ==
    /\ At(r, "sweep", "next")
    /\ \E a \in req[r].rest :
          Reads(r, [Goto(r, "route") EXCEPT !.agent = a, !.rest = @ \ {a}])

SweepRoute(r) ==
    /\ At(r, "sweep", "route")
    /\ Reads(r, Goto(r, IF site_route(req[r].agent) = NULL THEN "next" ELSE "pending"))

SweepEnd(r) ==
    /\ At(r, "sweep", "next")
    /\ req[r].rest = {}
    /\ Release("liveness")
    /\ req' = [req EXCEPT ![r] = DONE]
    /\ UNCHANGED <<store, memory, history>>

(* The coordinator restarts: what is committed stays, the rest is lost.      *)
Restart ==
    /\ db' = disk
    /\ locks' = [l \in DOMAIN locks |-> NULL]
    /\ req' = [r \in Slots |-> IF req[r] = NULL THEN NULL ELSE DONE]
    /\ overrides' = [a \in Agents |-> NULL]
    /\ fence' = [a \in Agents |-> 0]
    /\ held' = [a \in Agents |-> {}]
    /\ UNCHANGED <<disk, sent, history>>

-----------------------------------------------------------------------------
(* An enrolled agent has spent one of the tokens, or (NULL) a site token     *)
(* that is not modelled; the broker holds a claim of each site agent.        *)
EnrolledRow(t) == NewRow(t, IF t = NULL THEN "site_relay" ELSE transport_for_mode(t))

RegistryInit ==
    /\ \E spent \in [Enrolled -> Tokens \union {NULL}] :
          /\ \A a, b \in Enrolled : spent[a] = spent[b] => a = b \/ spent[a] = NULL
          /\ db = [tokens |-> [t \in Tokens |-> IF \E a \in Enrolled : spent[a] = t THEN "used"
                                                ELSE "absent"],
                   agents |-> [a \in Agents |-> IF a \in Enrolled THEN EnrolledRow(spent[a])
                                                ELSE NULL],
                   assigned |-> [a \in Agents |-> FALSE]]
    /\ disk = db
    /\ locks = [l \in {"write", "liveness"} |-> NULL]
    /\ req = [r \in Slots |-> NULL]
    /\ overrides = [a \in Agents |-> NULL]
    /\ fence = [a \in Agents |-> 0]
    /\ held = [a \in Agents |-> IF site_route(a) = NULL THEN {}
                                ELSE {[generation |-> 0, sequence |-> -1]}]
    /\ sent = [a \in Agents |-> [s \in SeqNumbers |-> NULL]]
    /\ acked = {}
    /\ lost = FALSE

AdminStep(r) ==
    \/ \E t \in Tokens : create_enrollment_token(r, t) \/ revoke_enrollment_token(r, t)
    \/ \E a \in Agents : set_assignments(r, a) \/ revoke_agent(r, a)
    \/ CreateCommit(r)
    \/ VoidCommit(r)
    \/ AssignInsert(r)
    \/ AssignCommit(r)
    \/ RevokeUpdate(r)
    \/ RevokeCommit(r)
    \/ UnassignDelete(r)
    \/ UnassignCommit(r)

RegisterStep(r) ==
    \/ \E t \in Tokens : register_agent(r, t)
    \/ \E a \in Agents : RegisterInsert(r, a)
    \/ RegisterInsertFails(r)
    \/ RegisterCommit(r)
    \/ RegisterRollback(r)

PresenceStep(r) ==
    \/ \E a \in Agents, s \in SeqNumbers, m \in Messages : heartbeat(r, a, s, m) \/ events(r, a, s, m)
    \/ HeartbeatUpdate(r)
    \/ HeartbeatCommit(r)
    \/ HeartbeatRoute(r)
    \/ HeartbeatSnapshot(r)
    \/ EventRoute(r)
    \/ set_agent_state(r)
    \/ SetStateCommit(r)
    \/ apply_presence_event(r)
    \/ PresenceSelect(r)

RelayStep(r) ==
    \/ \E a \in Agents : inference_claim(r, a)
    \/ ClaimRoute(r)
    \/ BrokerClaim(r)
    \/ offline_eviction_loop(r)
    \/ SweepNext(r)
    \/ SweepEnd(r)
    \/ SweepRoute(r)
    \/ has_pending(r)
    \/ BumpUpdate(r)
    \/ BumpCommit(r)
    \/ BumpSelect(r)
    \/ invalidate_agent(r)

RegistryNext ==
    \/ \E r \in Slots : AdminStep(r) \/ RegisterStep(r) \/ PresenceStep(r) \/ RelayStep(r)
    \/ \E a \in Agents : HoldEnds(a)
    \/ Restart

RegistrySpec == RegistryInit /\ [][RegistryNext]_reg_vars

-----------------------------------------------------------------------------
(* What the registry promises.                                               *)

(* "A revocation that answered 204 has actually landed": once the route of   *)
(* revoke_agent or of revoke_enrollment_token has answered, the row on disk  *)
(* is revoked, and stays so, and a revoked agent is assigned no model,       *)
(* whatever registration, rollback or assignment ran in between.             *)
RevocationLands ==
    /\ \A a \in Agents : <<"revoke", a>> \in acked =>
          disk.agents[a].revoked /\ ~disk.assigned[a]
    /\ \A t \in Tokens : <<"void", t>> \in acked => disk.tokens[t] = "revoked"

(* A token enrolls at most one agent, and none once it is voided, also when  *)
(* two registrations and a revocation race for it.                           *)
TokenSpentOnce ==
    \A a, b \in Agents : disk.agents[a] # NULL /\ disk.agents[a].token # NULL =>
        /\ <<"void", disk.agents[a].token>> \notin acked
        /\ disk.agents[b] # NULL /\ disk.agents[b].token = disk.agents[a].token => a = b

(* The presence on the row of a site agent is the one the agent reported     *)
(* with the newest sequence recorded: an event or a heartbeat that arrives   *)
(* late or twice, or a restart, never brings an older presence back.         *)
PresenceIsNewest ==
    \A a \in Agents :
        LET stored == disk.agents[a]
        IN stored # NULL /\ ~stored.revoked /\ stored.transport = "site_relay"
              /\ stored.sequence >= 0 =>
              /\ stored.state = sent[a][stored.sequence].state
              /\ stored.paused = sent[a][stored.sequence].paused

(* The stored generation never lags the broker's fence, so that an agent     *)
(* which claims at the stored generation is not refused for ever, as long as *)
(* no rollback of a registration dropped the write of another request.       *)
FenceIsStored ==
    ~lost => \A a \in Agents : row(a) # NULL => fence[a] <= row(a).generation

(* Once a presence event that advanced the fence is answered, the broker     *)
(* holds nothing that was claimed before it, not even for a claim request    *)
(* that had resolved its route earlier, unless a rollback dropped a write.   *)
PresenceFences ==
    ~lost => \A a \in Agents : \A h \in held[a] : \A s \in SeqNumbers :
        <<"event", a, s>> \in acked => h.sequence >= s

(* Once a revocation is answered, the broker holds nothing for the agent and *)
(* nothing new forms, also for a claim authorised before the revocation,     *)
(* unless a rollback dropped a write.                                        *)
RevokedHoldsNothing ==
    ~lost => \A a \in Agents : <<"revoke", a>> \in acked => held[a] = {}

(* What the route of revoke_agent says of itself, without that exception:    *)
(* it drops a revoked agent's queued and in-flight relay work at once.       *)
RevocationEvicts ==
    \A a \in Agents : <<"revoke", a>> \in acked => held[a] = {}

(* Both: what was answered about tokens and revocations holds on disk        *)
(* (sqlite_registry.py register_agent, revoke_agent).                        *)
EnrolmentHolds == RevocationLands /\ TokenSpentOnce

(* The broker's fence follows the stored generations, and what a fence was   *)
(* answered for is gone (agent_routes.py _fence_site_presence, admin_routes  *)
(* revoke_agent).                                                            *)
FencesHold == FenceIsStored /\ PresenceFences /\ RevokedHoldsNothing

-----------------------------------------------------------------------------
(* For TLC: the slots are interchangeable.                                   *)
SlotSymmetry == Permutations(Slots)
=============================================================================
