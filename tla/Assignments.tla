----------------------------- MODULE Assignments -----------------------------
(***************************************************************************)
(* Which models an agent is asked to serve.  Four routes of the            *)
(* coordinator write the assignments of an agent, each of them a sequence  *)
(* of awaited registry calls that the others' calls can come between: the  *)
(* operator's assignment of one model to a set of agents, the sweep that   *)
(* assigns a model wherever it fits, the automatic assignment of a fresh   *)
(* enrollment, and the revocation.  A registry call is one step here; the  *)
(* statements it is made of, and its lock, are the subject of Registry.    *)
(***************************************************************************)
EXTENDS FiniteSetsExt, Functions, Integers, Null

CONSTANTS Agents,      \* the machines that may enroll
          Models,      \* the models of the catalogue, ordered by their id
          Manifests,   \* model -> [ram, vram, size] it declares
          DeviceCaps,  \* agent -> [ram, gpus]: its memory, that of each GPU
          Enrolled,    \* the machines enrolled at the start
          Registered,  \* the models registered at the start
          Requests,    \* the operator's requests in a behaviour
          MaxEvents    \* bound: what happens beside the requests (an enrollment,
                       \* a revocation, a heartbeat, a silence, a new model)

VARIABLES agent_row,   \* agent -> [known, revoked, cleared]: its row, and that
                       \* the revocation has removed its assignments
          last_seen,   \* agent -> it was heard of within offline_after_s
          mem_free,    \* agent -> [ram, gpus] of its latest heartbeat
          catalogue,   \* the models registered
          desired,     \* agent -> the models assigned to it
          enroll,      \* agent -> where its automatic assignment stands
          call,        \* request -> the operator's request and its progress
          happened       \* how many of those happened

assign_vars == <<agent_row, last_seen, mem_free, catalogue, desired, enroll, call, happened>>

Event == happened < MaxEvents /\ happened' = happened + 1

NoMemory == [ram |-> 0, gpus |-> {}]

Known == {a \in Agents : agent_row[a].known}
Revoked == {a \in Known : agent_row[a].revoked}

(***************************************************************************)
(* Fit and choice.                                                         *)
(***************************************************************************)
(* A replica loads onto one GPU: the roomiest counts, not the sum.         *)
agent_available_vram_mb(memory) == Max(memory.gpus \cup {0})

model_fit(m, memory) ==
    /\ Manifests[m].ram <= memory.ram
    /\ Manifests[m].vram <= agent_available_vram_mb(memory)

(* The key of _rank, ascending: a GPU model first on a machine with a GPU, *)
(* then the larger one, then the smaller id.                               *)
Ranks(m, k, has_gpu) ==
    LET cpu(x) == ~(has_gpu /\ Manifests[x].vram > 0)
    IN  \/ ~cpu(m) /\ cpu(k)
        \/ /\ cpu(m) = cpu(k)
           /\ \/ Manifests[m].size > Manifests[k].size
              \/ Manifests[m].size = Manifests[k].size /\ m < k

(* At enrollment the fit is against the capacity the machine declares.     *)
select_model_for_agent(a, models) ==
    LET caps    == DeviceCaps[a]
        fitting == {m \in models : model_fit(m, caps)}
    IN  IF fitting = {} THEN NULL
        ELSE CHOOSE m \in fitting :
                \A k \in fitting \ {m} : Ranks(m, k, caps.gpus # {})

(***************************************************************************)
(* The registry's calls.                                                   *)
(***************************************************************************)
(* An agent revoked in the meantime is cleared, never assigned.            *)
Assigned(a, models) ==
    [desired EXCEPT ![a] = IF agent_row[a].revoked THEN {} ELSE models]

(* A step about agent a by anybody but request r.                          *)
Touched(calls, r, a) ==
    [q \in Requests |-> IF q = r THEN calls[q] ELSE [calls[q] EXCEPT !.touched = @ \cup {a}]]

(* The two views of one instant `now`, read one after the other: an agent  *)
(* leaves `old` when it is heard of after that instant.                    *)
snapshots(r) == (Known \ Revoked) \ call[r].old
list_offline(r) == Known \cap call[r].old

Offline == {a \in Known : ~last_seen[a]}

(***************************************************************************)
(* Enrollment.                                                             *)
(***************************************************************************)
(* With auto_assign_on_enroll off the steps after it are never taken.      *)
register(a) ==
    /\ ~agent_row[a].known
    /\ Event
    /\ agent_row' = [agent_row EXCEPT ![a].known = TRUE]
    /\ last_seen' = [last_seen EXCEPT ![a] = TRUE]
    /\ enroll' = [enroll EXCEPT ![a].pc = "check"]
    /\ call' = Touched(call, NULL, a)
    /\ UNCHANGED <<mem_free, catalogue, desired>>

(* An agent that holds a model already is left alone.                      *)
_auto_assign_on_enroll(a) ==
    /\ enroll[a].pc = "check"
    /\ enroll' = [enroll EXCEPT ![a].pc = IF desired[a] # {} THEN "done" ELSE "models"]
    /\ UNCHANGED <<agent_row, last_seen, mem_free, catalogue, desired, call, happened>>

AutoAssignChoose(a) ==
    LET chosen == select_model_for_agent(a, catalogue)
    IN  /\ enroll[a].pc = "models"
        /\ enroll' = [enroll EXCEPT ![a] = IF chosen = NULL THEN [pc |-> "done", model |-> NULL]
                                           ELSE [pc |-> "set", model |-> chosen]]
        /\ UNCHANGED <<agent_row, last_seen, mem_free, catalogue, desired, call, happened>>

AutoAssignSet(a) ==
    /\ enroll[a].pc = "set"
    /\ desired' = Assigned(a, {enroll[a].model})
    /\ enroll' = [enroll EXCEPT ![a].pc = "done"]
    /\ call' = Touched(call, NULL, a)
    /\ UNCHANGED <<agent_row, last_seen, mem_free, catalogue, happened>>

(* POST /agents/{id}/revoke: the mark, then an empty assignment.           *)
revoke_agent(a) ==
    /\ a \in Known \ Revoked
    /\ Event
    /\ agent_row' = [agent_row EXCEPT ![a].revoked = TRUE]
    /\ call' = Touched(call, NULL, a)
    /\ UNCHANGED <<last_seen, mem_free, catalogue, desired, enroll>>

RevokeClear(a) ==
    /\ a \in Revoked
    /\ ~agent_row[a].cleared
    /\ agent_row' = [agent_row EXCEPT ![a].cleared = TRUE]
    /\ desired' = Assigned(a, {})
    /\ call' = Touched(call, NULL, a)
    /\ UNCHANGED <<last_seen, mem_free, catalogue, enroll, happened>>

(***************************************************************************)
(* The life of an agent, as far as the assignments read it.                *)
(***************************************************************************)
heartbeat(a, memory) ==
    /\ a \in Known \ Revoked
    /\ Event
    /\ last_seen' = [last_seen EXCEPT ![a] = TRUE]
    /\ mem_free' = [mem_free EXCEPT ![a] = memory]
    /\ call' = [r \in Requests |->
                    [call[r] EXCEPT !.old = @ \ {a}, !.heard = @ \cup (call[r].old \cap {a})]]
    /\ UNCHANGED <<agent_row, catalogue, desired, enroll>>

GoesOffline(a) ==
    /\ a \in Known
    /\ Event
    /\ last_seen[a]
    /\ last_seen' = [last_seen EXCEPT ![a] = FALSE]
    /\ UNCHANGED <<agent_row, mem_free, catalogue, desired, enroll, call>>

put_model(m) ==
    /\ m \notin catalogue
    /\ Event
    /\ catalogue' = catalogue \cup {m}
    /\ UNCHANGED <<agent_row, last_seen, mem_free, desired, enroll, call>>

(***************************************************************************)
(* The operator's requests.                                                *)
(***************************************************************************)
NoCall == [pc |-> "unused", kind |-> NULL, model |-> NULL, targets |-> {}, old |-> {},
           view |-> {}, left |-> {}, agent |-> NULL, models |-> {}, touched |-> {},
           heard |-> {}, before |-> NULL, answer |-> NULL,
           assigned |-> {}, kept |-> {}, skipped |-> {}, offline |-> {}]

(* Request r goes on as `next` says; nothing else changes.                 *)
Goes(r, next) ==
    /\ call' = [call EXCEPT ![r] = next]
    /\ UNCHANGED <<agent_row, last_seen, mem_free, catalogue, desired, enroll, happened>>

(* Request r replaces the assignments of agent a.                          *)
Replaces(r, a, models, next) ==
    /\ desired' = Assigned(a, models)
    /\ call' = Touched([call EXCEPT ![r] = next], r, a)
    /\ UNCHANGED <<agent_row, last_seen, mem_free, catalogue, enroll, happened>>

Answers(c, code) == [c EXCEPT !.pc = "done", !.answer = code, !.old = {}, !.view = {},
                              !.left = {}, !.agent = NULL, !.models = {}]

Memory(view, a) == (CHOOSE v \in view : v.agent = a).free
Views(agents) == {[agent |-> a, free |-> mem_free[a]] : a \in agents}

(* PUT /assignments: a model that is not registered, or no target, is not  *)
(* checked.                                                                *)
set_assignments(r, m, targets) ==
    /\ call[r].pc = "unused"
    /\ Goes(r, [NoCall EXCEPT !.kind = "assign", !.model = m, !.targets = targets,
                              !.before = desired,
                              !.pc = IF m \in catalogue /\ targets # {} THEN "views" ELSE "online"])

AssignViews(r) ==
    LET live == (call[r].targets \cap (Known \ Revoked)) \ Offline
    IN  /\ call[r].pc = "views"
        /\ call[r].kind = "assign"
        /\ Goes(r, [call[r] EXCEPT !.view = Views(live), !.left = live,
                                   !.pc = IF live = {} THEN "online" ELSE "check"])

(* An agent that holds the model has paid for its memory already.          *)
_reject_unfit_assignment(r) ==
    LET c == call[r]
        a == Min(c.left)
    IN  /\ c.pc = "check"
        /\ Goes(r, IF c.model \in desired[a] \/ model_fit(c.model, Memory(c.view, a))
                   THEN [c EXCEPT !.left = @ \ {a},
                                  !.pc = IF c.left = {a} THEN "online" ELSE "check"]
                   ELSE Answers(c, 409))

ReplaceOnline(r) ==
    /\ call[r].pc = "online"
    /\ Goes(r, [call[r] EXCEPT !.pc = "offline", !.old = Offline, !.view = {},
                               !.left = (Known \ Revoked) \ Offline])

(* Mutant: the agents offline at the moment are forgotten.                 *)
ReplaceOnlineOnly(r) ==
    LET c   == call[r]
        all == c.left \cup c.targets
    IN  /\ c.pc = "offline"
        /\ c.kind = "assign"
        /\ Goes(r, IF all = {} THEN Answers(c, 204)
                   ELSE [c EXCEPT !.pc = "replace", !.left = all])

ReplaceOffline(r) ==
    LET c   == call[r]
        all == c.left \cup list_offline(r) \cup c.targets
    IN  /\ c.pc = "offline"
        /\ c.kind = "assign"
        /\ Goes(r, IF all = {} THEN Answers(c, 204)
                   ELSE [c EXCEPT !.pc = "replace", !.left = all])

(* The models of an agent are read here and written back in the next step. *)
_replace_model_assignment(r, a) ==
    LET c       == call[r]
        updated == IF a \in c.targets THEN desired[a] \cup {c.model}
                   ELSE desired[a] \ {c.model}
    IN  /\ c.pc = "replace"
        /\ a \in c.left
        /\ Goes(r, CASE updated # desired[a] ->
                            [c EXCEPT !.pc = "write", !.agent = a, !.models = updated]
                     [] updated = desired[a] /\ c.left # {a} -> [c EXCEPT !.left = @ \ {a}]
                     [] updated = desired[a] /\ c.left = {a} -> Answers(c, 204))

ReplaceWrite(r) ==
    LET c == call[r]
    IN  /\ c.pc = "write"
        /\ Replaces(r, c.agent, c.models,
                    IF c.left = {c.agent} THEN Answers(c, 204)
                    ELSE [c EXCEPT !.pc = "replace", !.left = @ \ {c.agent},
                                   !.agent = NULL, !.models = {}])

(* POST /assignments/fit.                                                  *)
fit_assignments(r, m) ==
    /\ call[r].pc = "unused"
    /\ Goes(r, IF m \notin catalogue THEN Answers([NoCall EXCEPT !.kind = "fit"], 404)
               ELSE [NoCall EXCEPT !.kind = "fit", !.model = m, !.before = desired,
                                   !.pc = "views"])

SweepViews(r) ==
    LET live == (Known \ Revoked) \ Offline
    IN  /\ call[r].pc = "views"
        /\ call[r].kind = "fit"
        /\ Goes(r, [call[r] EXCEPT !.old = Offline, !.view = Views(live), !.left = live,
                                   !.pc = "sweep"])

SweepAgent(r) ==
    LET c       == call[r]
        a       == Min(c.left)
        skip(f) == [c EXCEPT !.left = @ \ {a}, ![f] = @ \cup {a}]
    IN  /\ c.pc = "sweep"
        /\ c.left # {}
        /\ Goes(r, IF c.model \in desired[a] THEN skip("kept")
                   ELSE IF desired[a] # {} \/ ~model_fit(c.model, Memory(c.view, a))
                        THEN skip("skipped")
                   ELSE [c EXCEPT !.pc = "set", !.agent = a])

SweepSet(r) ==
    LET c == call[r]
    IN  /\ c.pc = "set"
        /\ Replaces(r, c.agent, {c.model}, [c EXCEPT !.pc = "confirm"])

(* Only what is there afterwards is reported as assigned.                  *)
SweepConfirm(r) ==
    LET c == call[r]
        f == IF c.model \in desired[c.agent] THEN "assigned" ELSE "skipped"
    IN  /\ c.pc = "confirm"
        /\ Goes(r, [c EXCEPT !.pc = "sweep", !.left = @ \ {c.agent}, !.agent = NULL,
                             ![f] = @ \cup {c.agent}])

SweepRevoked(r) ==
    /\ call[r].pc = "sweep"
    /\ call[r].left = {}
    /\ Goes(r, [call[r] EXCEPT !.pc = "offline", !.left = Revoked])

SweepOffline(r) ==
    LET c == call[r]
    IN  /\ c.pc = "offline"
        /\ c.kind = "fit"
        /\ Goes(r, Answers([c EXCEPT !.offline = list_offline(r) \ c.left], 200))

(***************************************************************************)
(* A fleet some of whose agents enrolled, and were assigned models, before.  *)
AssignInit ==
    /\ agent_row = [a \in Agents |-> [known |-> a \in Enrolled, revoked |-> FALSE,
                                      cleared |-> FALSE]]
    /\ last_seen = [a \in Agents |-> a \in Enrolled]
    /\ mem_free = [a \in Agents |-> IF a \in Enrolled THEN DeviceCaps[a] ELSE NoMemory]
    /\ catalogue = Registered
    /\ desired \in {d \in [Agents -> SUBSET catalogue] : \A a \in Agents \ Enrolled : d[a] = {}}
    /\ enroll = [a \in Agents |-> [pc |-> "none", model |-> NULL]]
    /\ call = [r \in Requests |-> NoCall]
    /\ happened = 0

AgentStep(a) ==
    \/ register(a)
    \/ _auto_assign_on_enroll(a)
    \/ AutoAssignChoose(a)
    \/ AutoAssignSet(a)
    \/ \E memory \in {NoMemory, DeviceCaps[a]} : heartbeat(a, memory)
    \/ GoesOffline(a)
    \/ revoke_agent(a)
    \/ RevokeClear(a)

RequestStep(r) ==
    \/ \E m \in Models, targets \in SUBSET Known : set_assignments(r, m, targets)
    \/ AssignViews(r)
    \/ _reject_unfit_assignment(r)
    \/ ReplaceOnline(r)
    \/ ReplaceOffline(r)
    \/ \E a \in Agents : _replace_model_assignment(r, a)
    \/ ReplaceWrite(r)
    \/ \E m \in Models : fit_assignments(r, m)
    \/ SweepViews(r)
    \/ SweepAgent(r)
    \/ SweepSet(r)
    \/ SweepConfirm(r)
    \/ SweepRevoked(r)
    \/ SweepOffline(r)

(* Bound: a behaviour ends with the answer to the last request.            *)
Busy == \E r \in Requests : call[r].pc # "done"

AssignNext ==
    \/ Busy /\ \E a \in Agents : AgentStep(a)
    \/ \E r \in Requests : RequestStep(r)
    \/ Busy /\ \E m \in Models : put_model(m)

(***************************************************************************)
(* Properties.                                                             *)
(***************************************************************************)
(* What the answer of assignment c says of agent a.                        *)
Exact(c, a) ==
    desired[a] = IF c.answer = 409 THEN c.before[a]
                 ELSE IF a \in c.targets THEN c.before[a] \cup {c.model}
                 ELSE c.before[a] \ {c.model}

Answered(kind) == {c \in Range(call) : c.pc = "done" /\ c.kind = kind /\ c.answer # 404}

(* PUT /assignments is all or nothing, whatever other requests do to other *)
(* agents: of the agents that nobody else wrote, and that were not heard   *)
(* of just when it counted them as offline, a refusal has left every one   *)
(* as it was, and an acceptance has given the model to exactly those it    *)
(* names and left their other models alone, online, offline or unnamed.    *)
AssignIsExact ==
    \A c \in Answered("assign") : \A a \in (Known \ Revoked) \ (c.touched \cup c.heard) : Exact(c, a)

(* The sweep of POST /assignments/fit accounts for every agent, gives the  *)
(* model only to agents that held none, and takes none away: of the agents *)
(* that nobody else wrote meanwhile.                                       *)
SweepAccounts ==
    \A c \in Answered("fit") : \A a \in (Known \ Revoked) \ c.touched :
        /\ a \in c.heard \cup c.assigned \cup c.kept \cup c.skipped \cup c.offline
        /\ a \in c.assigned => c.before[a] = {} /\ desired[a] = {c.model}
        /\ a \notin c.assigned => desired[a] = c.before[a]

=============================================================================
