--------------------------- MODULE RegistryProofs ---------------------------
(* The registry under requests that share a connection, for any number of   *)
(* agents, tokens, requests, reports and generations.                       *)
EXTENDS Registry, TLAPS

(* Zenon proves what does not ask for the arithmetic of SMT.                *)
USE ZenonT(60)

Databases ==
    [tokens: [Tokens -> {"absent", "unused", "used", "revoked"}],
     agents: [Agents -> Rows \union {NULL}], assigned: [Agents -> BOOLEAN]]

RegType ==
    /\ db \in Databases
    /\ disk \in Databases
    /\ locks \in [{"write", "liveness"} -> Slots \union {NULL}]
    /\ req \in [Slots -> Requests \union {NULL, DONE}]
    /\ sent \in [Agents -> [SeqNumbers -> Messages \union {NULL}]]

(* What every database state keeps to, the connection's and the committed:  *)
(* the tokens of its agents are spent, each once; its presence is a report  *)
(* that arrived, the newest; and it shows what was answered.                *)
TokensSpent(d) ==
    \A a \in Agents : d.agents[a] # NULL /\ d.agents[a].token # NULL =>
        /\ d.tokens[d.agents[a].token] = "used"
        /\ \A b \in Agents :
              d.agents[b] # NULL /\ d.agents[b].token = d.agents[a].token => a = b

Newest(d, reports) ==
    \A a \in Agents : d.agents[a] # NULL /\ d.agents[a].sequence >= 0 =>
        LET m == reports[a][d.agents[a].sequence]
        IN /\ m # NULL
           /\ ~d.agents[a].revoked /\ d.agents[a].transport = "site_relay" =>
                 d.agents[a].state = m.state /\ d.agents[a].paused = m.paused

Gone(d, a) == d.agents[a] # NULL /\ d.agents[a].revoked /\ ~d.assigned[a]

Answered(d, answers) ==
    /\ \A a \in Agents : <<"revoke", a>> \in answers => Gone(d, a)
    /\ \A t \in Tokens : <<"void", t>> \in answers => d.tokens[t] = "revoked"

StoreInv(d, reports, answers) == TokensSpent(d) /\ Newest(d, reports) /\ Answered(d, answers)

(* No row goes, changes its transport or comes back from revoked.           *)
KeptRows(d, e) ==
    \A a \in Agents : d.agents[a] # NULL =>
        /\ e.agents[a] # NULL
        /\ e.agents[a].transport = d.agents[a].transport
        /\ d.agents[a].revoked => e.agents[a].revoked

-----------------------------------------------------------------------------
(* Where a request can be, and what it may rely on there.                   *)

Open(r) == req[r] \notin {NULL, DONE}

Bumping == {"bump", "bump_commit", "bump_select", "invalidate"}

Control(op, pc) ==
    \/ op \in {"create", "void"} /\ pc = "commit"
    \/ op = "register" /\ pc \in {"insert", "commit", "rollback"}
    \/ op = "assign" /\ pc \in {"insert", "commit"}
    \/ op = "revoke"
       /\ pc \in {"revoke", "revoke_commit", "unassign", "unassign_commit"} \union Bumping
    \/ op = "heartbeat" /\ pc \in {"record", "commit", "route", "snapshot", "pending"} \union Bumping
    \/ op = "event"
       /\ pc \in {"route", "set_state", "commit", "presence", "bump_commit", "presence_select",
                    "invalidate"}
    \/ op = "claim" /\ pc \in {"route", "claim"}
    \/ op = "sweep" /\ pc \in {"next", "route", "pending"} \union Bumping

(* The requests that hold _write_lock.                                      *)
Writing(x) ==
    \/ x.op \in {"register", "void", "assign"}
    \/ x.op = "revoke" /\ x.pc \in {"revoke_commit", "unassign_commit"}

(* The row a request is about stays, and so does the report it carries.     *)
Subject(x) ==
    /\ x.agent # NULL => row(x.agent) # NULL
    /\ \A a \in x.rest : row(a) # NULL
    /\ x.op \in {"assign", "revoke", "heartbeat", "event", "claim"} => x.agent # NULL
    /\ x.op = "sweep" /\ x.pc # "next" => x.agent # NULL
    /\ x.op \in {"create", "void", "register"} => x.token # NULL
    /\ x.op \in {"heartbeat", "event"} =>
          /\ x.seq \in SeqNumbers
          /\ sent[x.agent][x.seq] # NULL /\ sent[x.agent][x.seq].kind = x.op
    /\ x.op = "event" /\ x.pc = "set_state" =>
          row(x.agent).revoked \/ row(x.agent).transport = "direct"

TokenHeld(x) ==
    /\ x.op = "register" /\ x.pc = "insert" =>
          /\ db.tokens[x.token] = "used"
          /\ \A a \in Agents : row(a) # NULL => row(a).token # x.token
    /\ x.op = "void" => db.tokens[x.token] = "revoked"

Revoked(x) ==
    x.op = "revoke" =>
        /\ x.pc # "revoke" => row(x.agent).revoked
        /\ x.pc \notin {"revoke", "revoke_commit"} =>
              disk.agents[x.agent] # NULL /\ disk.agents[x.agent].revoked
        /\ x.pc \in {"unassign_commit"} \union Bumping => ~db.assigned[x.agent]
        /\ x.pc \in Bumping => ~disk.assigned[x.agent]

RequestInv(r) ==
    LET x == req[r]
    IN Open(r) => /\ Control(x.op, x.pc)
                  /\ Writing(x) => locks["write"] = r
                  /\ Subject(x)
                  /\ TokenHeld(x)
                  /\ Revoked(x)

(* Only the holder of _write_lock can have an enrollment or a revocation    *)
(* that is not committed.                                                   *)
Agree(a) ==
    /\ row(a) = NULL <=> disk.agents[a] = NULL
    /\ row(a) # NULL =>
          /\ row(a).transport = disk.agents[a].transport
          /\ row(a).revoked = disk.agents[a].revoked

Uncommitted(r) ==
    /\ Open(r) /\ locks["write"] = r
    /\ \/ req[r].op = "register" /\ req[r].pc = "commit"
       \/ req[r].op = "revoke" /\ req[r].pc = "revoke_commit"

Committed == (\E r \in Slots : Uncommitted(r)) \/ \A a \in Agents : Agree(a)

RegInv ==
    /\ RegType
    /\ StoreInv(db, sent, acked)
    /\ StoreInv(disk, sent, acked)
    /\ KeptRows(disk, db)
    /\ Committed
    /\ \A r \in Slots : RequestInv(r)

-----------------------------------------------------------------------------
(* Rows and requests as records.                                            *)

(* The rows the statements write are rows, and keep the other columns.      *)
LEMMA RevokedRow ==
    ASSUME NEW x \in Rows, NEW y, y = [x EXCEPT !.revoked = TRUE]
    PROVE  /\ y \in Rows /\ y.revoked
           /\ y.transport = x.transport /\ y.token = x.token /\ y.state = x.state
           /\ y.paused = x.paused /\ y.sequence = x.sequence /\ y.generation = x.generation
<1>1. y \in Rows
  BY DEF Rows
<1> QED BY <1>1 DEF Rows

(* The row that bump_relay_authorization_generation writes: only the        *)
(* generation differs, and it is one more.                                  *)
LEMMA BumpedRow ==
    ASSUME NEW x \in Rows, x.generation < MaxGeneration,
           NEW y, y = [x EXCEPT !.generation = @ + 1]
    PROVE  /\ y \in Rows /\ y.generation = x.generation + 1
           /\ y.transport = x.transport /\ y.token = x.token /\ y.state = x.state
           /\ y.paused = x.paused /\ y.sequence = x.sequence /\ y.revoked = x.revoked
<1>1. x.generation + 1 \in Generations
  BY RegistryAssumption, SMT DEF Rows, Generations
<1>2. y \in Rows
  BY <1>1 DEF Rows
<1> QED BY <1>2 DEF Rows

(* The row that set_agent_state writes: only the state differs.             *)
LEMMA StateRow ==
    ASSUME NEW x \in Rows, NEW st \in AgentStates, NEW y, y = [x EXCEPT !.state = st]
    PROVE  /\ y \in Rows /\ y.state = st
           /\ y.transport = x.transport /\ y.token = x.token /\ y.generation = x.generation
           /\ y.paused = x.paused /\ y.sequence = x.sequence /\ y.revoked = x.revoked
<1>1. y \in Rows
  BY DEF Rows
<1> QED BY <1>1 DEF Rows

(* The row that record_heartbeat writes: the sequence rises when the        *)
(* heartbeat is current, and nothing else that a request relies on changes. *)
LEMMA HeartbeatRow ==
    ASSUME NEW x \in Rows, NEW s \in SeqNumbers, NEW m \in Messages
    PROVE  LET y == record_heartbeat(x, s, m)
               current == x.transport = "direct" \/ s >= x.sequence
           IN /\ y \in Rows
              /\ current => y.state = m.state /\ y.paused = m.paused
              /\ ~current => y.state = x.state /\ y.paused = x.paused
              /\ y.sequence = IF s > x.sequence THEN s ELSE x.sequence
              /\ y.transport = x.transport /\ y.token = x.token
              /\ y.generation = x.generation /\ y.revoked = x.revoked
<1> DEFINE current == x.transport = "direct" \/ s >= x.sequence
           st == IF current THEN m.state ELSE x.state
           ps == IF current THEN m.paused ELSE x.paused
           sq == IF s > x.sequence THEN s ELSE x.sequence
           y == record_heartbeat(x, s, m)
<1>1. st \in AgentStates /\ sq \in {-1} \union SeqNumbers
  <2>1. x.state \in AgentStates /\ x.sequence \in {-1} \union SeqNumbers
    BY DEF Rows
  <2>2. m.state \in AgentStates
    BY DEF Messages
  <2> QED BY <2>1, <2>2
<1>2. ps \in BOOLEAN
  <2>1. m.paused \in BOOLEAN
    BY DEF Messages
  <2>2. x.paused \in BOOLEAN
    BY DEF Rows
  <2> QED BY <2>1, <2>2
<1>3. y = [x EXCEPT !.state = st, !.paused = ps, !.sequence = sq]
  BY DEF record_heartbeat
<1> HIDE DEF y, st, ps, sq
<1>4. y \in Rows
  BY <1>1, <1>2, <1>3 DEF Rows
<1>5. /\ y.state = st /\ y.paused = ps /\ y.sequence = sq
      /\ y.transport = x.transport /\ y.token = x.token
      /\ y.generation = x.generation /\ y.revoked = x.revoked
  BY <1>3 DEF Rows
<1> QED BY <1>4, <1>5 DEF y, st, ps, sq

(* The row that apply_presence_event writes: the sequence of the event, a   *)
(* generation more, and the transport, token and revocation as they were.   *)
LEMMA PresenceRowFields ==
    ASSUME NEW x \in Rows, NEW s \in SeqNumbers, NEW st \in AgentStates,
           x.generation < MaxGeneration
    PROVE  LET y == PresenceRow(x, s, st)
           IN /\ y \in Rows
              /\ y.state = st /\ y.paused = FALSE /\ y.sequence = s
              /\ y.generation = x.generation + 1
              /\ y.transport = x.transport /\ y.token = x.token /\ y.revoked = x.revoked
<1> DEFINE y == PresenceRow(x, s, st)
<1>1. x.generation + 1 \in Generations /\ s \in {-1} \union SeqNumbers
  BY RegistryAssumption, SMT DEF Rows, Generations
<1>2. y = [x EXCEPT !.state = st, !.paused = FALSE, !.sequence = s, !.generation = x.generation + 1]
  BY DEF PresenceRow
<1> HIDE DEF y
<1>3. y \in Rows
  BY <1>1, <1>2 DEF Rows
<1>4. /\ y.state = st /\ y.paused = FALSE /\ y.sequence = s
      /\ y.generation = x.generation + 1
      /\ y.transport = x.transport /\ y.token = x.token /\ y.revoked = x.revoked
  BY <1>2 DEF Rows
<1> QED BY <1>3, <1>4 DEF y

(* The row that register_agent inserts.                                     *)
LEMMA FreshRow ==
    ASSUME NEW t \in Tokens \union {NULL}, NEW tr \in {"direct", "site_relay"}
    PROVE  LET y == NewRow(t, tr)
           IN /\ y \in Rows /\ y.transport = tr /\ y.sequence = -1 /\ y.generation = 0
              /\ y.revoked = FALSE /\ y.token = t
<1>1. 0 \in Generations
  BY RegistryAssumption, SMT DEF Generations
<1>2. NewRow(t, tr) \in Rows
  BY <1>1 DEF NewRow, Rows, AgentStates
<1> QED BY <1>2 DEF NewRow

(* A request that goes on is a request.                                     *)
LEMMA GoesOn ==
    ASSUME NEW x \in Requests, NEW p \in Points, NEW y, y = [x EXCEPT !.pc = p]
    PROVE  /\ y \in Requests /\ y.pc = p /\ y.op = x.op /\ y.agent = x.agent /\ y.token = x.token
           /\ y.seq = x.seq /\ y.got = x.got /\ y.rest = x.rest /\ y.flag = x.flag
<1>1. y \in Requests
  BY DEF Requests
<1> QED BY <1>1 DEF Requests

(* A request that notes the generation it read keeps its other fields.      *)
LEMMA GotGeneration ==
    ASSUME NEW x \in Requests, NEW g \in Generations, NEW y, y = [x EXCEPT !.got = g]
    PROVE  /\ y \in Requests /\ y.got = g /\ y.op = x.op /\ y.agent = x.agent /\ y.token = x.token
           /\ y.seq = x.seq /\ y.pc = x.pc /\ y.rest = x.rest /\ y.flag = x.flag
<1>1. y \in Requests
  BY DEF Requests
<1> QED BY <1>1 DEF Requests

(* A request as its handler starts it.                                      *)
LEMMA NewRequest ==
    ASSUME NEW op \in Operations, NEW p \in Points
    PROVE  LET y == Request(op, p)
           IN /\ y \in Requests /\ y.op = op /\ y.pc = p /\ y.agent = NULL /\ y.token = NULL
              /\ y.rest = {}
<1>1. 0 \in Generations
  BY RegistryAssumption, SMT DEF Generations
<1>2. Request(op, p) \in Requests
  BY <1>1 DEF Request, Requests
<1> QED BY <1>2 DEF Request

(* Tokens stay spent when no agent changes its token and none is unspent.   *)
LEMMA TokensStaySpent ==
    ASSUME NEW d, NEW e, TokensSpent(d),
           \A c \in Agents : e.agents[c] # NULL =>
              d.agents[c] # NULL /\ e.agents[c].token = d.agents[c].token,
           \A c \in Agents : d.agents[c] # NULL /\ d.agents[c].token # NULL =>
              e.tokens[d.agents[c].token] = d.tokens[d.agents[c].token]
    PROVE  TokensSpent(e)
BY SMT DEF TokensSpent

-----------------------------------------------------------------------------
(* What a step of r leaves to the other requests.                           *)
Kept(r) ==
    /\ \A q \in Slots \ {r} : req'[q] = req[q]
    /\ KeptRows(db, db') /\ KeptRows(disk, disk')
    /\ \A a \in Agents, s \in SeqNumbers : sent[a][s] # NULL => sent'[a][s] = sent[a][s]
    /\ \A a \in Agents : Gone(db, a) /\ Gone(disk, a) => Gone(db', a) /\ Gone(disk', a)
    /\ \A q \in Slots \ {r} : locks["write"] = q =>
          /\ locks'["write"] = q
          /\ \A t \in Tokens : db.tokens[t] \in {"used", "revoked"} => db'.tokens[t] = db.tokens[t]
          /\ \A a \in Agents : /\ row(a) = NULL => db'.agents[a] = NULL
                               /\ row(a) # NULL => db'.agents[a].token = row(a).token
                               /\ db'.assigned[a] = db.assigned[a]

(* The other requests can still rely on what they relied on.                *)
LEMMA OthersKept ==
    ASSUME RegInv, NEW r \in Slots, Kept(r), NEW q \in Slots \ {r}
    PROVE  RequestInv(q)'
<1> SUFFICES ASSUME Open(q) PROVE RequestInv(q)'
  BY DEF RequestInv, Open, Kept
<1>0. PICK x \in Requests : x = req[q]
  BY DEF RegInv, RegType, Open
<1>1. /\ req'[q] = x
      /\ Control(x.op, x.pc) /\ (Writing(x) => locks["write"] = q) /\ Subject(x) /\ TokenHeld(x) /\ Revoked(x)
  BY <1>0 DEF Kept, RegInv, RequestInv
<1>2. /\ x.agent \in Agents \union {NULL} /\ x.rest \subseteq Agents
      /\ x.token \in Tokens \union {NULL} /\ x.seq \in {-1} \union SeqNumbers
  BY <1>1 DEF Requests
<1>3. Control(x.op, x.pc)'
  BY <1>1 DEF Control
<1>4. Writing(x) => locks'["write"] = q
  BY <1>1 DEF Kept
<1>5. Subject(x)'
  BY <1>1, <1>2, SMT DEF Subject, Kept, KeptRows, row
<1>6. TokenHeld(x)'
  BY <1>1, <1>2, SMT DEF TokenHeld, Kept, Subject, Writing, row
<1>7. Revoked(x)'
  BY <1>1, <1>2, SMT DEF Revoked, Kept, KeptRows, Subject, Writing, row, Gone, Bumping
<1> QED BY <1>1, <1>3, <1>4, <1>5, <1>6, <1>7 DEF RequestInv

(* A request on its way is a record, and its invariant holds.               *)
LEMMA OpenRequest ==
    ASSUME RegInv, NEW r \in Slots, Open(r)
    PROVE  LET x == req[r]
           IN /\ x \in Requests /\ x.agent \in Agents \union {NULL} /\ x.rest \subseteq Agents
              /\ x.token \in Tokens \union {NULL} /\ x.seq \in {-1} \union SeqNumbers
              /\ x.got \in Generations /\ x.flag \in BOOLEAN /\ x.op \in Operations
              /\ Control(x.op, x.pc) /\ (Writing(x) => locks["write"] = r)
              /\ Subject(x) /\ TokenHeld(x) /\ Revoked(x)
<1>1. req[r] \in Requests
  BY DEF RegInv, RegType, Open
<1>2. req[r].flag \in BOOLEAN
  BY <1>1 DEF Requests
<1>3. /\ req[r].agent \in Agents \union {NULL} /\ req[r].rest \subseteq Agents
      /\ req[r].token \in Tokens \union {NULL} /\ req[r].seq \in {-1} \union SeqNumbers
      /\ req[r].got \in Generations /\ req[r].op \in Operations
  BY <1>1 DEF Requests
<1> QED BY <1>1, <1>2, <1>3 DEF RegInv, RequestInv

(* The rows are rows.                                                       *)
LEMMA StoredRow ==
    ASSUME RegInv, NEW a \in Agents
    PROVE  (row(a) # NULL => row(a) \in Rows) /\ (disk.agents[a] # NULL => disk.agents[a] \in Rows)
BY DEF RegInv, RegType, Databases, row

StepInv(r) ==
    /\ RegType'
    /\ StoreInv(db, sent, acked)'
    /\ StoreInv(disk, sent, acked)'
    /\ KeptRows(disk, db)'
    /\ Committed'
    /\ Kept(r)
    /\ RequestInv(r)'

(* A step of r that keeps what StepInv names keeps the invariant: the       *)
(* requests of the other slots are as they were, and so is what they need.  *)
LEMMA StepKeeps ==
    ASSUME RegInv, NEW r \in Slots, StepInv(r)
    PROVE  RegInv'
<1>1. ASSUME NEW q \in Slots PROVE RequestInv(q)'
  BY OthersKept DEF StepInv
<1> QED BY <1>1 DEF StepInv, RegInv

(* A step that leaves the database alone, and only adds a report that was   *)
(* not there.                                                               *)
Quiet(r) ==
    /\ UNCHANGED store
    /\ \A q \in Slots \ {r} : req'[q] = req[q]
    /\ req' \in [Slots -> Requests \union {NULL, DONE}]
    /\ locks' \in [{"write", "liveness"} -> Slots \union {NULL}]
    /\ locks'["write"] = locks["write"]
    /\ sent' \in [Agents -> [SeqNumbers -> Messages \union {NULL}]]
    /\ \A a \in Agents, s \in SeqNumbers : sent[a][s] # NULL => sent'[a][s] = sent[a][s]

(* A step of r that writes nothing keeps the invariant when r has nothing   *)
(* uncommitted.                                                             *)
LEMMA QuietStep ==
    ASSUME RegInv, NEW r \in Slots, Quiet(r), ~Uncommitted(r),
           Answered(db, acked'), Answered(disk, acked'), RequestInv(r)'
    PROVE  RegInv'
<1>1. db' = db /\ disk' = disk
  BY DEF Quiet, store
<1>2. RegType'
  BY <1>1 DEF RegInv, RegType, Quiet
<1>3. ASSUME NEW d, d \in Databases, Newest(d, sent) PROVE Newest(d, sent')
  <2> SUFFICES ASSUME NEW a \in Agents, d.agents[a] # NULL, d.agents[a].sequence >= 0
               PROVE  sent'[a][d.agents[a].sequence] = sent[a][d.agents[a].sequence]
    BY <1>3 DEF Newest
  <2>1. d.agents[a] \in Rows
    BY <1>3 DEF Databases
  <2>2. d.agents[a].sequence \in SeqNumbers
    BY <2>1, SMT DEF Rows
  <2>3. sent[a][d.agents[a].sequence] # NULL
    BY <1>3 DEF Newest
  <2> QED BY <2>2, <2>3 DEF Quiet
<1>4. StoreInv(db, sent, acked)' /\ StoreInv(disk, sent, acked)'
  BY <1>1, <1>3 DEF RegInv, StoreInv, RegType
<1>5. KeptRows(disk, db)'
  BY <1>1 DEF RegInv
<1>6. Committed'
  <2>1. ASSUME NEW q \in Slots, Uncommitted(q) PROVE Uncommitted(q)'
    BY <2>1 DEF Uncommitted, Open, Quiet
  <2> QED BY <1>1, <2>1 DEF RegInv, Committed, Agree, row
<1>7. Kept(r)
  BY <1>1 DEF Kept, KeptRows, Quiet, row
<1> QED BY <1>2, <1>4, <1>5, <1>6, <1>7, StepKeeps DEF StepInv

(* A request that has no write of its own relies on its subject only.       *)
Free == {"create", "heartbeat", "event", "claim", "sweep"}

(* A request of an operation that relies on no row needs its place and its  *)
(* subject only.                                                            *)
LEMMA FreeRequest ==
    ASSUME NEW r, NEW y, y.op \in Free, req'[r] = y, Control(y.op, y.pc), Subject(y)'
    PROVE  RequestInv(r)'
BY DEF RequestInv, Writing, TokenHeld, Revoked, Free, Control

(* A request reads, and goes on with the same subject or returns.           *)
Onward(r, y) ==
    LET x == req[r]
    IN \/ y = DONE
       \/ /\ y \in Requests /\ Control(y.op, y.pc)
          /\ y.op = x.op /\ y.agent = x.agent /\ y.token = x.token /\ y.rest = x.rest
          /\ y.op \in {"heartbeat", "event"} => y.seq = x.seq
          /\ y.op = "sweep" /\ y.pc # "next" => y.agent # NULL
          /\ y.op = "event" /\ y.pc = "set_state" =>
                row(y.agent).revoked \/ row(y.agent).transport = "direct"
          /\ y.op = "revoke" => y.pc \in Bumping

Reader(r) == Open(r) /\ (req[r].op \in Free \/ (req[r].op = "revoke" /\ req[r].pc \in Bumping))

(* A step that reads, and goes on to a place its handler has, keeps the     *)
(* invariant.                                                               *)
LEMMA ReaderStep ==
    ASSUME RegInv, NEW r \in Slots, NEW y, Reader(r), Onward(r, y),
           req' = [req EXCEPT ![r] = y], UNCHANGED <<store, sent>>,
           Answered(db, acked'), Answered(disk, acked'),
           locks' \in [{"write", "liveness"} -> Slots \union {NULL}],
           locks'["write"] = locks["write"]
    PROVE  RegInv'
<1>1. y \in Requests \union {DONE} /\ req'[r] = y
  BY DEF Onward, RegInv, RegType
<1>2. Quiet(r) /\ ~Uncommitted(r)
  BY <1>1 DEF Quiet, RegInv, RegType, Uncommitted, Free, Reader, Bumping
<1>3. db' = db /\ disk' = disk /\ sent' = sent
  BY DEF store
<1>4. RequestInv(r)'
  <2>1. CASE y = DONE
    BY <1>1, <2>1 DEF RequestInv, Open
  <2>2. CASE y # DONE
    <3>1. Subject(y)'
      BY <2>2, <1>3, OpenRequest, SMT DEF Onward, Subject, row, Reader
    <3>2. CASE req[r].op \in Free
      BY <1>1, <2>2, <3>1, <3>2, FreeRequest DEF Onward
    <3>3. CASE req[r].op = "revoke" /\ req[r].pc \in Bumping
      <4>1. Revoked(y)'
        BY <1>3, <2>2, <3>3, OpenRequest DEF Onward, Revoked, row, Reader, Bumping
      <4> QED BY <1>1, <2>2, <3>1, <3>3, <4>1 DEF Onward, RequestInv, Writing, TokenHeld, Bumping
    <3> QED BY <3>2, <3>3 DEF Reader
  <2> QED BY <2>1, <2>2
<1> QED BY <1>2, <1>4, QuietStep

(* A request that goes on keeps its operation and its agent.                *)
LEMMA GotoFields ==
    ASSUME RegInv, NEW r \in Slots, Open(r), NEW p \in Points
    PROVE  LET y == Goto(r, p)
               x == req[r]
           IN /\ y \in Requests /\ y.pc = p /\ y.op = x.op /\ y.agent = x.agent
              /\ y.token = x.token /\ y.seq = x.seq /\ y.got = x.got /\ y.rest = x.rest
              /\ y.flag = x.flag
<1>1. PICK x \in Requests : x = req[r]
  BY OpenRequest
<1>2. Goto(r, p) = [x EXCEPT !.pc = p]
  BY <1>1 DEF Goto
<1> QED BY <1>1, <1>2, GoesOn, SMT

(* Where a request may go on to.                                            *)
LEMMA GoesOnward ==
    ASSUME RegInv, NEW r \in Slots, Open(r), NEW p \in Points,
           Control(req[r].op, p),
           req[r].op = "sweep" /\ p # "next" => req[r].agent # NULL,
           req[r].op = "revoke" => p \in Bumping,
           req[r].op = "event" /\ p = "set_state" =>
               row(req[r].agent).revoked \/ row(req[r].agent).transport = "direct"
    PROVE  Onward(r, Goto(r, p))
<1>1. PICK y : y = Goto(r, p)
  OBVIOUS
<1>2. /\ y \in Requests /\ y.pc = p /\ y.op = req[r].op /\ y.agent = req[r].agent
      /\ y.token = req[r].token /\ y.seq = req[r].seq /\ y.rest = req[r].rest
  BY <1>1, GotoFields
<1>3. Onward(r, y)
  BY <1>2 DEF Onward
<1> QED BY <1>1, <1>3

(* NULL names no agent, no token and no slot.                               *)
LEMMA NoneIsNobody == NULL \notin Agents /\ NULL \notin Tokens /\ NULL \notin Slots
BY RegistryAssumption

(* Taking or releasing one lock leaves the other as it was.                 *)
LEMMA LocksKeepType ==
    ASSUME RegType, NEW l \in {"write", "liveness"}, NEW v \in Slots \union {NULL},
           locks' = [locks EXCEPT ![l] = v]
    PROVE  /\ locks' \in [{"write", "liveness"} -> Slots \union {NULL}] /\ locks'[l] = v
           /\ \A k \in {"write", "liveness"} \ {l} : locks'[k] = locks[k]
BY DEF RegType

(* The steps that only read: the next await is reached with what they saw.  *)
LEMMA ReadSteps ==
    ASSUME RegInv, NEW r \in Slots
    PROVE  \/ HeartbeatRoute(r) \/ HeartbeatSnapshot(r) \/ has_pending(r) \/ EventRoute(r)
           \/ SweepRoute(r) \/ BumpSelect(r) \/ PresenceSelect(r) \/ ClaimRoute(r)
           \/ BrokerClaim(r) \/ invalidate_agent(r) \/ SweepEnd(r)
           => RegInv'
(* The reads of a heartbeat, of an event and of the sweep.                  *)
<1>PresenceReads. ASSUME \/ HeartbeatRoute(r) \/ HeartbeatSnapshot(r) \/ has_pending(r) \/ EventRoute(r)
                         \/ SweepRoute(r)
                  PROVE  RegInv'
  <2> USE <1>PresenceReads
  <2>1. ASSUME NEW y, Reads(r, y), Reader(r), Onward(r, y) PROVE RegInv'
    <3>1. Answered(db, acked') /\ Answered(disk, acked')
      BY <2>1 DEF RegInv, StoreInv, Reads, history
    <3> QED BY <2>1, <3>1, ReaderStep DEF Reads, memory, RegInv, RegType
  <2>d. Onward(r, DONE)
    BY DEF Onward
  <2>2. CASE HeartbeatRoute(r)
    <3>1. Open(r) /\ req[r].op = "heartbeat" /\ Reader(r)
      BY <2>2 DEF HeartbeatRoute, At, Open, Reader, Free
    <3>2. Onward(r, Goto(r, "snapshot"))
      BY <3>1, GoesOnward DEF Control, Points
    <3> QED BY <2>1, <2>d, <2>2, <3>1, <3>2 DEF HeartbeatRoute
  <2>3. CASE HeartbeatSnapshot(r)
    <3>1. Open(r) /\ req[r].op = "heartbeat" /\ Reader(r)
      BY <2>3 DEF HeartbeatSnapshot, At, Open, Reader, Free
    <3>2. Onward(r, Goto(r, "pending"))
      BY <3>1, GoesOnward DEF Control, Points
    <3>3. Reads(r, DONE) \/ Reads(r, Goto(r, "pending"))
      BY <2>3 DEF HeartbeatSnapshot
    <3> QED BY <2>1, <2>d, <3>1, <3>2, <3>3
  <2>4. CASE has_pending(r)
    <3>1. /\ Open(r) /\ req[r].op \in {"heartbeat", "sweep"} /\ Reader(r)
          /\ req[r].op = "sweep" => req[r].agent # NULL
      BY <2>4, OpenRequest DEF has_pending, AtAny, Open, Reader, Free, Control, Subject, Bumping
    <3>2. /\ Onward(r, Goto(r, "bump"))
          /\ req[r].op = "sweep" => Onward(r, Goto(r, "next"))
      BY <3>1, GoesOnward DEF Control, Points, Bumping
    <3>3. \/ Reads(r, DONE) \/ Reads(r, Goto(r, "bump"))
          \/ Reads(r, Goto(r, "next")) /\ req[r].op = "sweep"
      BY <2>4 DEF has_pending
    <3> QED BY <2>1, <2>d, <3>1, <3>2, <3>3
  <2>5. CASE EventRoute(r)
    <3>1. Open(r) /\ req[r].op = "event" /\ Reader(r)
      BY <2>5 DEF EventRoute, At, Open, Reader, Free
    <3>2. req[r].agent \in Agents /\ row(req[r].agent) \in Rows
      BY <3>1, OpenRequest, StoredRow DEF Subject
    <3>3. row(req[r].agent) # NULL /\ row(req[r].agent).generation # NULL
          /\ row(req[r].agent).transport \in {"direct", "site_relay"}
      BY <3>2, NoneIsNoValue DEF Rows
    <3>4. Onward(r, Goto(r, "presence"))
      BY <3>1, GoesOnward DEF Control, Points
    <3>5. site_route(req[r].agent) = NULL => Onward(r, Goto(r, "set_state"))
      BY <3>1, <3>3, GoesOnward DEF Control, Points, site_route, authenticate_agent
    <3> QED BY <2>1, <2>d, <2>5, <3>1, <3>4, <3>5 DEF EventRoute
  <2>6. CASE SweepRoute(r)
    <3>1. Open(r) /\ req[r].op = "sweep" /\ req[r].pc = "route" /\ Reader(r) /\ req[r].agent # NULL
      BY <2>6, OpenRequest DEF SweepRoute, At, Open, Reader, Free, Subject
    <3>2. Onward(r, Goto(r, "next")) /\ Onward(r, Goto(r, "pending"))
      BY <3>1, GoesOnward DEF Control, Points
    <3> QED BY <2>1, <2>d, <2>6, <3>1, <3>2 DEF SweepRoute
  <2> QED BY <2>2, <2>3, <2>4, <2>5, <2>6
(* The reads that remember a generation.                                    *)
<1>GenerationReads. ASSUME BumpSelect(r) \/ PresenceSelect(r)
                    PROVE  RegInv'
  <2> USE <1>GenerationReads
  <2>1. /\ Open(r) /\ req[r].op \in {"revoke", "heartbeat", "sweep", "event"} /\ req[r].agent # NULL
        /\ Reader(r)
    BY OpenRequest DEF BumpSelect, PresenceSelect, AtAny, At, Open, Control, Subject, Reader, Free, Bumping
  <2>2. row(req[r].agent) \in Rows
    BY <2>1, OpenRequest, StoredRow DEF Subject
  <2>3. PICK g \in Generations : g = row(req[r].agent).generation
    BY <2>2 DEF Rows
  <2>4. PICK x \in Requests : /\ x = Goto(r, "invalidate") /\ x.pc = "invalidate" /\ x.op = req[r].op
                              /\ x.agent = req[r].agent /\ x.token = req[r].token
                              /\ x.seq = req[r].seq /\ x.rest = req[r].rest
    BY <2>1, GotoFields, SMT DEF Points
  <2>5. PICK y : y = [x EXCEPT !.got = g]
    OBVIOUS
  <2>6. Onward(r, y)
    BY <2>1, <2>4, <2>5, GotGeneration, SMT DEF Onward, Control, Bumping
  <2>7. /\ req' = [req EXCEPT ![r] = y] /\ UNCHANGED <<store, sent>> /\ acked' = acked
        /\ locks' = locks \/ locks' = [locks EXCEPT !["liveness"] = NULL]
    BY <2>3, <2>4, <2>5 DEF BumpSelect, PresenceSelect, Reads, memory, history, Release
  <2>8. /\ locks' \in [{"write", "liveness"} -> Slots \union {NULL}]
        /\ locks'["write"] = locks["write"]
    BY <2>7, LocksKeepType DEF RegInv, RegType
  <2>9. Answered(db, acked') /\ Answered(disk, acked')
    BY <2>7 DEF RegInv, StoreInv
  <2> QED BY <2>1, <2>6, <2>7, <2>8, <2>9, ReaderStep
(* The route of a claim, and the claim.                                     *)
<1>ClaimSteps. ASSUME ClaimRoute(r) \/ BrokerClaim(r)
               PROVE  RegInv'
  <2> USE <1>ClaimSteps
  <2>1. Open(r) /\ req[r].op = "claim" /\ req[r].agent # NULL /\ Reader(r)
    BY OpenRequest DEF ClaimRoute, BrokerClaim, At, Open, Subject, Reader, Free
  <2>2. row(req[r].agent) \in Rows
    BY <2>1, OpenRequest, StoredRow DEF Subject
  <2>3. PICK x \in Requests : /\ x = Goto(r, "claim") /\ x.pc = "claim" /\ x.op = req[r].op
                              /\ x.agent = req[r].agent /\ x.token = req[r].token
                              /\ x.rest = req[r].rest
    BY <2>1, GotoFields, SMT DEF Points
  <2>4. PICK y : /\ req' = [req EXCEPT ![r] = y]
                 /\ y = DONE \/ \E g \in Generations, s \in {-1} \union SeqNumbers :
                                    y = [x EXCEPT !.got = g, !.seq = s]
    <3>1. CASE ClaimRoute(r)
      <4>1. row(req[r].agent).generation \in Generations
            /\ row(req[r].agent).sequence \in {-1} \union SeqNumbers
        BY <2>2 DEF Rows
      <4>2. site_route(req[r].agent) # NULL => site_route(req[r].agent) = row(req[r].agent).generation
        BY DEF site_route
      <4> QED BY <2>3, <3>1, <4>1, <4>2 DEF ClaimRoute, Reads
    <3>2. CASE BrokerClaim(r)
      BY <3>2 DEF BrokerClaim
    <3> QED BY <3>1, <3>2
  <2>5. Onward(r, y)
    <3>1. CASE y = DONE
      BY <3>1 DEF Onward
    <3>2. ASSUME NEW g \in Generations, NEW s \in {-1} \union SeqNumbers,
                 y = [x EXCEPT !.got = g, !.seq = s]
          PROVE  Onward(r, y)
      <4>1. y \in Requests
        BY <3>2 DEF Requests
      <4>2. y.pc = x.pc /\ y.op = x.op /\ y.agent = x.agent /\ y.token = x.token /\ y.rest = x.rest
        BY <3>2 DEF Requests
      <4> QED BY <2>1, <2>3, <4>1, <4>2 DEF Onward, Control
    <3> QED BY <2>4, <3>1, <3>2
  <2>6. UNCHANGED <<store, sent>> /\ acked' = acked /\ locks' = locks
    BY DEF ClaimRoute, BrokerClaim, Reads, memory, history
  <2>7. Answered(db, acked') /\ Answered(disk, acked')
    BY <2>6 DEF RegInv, StoreInv
  <2> QED BY <2>1, <2>4, <2>5, <2>6, <2>7, ReaderStep DEF RegInv, RegType
(* The answer of an invalidation, and the end of the sweep.                 *)
<1>FenceSteps. ASSUME invalidate_agent(r) \/ SweepEnd(r)
               PROVE  RegInv'
  <2> USE <1>FenceSteps
  <2>1. /\ Open(r) /\ Reader(r) /\ req[r].op \in {"revoke", "heartbeat", "sweep", "event"}
        /\ invalidate_agent(r) => req[r].pc = "invalidate"
    BY OpenRequest DEF invalidate_agent, SweepEnd, AtAny, At, Open, Control, Reader, Free, Bumping
  <2>2. PICK y : /\ req' = [req EXCEPT ![r] = y]
                 /\ y = DONE \/ (req[r].op = "sweep" /\ y = Goto(r, "next"))
    BY DEF invalidate_agent, SweepEnd
  <2>3. Onward(r, y)
    <3>1. req[r].op = "sweep" => Onward(r, Goto(r, "next"))
      BY <2>1, GoesOnward DEF Control, Points
    <3>2. Onward(r, DONE)
      BY DEF Onward
    <3> QED BY <2>2, <3>1, <3>2
  <2>4. /\ UNCHANGED <<store, sent>>
        /\ locks' = locks \/ locks' = [locks EXCEPT !["liveness"] = NULL]
    BY DEF invalidate_agent, SweepEnd, memory, Release
  <2>5. /\ locks' \in [{"write", "liveness"} -> Slots \union {NULL}]
        /\ locks'["write"] = locks["write"]
    BY <2>4, LocksKeepType DEF RegInv, RegType
  <2>6. Answered(db, acked') /\ Answered(disk, acked')
    <3>1. CASE acked' = acked
      BY <3>1 DEF RegInv, StoreInv
    <3>2. CASE invalidate_agent(r) /\ req[r].op = "revoke" /\ acked' = acked \union {<<"revoke", req[r].agent>>}
      <4>1. Gone(db, req[r].agent) /\ Gone(disk, req[r].agent)
        BY <2>1, <3>2, OpenRequest DEF Subject, Revoked, Gone, row, Bumping
      <4> QED BY <3>2, <4>1 DEF RegInv, StoreInv, Answered
    <3>3. CASE acked' = acked \union {<<"event", req[r].agent, req[r].seq>>}
      BY <3>3 DEF RegInv, StoreInv, Answered
    <3> QED BY <3>1, <3>2, <3>3 DEF invalidate_agent, SweepEnd, Answers, history
  <2> QED BY <2>1, <2>2, <2>3, <2>4, <2>5, <2>6, ReaderStep
<1> QED BY <1>PresenceReads, <1>GenerationReads, <1>ClaimSteps, <1>FenceSteps

(* A request about an agent starts.                                         *)
LEMMA ForFields ==
    ASSUME NEW op \in Operations, NEW p \in Points, NEW a \in Agents
    PROVE  LET y == For(op, p, a)
           IN /\ y \in Requests /\ y.op = op /\ y.pc = p /\ y.agent = a /\ y.token = NULL
              /\ y.rest = {}
<1>1. PICK x \in Requests : /\ x = Request(op, p) /\ x.op = op /\ x.pc = p /\ x.token = NULL
                            /\ x.rest = {}
  BY NewRequest
<1>2. PICK y : y = [x EXCEPT !.agent = a]
  OBVIOUS
<1>3. y \in Requests
  BY <1>2 DEF Requests
<1>4. y.op = op /\ y.pc = p /\ y.agent = a /\ y.token = NULL /\ y.rest = {}
  BY <1>1, <1>2 DEF Requests
<1>5. y = For(op, p, a)
  BY <1>1, <1>2 DEF For
<1> QED BY <1>3, <1>4, <1>5

(* The requests that start without writing.                                 *)
LEMMA StartSteps ==
    ASSUME RegInv, NEW r \in Slots
    PROVE  \/ \E a \in Agents, s \in SeqNumbers, m \in Messages :
                 heartbeat(r, a, s, m) \/ events(r, a, s, m)
           \/ \E a \in Agents : inference_claim(r, a) \/ revoke_agent(r, a)
           \/ offline_eviction_loop(r) \/ SweepNext(r)
           => RegInv'
(* A request starts that has written nothing yet.                           *)
<1>QuietStart. ASSUME NEW y \in Requests, req[r] = NULL,
                      req' = [req EXCEPT ![r] = y], UNCHANGED <<store, acked>>,
                      locks' \in [{"write", "liveness"} -> Slots \union {NULL}],
                      locks'["write"] = locks["write"],
                      sent' \in [Agents -> [SeqNumbers -> Messages \union {NULL}]],
                      \A a \in Agents, s \in SeqNumbers : sent[a][s] # NULL => sent'[a][s] = sent[a][s],
                      Control(y.op, y.pc), Subject(y)',
                      y.op \in Free \/ (y.op = "revoke" /\ y.pc = "revoke")
               PROVE  RegInv'
  <2> USE <1>QuietStart
  <2>1. req'[r] = y
    BY DEF RegInv, RegType
  <2>2. Quiet(r) /\ ~Uncommitted(r)
    BY <2>1 DEF Quiet, RegInv, RegType, Uncommitted, Open
  <2>3. RequestInv(r)'
    BY <2>1 DEF RequestInv, Writing, TokenHeld, Revoked, Free, Control, Bumping
  <2>4. Answered(db, acked') /\ Answered(disk, acked')
    BY DEF RegInv, StoreInv
  <2> QED BY <2>2, <2>3, <2>4, QuietStep
(* The reports of the agents.                                               *)
<1>ReportArrives. ASSUME NEW a \in Agents, NEW s \in SeqNumbers, NEW m \in Messages,
                         heartbeat(r, a, s, m) \/ events(r, a, s, m)
                  PROVE  RegInv'
  <2> USE <1>ReportArrives
  <2>1. PICK op \in {"heartbeat", "event"}, p \in {"record", "route"} :
           /\ m.kind = op /\ Control(op, p) /\ req[r] = NULL /\ (op = "event" => p = "route")
           /\ req' = [req EXCEPT ![r] = [For(op, p, a) EXCEPT !.seq = s]]
    <3>1. CASE heartbeat(r, a, s, m)
      BY <3>1 DEF heartbeat, Control
    <3>2. CASE events(r, a, s, m)
      BY <3>2 DEF events, Control
    <3> QED BY <3>1, <3>2
  <2>2. PICK x \in Requests : /\ x = For(op, p, a) /\ x.op = op /\ x.pc = p /\ x.agent = a
                              /\ x.rest = {}
    <3>1. op \in Operations /\ p \in Points
      BY DEF Operations, Points
    <3> QED BY <3>1, ForFields, SMT
  <2>3. PICK y : y = [x EXCEPT !.seq = s]
    OBVIOUS
  <2>4. y \in Requests
    BY <2>3 DEF Requests
  <2>5. y.op = op /\ y.pc = p /\ y.agent = a /\ y.rest = {} /\ y.seq = s
    BY <2>2, <2>3 DEF Requests
  <2>6. /\ sent[a][s] \in {NULL, m} /\ sent' = [sent EXCEPT ![a][s] = m] /\ authenticate_agent(a)
        /\ UNCHANGED <<store, acked, locks>>
    BY DEF heartbeat, events, Arrives, history
  <2>7. /\ sent' \in [Agents -> [SeqNumbers -> Messages \union {NULL}]]
        /\ \A b \in Agents, n \in SeqNumbers : sent[b][n] # NULL => sent'[b][n] = sent[b][n]
        /\ sent'[a][s] = m
    BY <2>6 DEF RegInv, RegType
  <2>8. Subject(y)'
    <3>1. row(a)' # NULL /\ m # NULL
      BY <2>6, NoneIsNoValue DEF authenticate_agent, row, store
    <3> QED BY <2>1, <2>5, <2>7, <3>1, NoneIsNobody DEF Subject
  <2>9. /\ locks' \in [{"write", "liveness"} -> Slots \union {NULL}]
        /\ locks'["write"] = locks["write"] /\ y.op \in Free /\ Control(y.op, y.pc)
        /\ req' = [req EXCEPT ![r] = y]
    BY <2>1, <2>2, <2>3, <2>5, <2>6 DEF RegInv, RegType, Free
  <2> QED BY <2>1, <2>4, <2>6, <2>7, <2>8, <2>9, <1>QuietStart
(* A claim, a revocation and the sweep start.                               *)
<1>OtherStarts. ASSUME (\E a \in Agents : inference_claim(r, a) \/ revoke_agent(r, a)) \/ offline_eviction_loop(r)
                PROVE  RegInv'
  <2> USE <1>OtherStarts
  <2>1. ASSUME NEW a \in Agents, inference_claim(r, a) PROVE RegInv'
    <3>1. PICK y \in Requests : /\ y = For("claim", "route", a) /\ y.op = "claim" /\ y.pc = "route"
                                /\ y.agent = a /\ y.rest = {}
      <4>1. "claim" \in Operations /\ "route" \in Points
        BY DEF Operations, Points
      <4> QED BY <4>1, ForFields, SMT
    <3>2. /\ req' = [req EXCEPT ![r] = y] /\ req[r] = NULL /\ row(a) # NULL
          /\ UNCHANGED <<store, acked, locks, sent>>
      BY <2>1, <3>1 DEF inference_claim, Reads, memory, history, authenticate_agent
    <3>3. Subject(y)' /\ Control(y.op, y.pc)
      BY <3>1, <3>2, NoneIsNobody DEF Subject, Control, row, store
    <3> QED BY <3>1, <3>2, <3>3, <1>QuietStart DEF RegInv, RegType, Free
  <2>2. ASSUME NEW a \in Agents, revoke_agent(r, a) PROVE RegInv'
    <3>1. PICK x \in Requests : /\ x = For("revoke", "revoke", a) /\ x.op = "revoke" /\ x.pc = "revoke"
                                /\ x.agent = a /\ x.rest = {}
      <4>1. "revoke" \in Operations /\ "revoke" \in Points
        BY DEF Operations, Points
      <4> QED BY <4>1, ForFields, SMT
    <3>2. PICK f \in BOOLEAN : f = (row(a).transport = "site_relay")
      OBVIOUS
    <3>3. PICK y : y = [x EXCEPT !.flag = f]
      OBVIOUS
    <3>4. y \in Requests
      BY <3>3 DEF Requests
    <3>5. y.op = "revoke" /\ y.pc = "revoke" /\ y.agent = a /\ y.rest = {}
      BY <3>1, <3>3 DEF Requests
    <3>6. req' = [req EXCEPT ![r] = y]
      BY <2>2, <3>1, <3>2, <3>3 DEF revoke_agent, Reads
    <3>7. req[r] = NULL /\ row(a) # NULL /\ UNCHANGED <<store, acked, locks, sent>>
      BY <2>2 DEF revoke_agent, Reads, memory, history
    <3>8. Subject(y)' /\ Control(y.op, y.pc)
      BY <3>5, <3>7, NoneIsNobody DEF Subject, Control, row, store
    <3> QED BY <3>4, <3>5, <3>6, <3>7, <3>8, <1>QuietStart DEF RegInv, RegType
  <2>3. ASSUME offline_eviction_loop(r) PROVE RegInv'
    <3>1. PICK x \in Requests : /\ x = Request("sweep", "next") /\ x.op = "sweep" /\ x.pc = "next"
                                /\ x.agent = NULL
      <4>1. "sweep" \in Operations /\ "next" \in Points
        BY DEF Operations, Points
      <4> QED BY <4>1, NewRequest, SMT
    <3>2. PICK offline \in SUBSET {a \in Agents : row(a) # NULL} :
             req' = [req EXCEPT ![r] = [x EXCEPT !.rest = offline]]
      BY <2>3, <3>1 DEF offline_eviction_loop
    <3>3. PICK y : y = [x EXCEPT !.rest = offline]
      OBVIOUS
    <3>4. y \in Requests
      BY <3>3 DEF Requests
    <3>5. y.op = "sweep" /\ y.pc = "next" /\ y.agent = NULL /\ y.rest = offline
      BY <3>1, <3>3 DEF Requests
    <3>6. /\ req[r] = NULL /\ UNCHANGED <<store, acked, sent>>
          /\ locks' = [locks EXCEPT !["liveness"] = r]
      BY <2>3 DEF offline_eviction_loop, memory, history, Acquire
    <3>7. Subject(y)' /\ Control(y.op, y.pc)
      BY <3>5, <3>6 DEF Subject, Control, row, store
    <3>8. /\ locks' \in [{"write", "liveness"} -> Slots \union {NULL}]
          /\ locks'["write"] = locks["write"]
      BY <3>6, LocksKeepType DEF RegInv
    <3> QED BY <3>2, <3>3, <3>4, <3>5, <3>6, <3>7, <3>8, <1>QuietStart DEF RegInv, RegType, Free
  <2> QED BY <2>1, <2>2, <2>3
(* The sweep takes the next agent it found.                                 *)
<1>SweepTakes. ASSUME SweepNext(r)
               PROVE  RegInv'
  <2> USE <1>SweepTakes
  <2>1. Open(r) /\ req[r].op = "sweep"
    BY DEF SweepNext, At, Open
  <2>2. PICK a \in req[r].rest :
           req' = [req EXCEPT ![r] = [Goto(r, "route") EXCEPT !.agent = a, !.rest = @ \ {a}]]
    BY DEF SweepNext, Reads
  <2>3. UNCHANGED <<store, locks, sent, acked>>
    BY DEF SweepNext, Reads, memory, history
  <2>4. PICK x \in Requests : /\ x = Goto(r, "route") /\ x.op = "sweep" /\ x.pc = "route"
                              /\ x.rest = req[r].rest
    BY <2>1, GotoFields, SMT DEF Points
  <2>5. a \in Agents /\ row(a) # NULL /\ \A b \in x.rest : row(b) # NULL
    BY <2>1, <2>2, <2>4, OpenRequest DEF Subject
  <2>6. PICK y : y = [x EXCEPT !.agent = a, !.rest = x.rest \ {a}]
    OBVIOUS
  <2>7. y \in Requests
    <3>1. x.rest \ {a} \in SUBSET Agents
      BY <2>1, <2>4, OpenRequest
    <3> QED BY <2>5, <2>6, <3>1 DEF Requests
  <2>8. y.op = "sweep" /\ y.pc = "route" /\ y.agent = a /\ y.rest = x.rest \ {a}
    BY <2>4, <2>6 DEF Requests
  <2>9. req' = [req EXCEPT ![r] = y]
    BY <2>2, <2>4, <2>6
  <2>10. req'[r] = y /\ Quiet(r) /\ ~Uncommitted(r)
    BY <2>1, <2>3, <2>7, <2>9 DEF Quiet, RegInv, RegType, Uncommitted
  <2>11. Subject(y)' /\ Control(y.op, y.pc)
    BY <2>3, <2>5, <2>8, NoneIsNobody DEF Subject, Control, row, store
  <2>12. RequestInv(r)'
    BY <2>8, <2>10, <2>11, FreeRequest, SMT DEF Free
  <2> QED BY <2>3, <2>10, <2>12, QuietStep DEF RegInv, StoreInv
<1> QED BY <1>ReportArrives, <1>OtherStarts, <1>SweepTakes

-----------------------------------------------------------------------------
(* The commits.                                                             *)
LEMMA CommitSteps ==
    ASSUME RegInv, NEW r \in Slots
    PROVE  \/ CreateCommit(r) \/ VoidCommit(r) \/ RegisterCommit(r) \/ AssignCommit(r)
           \/ SetStateCommit(r) \/ RevokeCommit(r) \/ UnassignCommit(r) \/ BumpCommit(r)
           \/ HeartbeatCommit(r)
           => RegInv'
(* COMMIT: the committed rows become what the connection sees.              *)
<1>CommitStep. ASSUME NEW y \in Requests \union {DONE},
                      disk' = db, UNCHANGED <<db, sent>>, req' = [req EXCEPT ![r] = y],
                      locks' \in [{"write", "liveness"} -> Slots \union {NULL}],
                      \A q \in Slots \ {r} : locks["write"] = q => locks'["write"] = q,
                      Answered(db, acked'), RequestInv(r)'
               PROVE  RegInv'
  <2> USE <1>CommitStep
  <2>1. RegType'
    BY DEF RegInv, RegType
  <2>2. StoreInv(db, sent, acked)' /\ StoreInv(disk, sent, acked)'
    BY DEF RegInv, StoreInv
  <2>3. KeptRows(disk, db)' /\ Committed'
    BY DEF KeptRows, Committed, Agree, row
  <2>4. Kept(r)
    <3>1. KeptRows(db, db') /\ KeptRows(disk, disk')
      BY DEF RegInv, KeptRows
    <3>2. \A q \in Slots \ {r} : req'[q] = req[q]
      BY DEF RegInv, RegType
    <3> QED BY <3>1, <3>2 DEF Kept, row
  <2> QED BY <2>1, <2>2, <2>3, <2>4, StepKeeps DEF StepInv
(* After its commit a request returns, or goes on with the same subject.    *)
<1>CommitReturns. ASSUME Open(r), Commits(r, DONE), Answered(db, acked'),
                         \/ locks' = locks
                         \/ locks' = [locks EXCEPT !["liveness"] = NULL]
                         \/ locks' = [locks EXCEPT !["write"] = NULL] /\ Writing(req[r])
                  PROVE  RegInv'
  <2> USE <1>CommitReturns
  <2>1. /\ locks' \in [{"write", "liveness"} -> Slots \union {NULL}]
        /\ \A q \in Slots \ {r} : locks["write"] = q => locks'["write"] = q
    BY LocksKeepType, OpenRequest DEF RegInv, RegType
  <2>2. /\ disk' = db /\ UNCHANGED <<db, sent>> /\ req' = [req EXCEPT ![r] = DONE]
        /\ req'[r] = DONE
    BY DEF Commits, memory, RegInv, RegType
  <2>3. RequestInv(r)'
    BY <2>2 DEF RequestInv, Open
  <2> QED BY <2>1, <2>2, <2>3, <1>CommitStep
<1>CommitGoesOn. ASSUME Open(r), NEW p \in Points, Commits(r, Goto(r, p)),
                        acked' = acked, Control(req[r].op, p),
                        \/ locks' = locks
                        \/ locks' = [locks EXCEPT !["liveness"] = NULL]
                        \/ locks' = [locks EXCEPT !["write"] = NULL] /\ Writing(req[r]),
                        \/ req[r].op \in {"heartbeat", "event", "sweep"} /\ p # "set_state" /\ req[r].pc # "next"
                        \/ req[r].op = "revoke" /\ req[r].pc = "revoke_commit" /\ p = "unassign"
                        \/ req[r].op = "revoke" /\ req[r].pc \in {"unassign_commit"} \union Bumping /\ p \in Bumping
                 PROVE  RegInv'
  <2> USE <1>CommitGoesOn
  <2>1. /\ locks' \in [{"write", "liveness"} -> Slots \union {NULL}]
        /\ \A q \in Slots \ {r} : locks["write"] = q => locks'["write"] = q
    BY LocksKeepType, OpenRequest DEF RegInv, RegType
  <2>2. PICK y \in Requests : /\ y = Goto(r, p) /\ y.pc = p /\ y.op = req[r].op
                              /\ y.agent = req[r].agent /\ y.token = req[r].token
                              /\ y.seq = req[r].seq /\ y.rest = req[r].rest
    BY GotoFields, SMT
  <2>3. /\ disk' = db /\ db' = db /\ sent' = sent /\ req' = [req EXCEPT ![r] = y] /\ req'[r] = y
    BY <2>2 DEF Commits, memory, RegInv, RegType
  <2>4. Control(y.op, y.pc) /\ Subject(y)'
    BY <2>2, <2>3, OpenRequest, SMT DEF Subject, row
  <2>5. RequestInv(r)'
    <3>1. CASE req[r].op \in {"heartbeat", "event", "sweep"}
      BY <2>2, <2>3, <2>4, <3>1, FreeRequest, SMT DEF Free
    <3>2. CASE req[r].op = "revoke"
      <4>1. Revoked(y)'
        BY <2>2, <2>3, <3>2, OpenRequest, SMT DEF Revoked, Subject, row, Bumping
      <4> QED BY <2>2, <2>3, <2>4, <3>2, <4>1 DEF RequestInv, Writing, TokenHeld, Bumping
    <3> QED BY <3>1, <3>2
  <2>6. Answered(db, acked')
    BY DEF RegInv, StoreInv
  <2> QED BY <2>1, <2>2, <2>3, <2>5, <2>6, <1>CommitStep
<1>PlainCommits. ASSUME \/ CreateCommit(r) \/ VoidCommit(r) \/ RegisterCommit(r) \/ AssignCommit(r)
                        \/ SetStateCommit(r)
                 PROVE  RegInv'
  <2> USE <1>PlainCommits
  <2>1. Open(r) /\ Commits(r, DONE)
    BY DEF CreateCommit, VoidCommit, RegisterCommit, AssignCommit, SetStateCommit, At, Open
  <2>2. \/ locks' = locks
        \/ locks' = [locks EXCEPT !["liveness"] = NULL]
        \/ locks' = [locks EXCEPT !["write"] = NULL] /\ Writing(req[r])
    BY DEF CreateCommit, VoidCommit, RegisterCommit, AssignCommit, SetStateCommit, At, Release, Writing
  <2>3. Answered(db, acked')
    <3>1. CASE acked' = acked
      BY <3>1 DEF RegInv, StoreInv
    <3>2. CASE acked' = acked \union {<<"create", req[r].token>>}
      BY <3>2 DEF RegInv, StoreInv, Answered
    <3>3. CASE req[r].op = "void" /\ acked' = acked \union {<<"void", req[r].token>>}
      BY <2>1, <3>3, OpenRequest DEF RegInv, StoreInv, Answered, TokenHeld
    <3> QED BY <3>1, <3>2, <3>3 DEF CreateCommit, VoidCommit, RegisterCommit, AssignCommit,
                                   SetStateCommit, Answers, history, At
  <2> QED BY <2>1, <2>2, <2>3, <1>CommitReturns
<1>LongerCommits. ASSUME RevokeCommit(r) \/ UnassignCommit(r) \/ BumpCommit(r) \/ HeartbeatCommit(r)
                  PROVE  RegInv'
  <2> USE <1>LongerCommits
  <2>1. CASE RevokeCommit(r)
    BY <2>1, <1>CommitGoesOn DEF RevokeCommit, At, Open, Release, history, Control, Points, Writing
  <2>2. CASE UnassignCommit(r)
    <3>1. Open(r) /\ req[r].op = "revoke" /\ req[r].pc = "unassign_commit" /\ Writing(req[r])
          /\ locks' = [locks EXCEPT !["write"] = NULL]
      BY <2>2 DEF UnassignCommit, At, Open, Release, Writing
    <3>2. CASE Commits(r, Goto(r, "bump")) /\ UNCHANGED history
      BY <3>1, <3>2, <1>CommitGoesOn DEF history, Control, Points, Bumping
    <3>3. CASE Commits(r, DONE) /\ Answers(<<"revoke", req[r].agent>>)
      <4>1. Gone(db, req[r].agent)
        BY <3>1, OpenRequest DEF Subject, Revoked, Gone, row
      <4>2. Answered(db, acked')
        BY <3>3, <4>1 DEF RegInv, StoreInv, Answered, Answers
      <4> QED BY <3>1, <3>3, <4>2, <1>CommitReturns
    <3> QED BY <2>2, <3>2, <3>3 DEF UnassignCommit
  <2>3. CASE BumpCommit(r)
    <3>1. /\ Open(r) /\ req[r].pc = "bump_commit" /\ locks' = locks /\ acked' = acked
          /\ req[r].op \in {"revoke", "heartbeat", "sweep", "event"}
      BY <2>3, OpenRequest DEF BumpCommit, AtAny, Open, history, Control, Bumping
    <3>2. CASE req[r].op = "event"
      BY <2>3, <3>1, <3>2, <1>CommitGoesOn DEF BumpCommit, Control, Points
    <3>3. CASE req[r].op # "event"
      BY <2>3, <3>1, <3>3, <1>CommitGoesOn DEF BumpCommit, Control, Points, Bumping
    <3> QED BY <3>2, <3>3
  <2>4. CASE HeartbeatCommit(r)
    BY <2>4, <1>CommitGoesOn DEF HeartbeatCommit, At, Open, Release, history, Control, Points
  <2> QED BY <2>1, <2>2, <2>3, <2>4
<1> QED BY <1>PlainCommits, <1>LongerCommits

-----------------------------------------------------------------------------
(* UPDATE of the row of an agent by a request that goes on.                 *)
Fresh(a, y) ==
    y.sequence >= 0 =>
        /\ sent[a][y.sequence] # NULL
        /\ ~y.revoked /\ y.transport = "site_relay" =>
              y.state = sent[a][y.sequence].state /\ y.paused = sent[a][y.sequence].paused

(* What the UPDATE makes of the row, and where the request goes with it.    *)
RowUpdated(r, a, y, z) ==
    /\ Open(r) /\ req[r].agent = a /\ Updates(r, y, z) /\ Fresh(a, y)
    /\ y.transport = row(a).transport /\ y.token = row(a).token
    /\ row(a).revoked => y.revoked
    /\ \/ y.revoked = row(a).revoked /\ ~Uncommitted(r)
       \/ locks'["write"] = r /\ z.op = "revoke" /\ z.pc = "revoke_commit"

GoesWithRow(r, a, y, z) ==
    /\ z.op = req[r].op /\ z.agent = a /\ z.token = req[r].token
    /\ z.seq = req[r].seq /\ z.rest = req[r].rest /\ Control(z.op, z.pc)
    /\ \/ z.op \in {"heartbeat", "event", "sweep"} /\ z.pc \notin {"set_state", "next"}
       \/ z.op = "revoke" /\ z.pc = "revoke_commit" /\ y.revoked /\ locks'["write"] = r
       \/ z.op = "revoke" /\ req[r].pc \in Bumping /\ z.pc \in Bumping

LocksKept(r) ==
    /\ locks' \in [{"write", "liveness"} -> Slots \union {NULL}]
    /\ \A q \in Slots \ {r} : locks["write"] = q => locks'["write"] = q

(* A report reaches the row.                                                *)
LEMMA MessageFields ==
    ASSUME NEW m \in Messages
    PROVE  m.state \in AgentStates /\ (m.kind = "event" => m.paused = FALSE)
BY DEF Messages

(* The statements that update a row.                                        *)
LEMMA RowSteps ==
    ASSUME RegInv, NEW r \in Slots
    PROVE  \/ RevokeUpdate(r) \/ BumpUpdate(r)
           \/ HeartbeatUpdate(r) \/ set_agent_state(r) \/ apply_presence_event(r)
           => RegInv'
(* The newest presence of a row on the connection is a report.              *)
<1>RowIsFresh. ASSUME NEW a \in Agents, row(a) # NULL
               PROVE  Fresh(a, row(a))
  BY <1>RowIsFresh DEF RegInv, StoreInv, Newest, Fresh, row
<1>RowStep. ASSUME NEW y \in Rows, NEW z \in Requests, NEW a \in Agents,
                   RowUpdated(r, a, y, z), GoesWithRow(r, a, y, z), LocksKept(r)
            PROVE  RegInv'
  <2> USE <1>RowStep
  <2>a. Open(r) /\ req[r].agent = a /\ Updates(r, y, z) /\ Fresh(a, y)
    BY DEF RowUpdated
  <2>b. /\ y.transport = row(a).transport /\ y.token = row(a).token
        /\ row(a).revoked => y.revoked
    BY DEF RowUpdated
  <2>c. /\ locks' \in [{"write", "liveness"} -> Slots \union {NULL}]
        /\ \A q \in Slots \ {r} : locks["write"] = q => locks'["write"] = q
    BY DEF LocksKept
  <2>d. \/ y.revoked = row(a).revoked /\ ~Uncommitted(r)
        \/ locks'["write"] = r /\ z.op = "revoke" /\ z.pc = "revoke_commit"
    BY DEF RowUpdated
  <2>e. /\ z.op = req[r].op /\ z.agent = a /\ z.token = req[r].token
        /\ z.seq = req[r].seq /\ z.rest = req[r].rest /\ Control(z.op, z.pc)
    BY DEF GoesWithRow
  <2>f. \/ z.op \in {"heartbeat", "event", "sweep"} /\ z.pc \notin {"set_state", "next"}
        \/ z.op = "revoke" /\ z.pc = "revoke_commit" /\ y.revoked /\ locks'["write"] = r
        \/ z.op = "revoke" /\ req[r].pc \in Bumping /\ z.pc \in Bumping
    BY DEF GoesWithRow
  <2>1. /\ db' = [db EXCEPT !.agents[a] = y] /\ disk' = disk /\ sent' = sent /\ acked' = acked
        /\ req' = [req EXCEPT ![r] = z]
    BY <2>a DEF Updates, Writes, memory, history
  <2>2. /\ db' \in Databases /\ db'.tokens = db.tokens /\ db'.assigned = db.assigned
        /\ db'.agents[a] = y /\ \A b \in Agents \ {a} : db'.agents[b] = db.agents[b]
    <3>1. PICK d, e : d = db /\ e = db'
      OBVIOUS
    <3>2. e = [d EXCEPT !.agents[a] = y] /\ d \in Databases
      BY <2>1, <3>1 DEF RegInv, RegType
    <3>3. /\ e \in Databases /\ e.tokens = d.tokens /\ e.assigned = d.assigned
          /\ e.agents[a] = y /\ \A b \in Agents \ {a} : e.agents[b] = d.agents[b]
      BY <3>2 DEF Databases
    <3> QED BY <3>1, <3>3
  <2>3. req'[r] = z /\ \A q \in Slots \ {r} : req'[q] = req[q]
    BY <2>1 DEF RegInv, RegType
  <2>4. RegType'
    BY <2>1, <2>2, <2>c DEF RegInv, RegType
  <2>5. row(a) # NULL /\ y # NULL
    BY <2>a, OpenRequest, NoneIsNoValue, NoneIsNobody DEF Subject
  <2>6. KeptRows(db, db') /\ KeptRows(disk, db)'
    <3>1. KeptRows(db, db')
      BY <2>2, <2>5, <2>b DEF KeptRows, row
    <3> QED BY <2>1, <3>1 DEF KeptRows, RegInv
  <2>7. Kept(r)
    <3>1. \A b \in Agents : Gone(db, b) => Gone(db', b)
      BY <2>2, <2>6 DEF Gone, KeptRows
    <3>2. \A b \in Agents : /\ row(b) = NULL => db'.agents[b] = NULL
                            /\ row(b) # NULL => db'.agents[b].token = row(b).token
      BY <2>2, <2>5, <2>b DEF row
    <3> QED BY <2>1, <2>2, <2>3, <2>6, <2>c, <3>1, <3>2 DEF Kept, KeptRows
  <2>8. StoreInv(disk, sent, acked)'
    BY <2>1 DEF RegInv
  <2>9. StoreInv(db, sent, acked)'
    <3>1. TokensSpent(db)'
      <4>1. \A c \in Agents : db'.agents[c] # NULL =>
                db.agents[c] # NULL /\ db'.agents[c].token = db.agents[c].token
        BY <2>2, <2>5, <2>b DEF row
      <4>2. TokensSpent(db)
        BY DEF RegInv, StoreInv
      <4> QED BY <2>2, <4>1, <4>2, TokensStaySpent
    <3>2. Newest(db, sent)'
      <4>1. Newest(db, sent)
        BY DEF RegInv, StoreInv
      <4> QED BY <2>1, <2>2, <2>a, <4>1, SMT DEF Newest, Fresh
    <3>3. Answered(db, acked)'
      BY <2>1, <2>2, <2>6, SMT DEF RegInv, StoreInv, Answered, Gone, KeptRows
    <3> QED BY <3>1, <3>2, <3>3 DEF StoreInv
  <2>10. RequestInv(r)'
    <3>0. PICK x : x = req[r] /\ Subject(x) /\ Revoked(x) /\ x.rest \subseteq Agents
      BY <2>a, OpenRequest
    <3>1. Subject(z)'
      BY <2>1, <2>6, <2>a, <2>e, <2>f, <3>0, NoneIsNobody, SMT DEF Subject, KeptRows, row
    <3>2. CASE z.op \in {"heartbeat", "event", "sweep"}
      BY <2>3, <2>e, <3>1, <3>2, FreeRequest, SMT DEF Free
    <3>3. CASE z.op = "revoke"
      <4>1. Revoked(z)'
        BY <2>1, <2>2, <2>5, <2>6, <2>a, <2>e, <2>f, <3>0, <3>3, SMT DEF Revoked, KeptRows, row, Bumping
      <4> QED BY <2>3, <2>e, <2>f, <3>1, <3>3, <4>1 DEF RequestInv, Writing, TokenHeld, Bumping
    <3> QED BY <2>f, <3>2, <3>3
  <2>11. Committed'
    <3>1. CASE locks'["write"] = r /\ z.op = "revoke" /\ z.pc = "revoke_commit"
      <4>1. Uncommitted(r)'
        BY <2>3, <3>1, NoneIsNoValue DEF Uncommitted, Open
      <4> QED BY <4>1 DEF Committed
    <3>2. CASE y.revoked = row(a).revoked /\ ~Uncommitted(r)
      <4>1. ASSUME NEW q \in Slots, Uncommitted(q) PROVE Uncommitted(q)'
        <5>1. q # r
          BY <3>2, <4>1
        <5>2. req'[q] = req[q] /\ locks'["write"] = q
          BY <2>3, <2>c, <4>1, <5>1 DEF Uncommitted
        <5> QED BY <4>1, <5>2 DEF Uncommitted, Open
      <4>2. ASSUME \A b \in Agents : Agree(b) PROVE \A b \in Agents : Agree(b)'
        BY <2>1, <2>2, <2>5, <2>b, <3>2, <4>2, SMT DEF Agree, row
      <4> QED BY <4>1, <4>2 DEF Committed, RegInv
    <3> QED BY <2>d, <3>1, <3>2
  <2> QED BY <2>4, <2>6, <2>7, <2>8, <2>9, <2>10, <2>11, StepKeeps DEF StepInv
(* The revocation and the fence.                                            *)
<1>RevokeStep. ASSUME RevokeUpdate(r)
               PROVE  RegInv'
  <2> USE <1>RevokeStep
  <2>1. Open(r) /\ req[r].op = "revoke" /\ req[r].pc = "revoke"
    BY DEF RevokeUpdate, At, Open
  <2>2. PICK a \in Agents : a = req[r].agent /\ row(a) \in Rows /\ row(a) # NULL
    BY <2>1, OpenRequest, StoredRow DEF Subject
  <2>3. PICK x, y : x = row(a) /\ y = [x EXCEPT !.revoked = TRUE]
    OBVIOUS
  <2>4. /\ y \in Rows /\ y.revoked /\ y.transport = x.transport /\ y.token = x.token
        /\ y.sequence = x.sequence
    BY <2>2, <2>3, RevokedRow, SMT
  <2>5. PICK z \in Requests : /\ z = Goto(r, "revoke_commit") /\ z.pc = "revoke_commit"
                              /\ z.op = req[r].op /\ z.agent = a /\ z.token = req[r].token
                              /\ z.seq = req[r].seq /\ z.rest = req[r].rest
    <3>1. "revoke_commit" \in Points
      BY DEF Points
    <3> QED BY <2>1, <2>2, <3>1, GotoFields, SMT
  <2>6. Updates(r, y, z)
    BY <2>2, <2>3, <2>5 DEF RevokeUpdate
  <2>7. locks["write"] = NULL /\ locks' = [locks EXCEPT !["write"] = r]
    BY DEF RevokeUpdate, Acquire
  <2>8. LocksKept(r) /\ locks'["write"] = r
    BY <2>7, LocksKeepType, NoneIsNobody DEF RegInv, LocksKept
  <2>9. Fresh(a, y)
    BY <2>2, <2>3, <2>4, <1>RowIsFresh, SMT DEF Fresh
  <2>10. Control(z.op, z.pc) /\ z.op = "revoke"
    BY <2>1, <2>5 DEF Control
  <2>11. y.transport = row(a).transport /\ y.token = row(a).token /\ req[r].agent = a
    BY <2>2, <2>3, <2>4
  <2>12. RowUpdated(r, a, y, z)
    BY <2>1, <2>4, <2>5, <2>6, <2>8, <2>9, <2>10, <2>11 DEF RowUpdated
  <2>13. GoesWithRow(r, a, y, z)
    BY <2>4, <2>5, <2>8, <2>10 DEF GoesWithRow
  <2> QED BY <2>4, <2>8, <2>12, <2>13, <1>RowStep
<1>BumpStep. ASSUME BumpUpdate(r)
             PROVE  RegInv'
  <2> USE <1>BumpStep
  <2>1. /\ Open(r) /\ req[r].pc = "bump" /\ req[r].op \in {"revoke", "heartbeat", "sweep"}
        /\ req[r].agent # NULL
    BY OpenRequest DEF BumpUpdate, AtAny, Open, Control, Subject, Bumping
  <2>2. PICK a \in Agents : a = req[r].agent /\ row(a) \in Rows /\ row(a) # NULL
    BY <2>1, OpenRequest, StoredRow DEF Subject
  <2>3. PICK x, y : x = row(a) /\ y = [x EXCEPT !.generation = @ + 1]
    OBVIOUS
  <2>4. /\ y \in Rows /\ y.revoked = x.revoked /\ y.transport = x.transport /\ y.token = x.token
        /\ y.sequence = x.sequence /\ y.state = x.state /\ y.paused = x.paused
    BY <2>2, <2>3, BumpedRow, SMT DEF BumpUpdate
  <2>5. PICK z \in Requests : /\ z = Goto(r, "bump_commit") /\ z.pc = "bump_commit"
                              /\ z.op = req[r].op /\ z.agent = a /\ z.token = req[r].token
                              /\ z.seq = req[r].seq /\ z.rest = req[r].rest
    BY <2>1, <2>2, GotoFields, SMT DEF Points
  <2>6. Updates(r, y, z) /\ locks' = locks
    BY <2>2, <2>3, <2>5 DEF BumpUpdate
  <2>7. Fresh(a, y)
    BY <2>2, <2>3, <2>4, <1>RowIsFresh, SMT DEF Fresh
  <2>8. Control(z.op, z.pc) /\ ~Uncommitted(r) /\ req[r].pc \in Bumping /\ z.pc \in Bumping
    BY <2>1, <2>5 DEF Control, Uncommitted, Bumping
  <2>9. LocksKept(r)
    BY <2>6 DEF LocksKept, RegInv, RegType
  <2>10. RowUpdated(r, a, y, z)
    BY <2>1, <2>2, <2>3, <2>4, <2>6, <2>7, <2>8 DEF RowUpdated
  <2>11. GoesWithRow(r, a, y, z)
    BY <2>1, <2>5, <2>8 DEF GoesWithRow
  <2> QED BY <2>4, <2>9, <2>10, <2>11, <1>RowStep
<1>ReportSteps. ASSUME HeartbeatUpdate(r) \/ set_agent_state(r) \/ apply_presence_event(r)
                PROVE  RegInv'
  <2> USE <1>ReportSteps
  <2>1. /\ Open(r) /\ req[r].op \in {"heartbeat", "event"} /\ ~Uncommitted(r)
        /\ locks' = [locks EXCEPT !["liveness"] = r]
    BY DEF HeartbeatUpdate, set_agent_state, apply_presence_event, At, Open, Acquire, Uncommitted
  <2>2. PICK a \in Agents, s \in SeqNumbers, m \in Messages :
           /\ a = req[r].agent /\ s = req[r].seq /\ m = sent[a][s] /\ m.kind = req[r].op
           /\ row(a) \in Rows /\ row(a) # NULL /\ m # NULL
    <3>1. /\ Subject(req[r]) /\ req[r].agent \in Agents /\ req[r].seq \in SeqNumbers
      BY <2>1, OpenRequest DEF Subject
    <3>2. sent[req[r].agent][req[r].seq] \in Messages
      BY <2>1, <3>1, SMT DEF Subject, RegInv, RegType
    <3>3. row(req[r].agent) \in Rows
      BY <3>1, StoredRow, NoneIsNobody DEF Subject
    <3> QED BY <2>1, <3>1, <3>2, <3>3, NoneIsNoValue DEF Subject
  <2>3. LocksKept(r)
    BY <2>1, LocksKeepType DEF RegInv, LocksKept
  <2>4. PICK x : x = row(a)
    OBVIOUS
  <2>5. m.state \in AgentStates /\ (m.kind = "event" => m.paused = FALSE)
    BY MessageFields
  <2>6. x.sequence \in Int /\ s \in Int /\ s >= 0
    BY <2>2, <2>4, RegistryAssumption, SMT DEF Rows, SeqNumbers
  <2>r. req[r].agent = a
    BY <2>2
  <2>7. CASE HeartbeatUpdate(r)
    <3>1. PICK y : y = record_heartbeat(x, s, m)
      OBVIOUS
    <3>2. /\ y \in Rows /\ y.revoked = x.revoked /\ y.transport = x.transport /\ y.token = x.token
          /\ y.sequence = IF s > x.sequence THEN s ELSE x.sequence
          /\ x.transport = "direct" \/ s >= x.sequence => y.state = m.state /\ y.paused = m.paused
          /\ ~(x.transport = "direct" \/ s >= x.sequence) => y.state = x.state /\ y.paused = x.paused
      <4>1. x \in Rows
        BY <2>2, <2>4
      <4> QED BY <3>1, <4>1, HeartbeatRow, SMT
    <3>3. PICK z \in Requests : /\ z = Goto(r, "commit") /\ z.pc = "commit"
                                /\ z.op = req[r].op /\ z.agent = a /\ z.token = req[r].token
                                /\ z.seq = req[r].seq /\ z.rest = req[r].rest
      BY <2>1, <2>r, GotoFields, SMT DEF Points
    <3>4. Updates(r, y, z) /\ req[r].op = "heartbeat"
      BY <2>2, <2>4, <2>7, <3>1, <3>3 DEF HeartbeatUpdate, At
    <3>5. Fresh(a, y)
      <4>1. Fresh(a, x)
        BY <2>2, <2>4, <1>RowIsFresh
      <4>2. CASE s >= x.sequence
        <5>1. y.sequence = s
          BY <2>6, <3>2, <4>2, SMT
        <5> QED BY <2>2, <3>2, <4>2, <5>1 DEF Fresh
      <4>3. CASE s < x.sequence
        <5>1. y.sequence = x.sequence /\ ~(s >= x.sequence) /\ "direct" # "site_relay"
          BY <2>6, <3>2, <4>3, SMT
        <5> QED BY <3>2, <4>1, <5>1 DEF Fresh
      <4> QED BY <2>6, <4>2, <4>3, SMT
    <3>6. Control(z.op, z.pc)
      BY <3>3, <3>4 DEF Control
    <3>7. RowUpdated(r, a, y, z)
      BY <2>1, <2>2, <2>4, <3>2, <3>4, <3>5 DEF RowUpdated
    <3>8. GoesWithRow(r, a, y, z)
      BY <3>3, <3>4, <3>6 DEF GoesWithRow
    <3> QED BY <2>3, <3>2, <3>7, <3>8, <1>RowStep
  <2>8. CASE set_agent_state(r)
    <3>1. PICK y : y = [x EXCEPT !.state = m.state]
      OBVIOUS
    <3>2. /\ y \in Rows /\ y.revoked = x.revoked /\ y.transport = x.transport /\ y.token = x.token
          /\ y.sequence = x.sequence
      <4>1. x \in Rows /\ m.state \in AgentStates
        BY <2>2, <2>4, <2>5
      <4> QED BY <3>1, <4>1, StateRow, SMT
    <3>3. PICK z \in Requests : /\ z = Goto(r, "commit") /\ z.pc = "commit"
                                /\ z.op = req[r].op /\ z.agent = a /\ z.token = req[r].token
                                /\ z.seq = req[r].seq /\ z.rest = req[r].rest
      BY <2>1, <2>r, GotoFields, SMT DEF Points
    <3>4. Updates(r, y, z) /\ req[r].op = "event" /\ req[r].pc = "set_state"
      BY <2>2, <2>4, <2>8, <3>1, <3>3 DEF set_agent_state, At
    <3>5. Fresh(a, y)
      <4>1. x.revoked \/ x.transport = "direct"
        BY <2>1, <2>2, <2>4, <3>4, OpenRequest DEF Subject
      <4>2. Fresh(a, x)
        BY <2>2, <2>4, <1>RowIsFresh
      <4> QED BY <3>2, <4>1, <4>2 DEF Fresh
    <3>6. Control(z.op, z.pc)
      BY <3>3, <3>4 DEF Control
    <3>7. RowUpdated(r, a, y, z)
      BY <2>1, <2>2, <2>4, <3>2, <3>4, <3>5 DEF RowUpdated
    <3>8. GoesWithRow(r, a, y, z)
      BY <3>3, <3>4, <3>6 DEF GoesWithRow
    <3> QED BY <2>3, <3>2, <3>7, <3>8, <1>RowStep
  <2>9. CASE apply_presence_event(r)
    <3>1. PICK newer \in BOOLEAN : newer = (x.sequence < s)
      <4>1. (x.sequence < s) \in BOOLEAN
        BY <2>6, SMT
      <4> QED BY <4>1
    <3>2. PICK y : y = IF newer THEN PresenceRow(x, s, m.state) ELSE x
      OBVIOUS
    <3>3. /\ y \in Rows /\ y.revoked = x.revoked /\ y.transport = x.transport /\ y.token = x.token
          /\ newer => y.sequence = s /\ y.state = m.state /\ y.paused = FALSE
          /\ ~newer => y = x
      <4>1. newer => x.generation < MaxGeneration
        BY <2>2, <2>4, <2>9, <3>1 DEF apply_presence_event
      <4>2. x \in Rows
        BY <2>2, <2>4
      <4> QED BY <2>5, <3>2, <4>1, <4>2, PresenceRowFields
    <3>4. PICK w \in Requests : /\ w = Goto(r, "bump_commit") /\ w.pc = "bump_commit"
                                /\ w.op = req[r].op /\ w.agent = a /\ w.token = req[r].token
                                /\ w.seq = req[r].seq /\ w.rest = req[r].rest
      BY <2>1, <2>r, GotoFields, SMT DEF Points
    <3>5. PICK z : z = [w EXCEPT !.flag = newer]
      OBVIOUS
    <3>6. z \in Requests
      BY <3>5 DEF Requests
    <3>7. /\ z.pc = "bump_commit" /\ z.op = req[r].op /\ z.agent = a /\ z.token = req[r].token
          /\ z.seq = req[r].seq /\ z.rest = req[r].rest
      BY <3>4, <3>5 DEF Requests
    <3>8. Updates(r, y, z) /\ req[r].op = "event"
      BY <2>2, <2>4, <2>9, <3>1, <3>2, <3>4, <3>5 DEF apply_presence_event, At
    <3>9. Fresh(a, y)
      <4>1. Fresh(a, x)
        BY <2>2, <2>4, <1>RowIsFresh
      <4> QED BY <2>2, <2>5, <3>3, <3>8, <4>1 DEF Fresh
    <3>10. Control(z.op, z.pc)
      BY <3>7, <3>8 DEF Control
    <3>11. RowUpdated(r, a, y, z)
      BY <2>1, <2>2, <2>4, <3>3, <3>8, <3>9 DEF RowUpdated
    <3>12. GoesWithRow(r, a, y, z)
      BY <3>7, <3>8, <3>10 DEF GoesWithRow
    <3> QED BY <2>3, <3>3, <3>6, <3>11, <3>12, <1>RowStep
  <2> QED BY <2>7, <2>8, <2>9
<1> QED BY <1>RevokeStep, <1>BumpStep, <1>ReportSteps

-----------------------------------------------------------------------------
(* The statements that write tokens and assignments.                        *)
LEMMA TableSteps ==
    ASSUME RegInv, NEW r \in Slots
    PROVE  \/ \E t \in Tokens : \/ create_enrollment_token(r, t) \/ revoke_enrollment_token(r, t)
                                \/ register_agent(r, t)
           \/ (\E a \in Agents : set_assignments(r, a)) \/ AssignInsert(r) \/ UnassignDelete(r)
           => RegInv'
(* Statements on tokens and assignments.                                    *)
<1>TableStep. ASSUME NEW z \in Requests, NEW e \in Databases,
                     Writes(r, e, z), e.agents = db.agents,
                     \A t \in Tokens : db.tokens[t] \in {"used", "revoked"} => e.tokens[t] = db.tokens[t],
                     \A a \in Agents : Gone(db, a) => ~e.assigned[a],
                     e.assigned = db.assigned \/ locks["write"] \in {NULL, r},
                     locks' \in [{"write", "liveness"} -> Slots \union {NULL}],
                     \A q \in Slots \ {r} : locks["write"] = q => locks'["write"] = q,
                     ~Uncommitted(r), RequestInv(r)'
              PROVE  RegInv'
  <2> USE <1>TableStep
  <2>1. /\ db' = e /\ disk' = disk /\ sent' = sent /\ acked' = acked /\ req' = [req EXCEPT ![r] = z]
    BY DEF Writes, memory, history
  <2>2. \A q \in Slots \ {r} : req'[q] = req[q]
    BY <2>1 DEF RegInv, RegType
  <2>3. RegType'
    BY <2>1 DEF RegInv, RegType
  <2>4. KeptRows(db, db') /\ KeptRows(disk, db)'
    BY <2>1 DEF KeptRows, RegInv
  <2>5. StoreInv(disk, sent, acked)'
    BY <2>1 DEF RegInv
  <2>6. StoreInv(db, sent, acked)'
    <3>1. \A a \in Agents : row(a) # NULL /\ row(a).token # NULL => row(a).token \in Tokens
      BY StoredRow DEF Rows
    <3>2. TokensSpent(db) /\ Newest(db, sent) /\ Answered(db, acked)
      BY DEF RegInv, StoreInv
    <3>3. TokensSpent(e)
      <4>1. \A c \in Agents : db.agents[c] # NULL /\ db.agents[c].token # NULL =>
                e.tokens[db.agents[c].token] = db.tokens[db.agents[c].token]
        BY <3>1, <3>2 DEF TokensSpent, row
      <4> QED BY <3>2, <4>1, TokensStaySpent
    <3>4. Newest(db, sent)'
      BY <2>1, <3>2 DEF Newest
    <3>5. Answered(db, acked)'
      BY <2>1, <3>2 DEF Answered, Gone
    <3> QED BY <2>1, <3>3, <3>4, <3>5 DEF StoreInv
  <2>7. Kept(r)
    <3>1. \A q \in Slots \ {r} : locks["write"] = q => e.assigned = db.assigned
      BY NoneIsNobody
    <3>2. \A a \in Agents : Gone(db, a) => Gone(db', a)
      BY <2>1 DEF Gone
    <3> QED BY <2>1, <2>2, <2>4, <3>1, <3>2 DEF Kept, KeptRows, row
  <2>8. Committed'
    <3>1. ASSUME NEW q \in Slots, Uncommitted(q) PROVE Uncommitted(q)'
      BY <2>2, <3>1 DEF Uncommitted, Open
    <3> QED BY <2>1, <3>1 DEF RegInv, Committed, Agree, row
  <2> QED BY <2>3, <2>4, <2>5, <2>6, <2>7, <2>8, StepKeeps DEF StepInv
<1>WithToken. ASSUME NEW x \in Requests, NEW t \in Tokens, NEW y, y = [x EXCEPT !.token = t]
              PROVE  /\ y \in Requests /\ y.op = x.op /\ y.pc = x.pc /\ y.token = t
                     /\ y.agent = x.agent /\ y.rest = x.rest
  <2> USE <1>WithToken
  <2>1. y \in Requests
    BY DEF Requests
  <2> QED BY <2>1 DEF Requests
(* The requests that write a token first.                                   *)
<1>TokenStep. ASSUME NEW t \in Tokens, NEW op \in Operations, NEW p \in Points,
                     NEW v \in {"absent", "unused", "used", "revoked"}, req[r] = NULL,
                     Writes(r, [db EXCEPT !.tokens[t] = v], [Request(op, p) EXCEPT !.token = t]),
                     v = db.tokens[t] \/ db.tokens[t] \in {"absent", "unused"},
                     \/ op = "create" /\ p = "commit" /\ locks' = locks
                     \/ op = "void" /\ p = "commit" /\ Acquire("write", r) /\ v = "revoked"
                     \/ op = "register" /\ p = "rollback" /\ Acquire("write", r)
                     \/ op = "register" /\ p = "insert" /\ Acquire("write", r) /\ v = "used"
                        /\ db.tokens[t] = "unused"
              PROVE  RegInv'
  <2> USE <1>TokenStep
  <2>x. PICK x \in Requests : /\ x = Request(op, p) /\ x.op = op /\ x.pc = p /\ x.agent = NULL
                              /\ x.rest = {}
    BY NewRequest
  <2>z. PICK z : z = [x EXCEPT !.token = t]
    OBVIOUS
  <2>1. /\ z \in Requests /\ z.op = op /\ z.pc = p /\ z.token = t /\ z.agent = NULL /\ z.rest = {}
    BY <2>x, <2>z, <1>WithToken, SMT
  <2>e. PICK e : e = [db EXCEPT !.tokens[t] = v]
    OBVIOUS
  <2>2. /\ e \in Databases /\ e.agents = db.agents /\ e.assigned = db.assigned /\ e.tokens[t] = v
        /\ \A u \in Tokens \ {t} : e.tokens[u] = db.tokens[u]
    BY <2>e DEF RegInv, RegType, Databases
  <2>3. /\ db' = e /\ sent' = sent /\ req'[r] = z
    BY <2>1, <2>e, <2>x, <2>z DEF Writes, memory, RegInv, RegType
  <2>4. /\ locks' \in [{"write", "liveness"} -> Slots \union {NULL}]
        /\ \A q \in Slots \ {r} : locks["write"] = q => locks'["write"] = q
        /\ op # "create" => locks'["write"] = r
    BY LocksKeepType, NoneIsNobody, SMT DEF Acquire, RegInv, RegType
  <2>5. RequestInv(r)'
    <3>1. Control(op, p) /\ Subject(z)'
      BY <2>1, <2>3, NoneIsNobody DEF Control, Subject
    <3>2. TokenHeld(z)'
      <4>1. TokensSpent(db)
        BY DEF RegInv, StoreInv
      <4>2. db.tokens[t] = "unused" => \A a \in Agents : row(a) # NULL => row(a).token # t
        BY <4>1, NoneIsNobody DEF TokensSpent, row
      <4> QED BY <2>1, <2>2, <2>3, <4>2 DEF TokenHeld, row
    <3> QED BY <2>1, <2>3, <2>4, <3>1, <3>2 DEF RequestInv, Writing, Revoked
  <2>6. ~Uncommitted(r)
    BY DEF Uncommitted, Open
  <2>7. Writes(r, e, z)
    BY <2>e, <2>x, <2>z
  <2>8. \A a \in Agents : Gone(db, a) => ~e.assigned[a]
    BY <2>2 DEF Gone
  <2>9. \A u \in Tokens : db.tokens[u] \in {"used", "revoked"} => e.tokens[u] = db.tokens[u]
    BY <2>2
  <2> QED BY <2>1, <2>2, <2>4, <2>5, <2>6, <2>7, <2>8, <2>9, <1>TableStep
<1>TokenSteps. ASSUME NEW t \in Tokens,
                      create_enrollment_token(r, t) \/ revoke_enrollment_token(r, t) \/ register_agent(r, t)
               PROVE  RegInv'
  <2> USE <1>TokenSteps
  <2>1. db.tokens[t] \in {"absent", "unused", "used", "revoked"}
    BY DEF RegInv, RegType, Databases
  <2>2. /\ {"create", "void", "register"} \subseteq Operations
        /\ {"commit", "insert", "rollback"} \subseteq Points
    BY DEF Operations, Points
  <2>3. CASE create_enrollment_token(r, t)
    BY <2>2, <2>3, <1>TokenStep DEF create_enrollment_token
  <2>4. CASE revoke_enrollment_token(r, t)
    BY <2>2, <2>4, <1>TokenStep DEF revoke_enrollment_token
  <2>5. CASE register_agent(r, t)
    <3>1. CASE SpendsToken(t)
      BY <2>2, <2>5, <3>1, <1>TokenStep DEF register_agent, SpendsToken
    <3>2. CASE ~SpendsToken(t)
      <4>1. db = [db EXCEPT !.tokens[t] = db.tokens[t]]
        BY DEF RegInv, RegType, Databases
      <4>2. Writes(r, [db EXCEPT !.tokens[t] = db.tokens[t]],
                   [Request("register", "rollback") EXCEPT !.token = t])
        BY <2>5, <3>2, <4>1 DEF register_agent
      <4>3. req[r] = NULL /\ Acquire("write", r)
        BY <2>5 DEF register_agent
      <4> QED BY <2>1, <2>2, <4>2, <4>3, <1>TokenStep
    <3> QED BY <3>1, <3>2
  <2> QED BY <2>3, <2>4, <2>5
(* The statements of set_assignments, with models and without.              *)
<1>AssignStep. ASSUME NEW a \in Agents, NEW v \in BOOLEAN, NEW z \in Requests,
                      Writes(r, [db EXCEPT !.assigned[a] = v], z), Gone(db, a) => ~v,
                      \/ Acquire("write", r) /\ (req[r] = NULL \/ req[r].pc = "unassign")
                      \/ locks["write"] = r /\ locks' = locks /\ req[r].op = "assign",
                      Control(z.op, z.pc), Writing(z), z.op \in {"assign", "revoke"}, z.agent = a,
                      row(a) # NULL, \A b \in z.rest : b \in Agents /\ row(b) # NULL,
                      z.op = "revoke" => /\ z.pc = "unassign_commit" /\ ~v /\ row(a).revoked
                                         /\ disk.agents[a] # NULL /\ disk.agents[a].revoked
               PROVE  RegInv'
  <2> USE <1>AssignStep
  <2>e. PICK e : e = [db EXCEPT !.assigned[a] = v]
    OBVIOUS
  <2>1. /\ e \in Databases /\ e.agents = db.agents /\ e.tokens = db.tokens /\ e.assigned[a] = v
        /\ \A b \in Agents \ {a} : e.assigned[b] = db.assigned[b]
    BY <2>e DEF RegInv, RegType, Databases
  <2>2. Writes(r, e, z) /\ db' = e /\ disk' = disk /\ sent' = sent /\ req'[r] = z
    BY <2>e DEF Writes, memory, RegInv, RegType
  <2>3. /\ locks' \in [{"write", "liveness"} -> Slots \union {NULL}]
        /\ \A q \in Slots \ {r} : locks["write"] = q => locks'["write"] = q
        /\ locks'["write"] = r /\ locks["write"] \in {NULL, r}
    BY LocksKeepType, NoneIsNobody, SMT DEF Acquire, RegInv, RegType
  <2>4. ~Uncommitted(r)
    BY DEF Uncommitted, Open
  <2>5. RequestInv(r)'
    <3>1. Subject(z)'
      BY <2>1, <2>2, NoneIsNobody DEF Subject, row
    <3>2. Revoked(z)' /\ TokenHeld(z)'
      BY <2>1, <2>2 DEF Revoked, TokenHeld, row, Bumping
    <3> QED BY <2>2, <2>3, <3>1, <3>2 DEF RequestInv
  <2>6. \A b \in Agents : Gone(db, b) => ~e.assigned[b]
    BY <2>1 DEF Gone
  <2>7. \A t \in Tokens : db.tokens[t] \in {"used", "revoked"} => e.tokens[t] = db.tokens[t]
    BY <2>1
  <2> QED BY <2>1, <2>2, <2>3, <2>4, <2>5, <2>6, <2>7, <1>TableStep
<1>AssignSteps. ASSUME (\E a \in Agents : set_assignments(r, a)) \/ AssignInsert(r) \/ UnassignDelete(r)
                PROVE  RegInv'
  <2> USE <1>AssignSteps
  <2>1. ASSUME NEW a \in Agents, set_assignments(r, a) PROVE RegInv'
    <3>1. PICK z \in Requests : /\ z = For("assign", "insert", a) /\ z.op = "assign"
                                /\ z.pc = "insert" /\ z.agent = a /\ z.rest = {}
      <4>1. "assign" \in Operations /\ "insert" \in Points
        BY DEF Operations, Points
      <4> QED BY <4>1, ForFields, SMT
    <3>2. /\ req[r] = NULL /\ Acquire("write", r) /\ row(a) # NULL
          /\ Writes(r, [db EXCEPT !.assigned[a] = FALSE], z)
      BY <2>1, <3>1 DEF set_assignments
    <3>3. Control(z.op, z.pc) /\ Writing(z)
      BY <3>1 DEF Control, Writing
    <3> QED BY <3>1, <3>2, <3>3, <1>AssignStep
  <2>2. ASSUME AssignInsert(r) PROVE RegInv'
    <3>1. Open(r) /\ req[r].op = "assign"
      BY <2>2 DEF AssignInsert, At, Open
    <3>2. PICK a \in Agents : a = req[r].agent /\ row(a) # NULL
      BY <3>1, OpenRequest DEF Subject
    <3>3. PICK v \in BOOLEAN : v = InsertsAssignment(a)
      BY DEF InsertsAssignment
    <3>4. PICK z \in Requests : /\ z = Goto(r, "commit") /\ z.pc = "commit" /\ z.op = req[r].op
                                /\ z.agent = req[r].agent /\ z.rest = req[r].rest
      BY <3>1, GotoFields, SMT DEF Points
    <3>5. Writes(r, [db EXCEPT !.assigned[a] = v], z) /\ locks' = locks
      BY <2>2, <3>2, <3>3, <3>4 DEF AssignInsert
    <3>6. Gone(db, a) => ~v
      BY <3>3 DEF Gone, InsertsAssignment, row
    <3>7. Control(z.op, z.pc) /\ Writing(z) /\ locks["write"] = r
      BY <3>1, <3>4, OpenRequest DEF Control, Writing
    <3>8. \A b \in z.rest : b \in Agents /\ row(b) # NULL
      BY <3>1, <3>4, OpenRequest DEF Subject
    <3> QED BY <3>1, <3>2, <3>4, <3>5, <3>6, <3>7, <3>8, <1>AssignStep
  <2>3. ASSUME UnassignDelete(r) PROVE RegInv'
    <3>1. Open(r) /\ req[r].op = "revoke" /\ req[r].pc = "unassign"
      BY <2>3 DEF UnassignDelete, At, Open
    <3>2. PICK a \in Agents : /\ a = req[r].agent /\ row(a) # NULL /\ row(a).revoked
                              /\ disk.agents[a] # NULL /\ disk.agents[a].revoked
      BY <3>1, OpenRequest DEF Subject, Revoked
    <3>3. PICK z \in Requests : /\ z = Goto(r, "unassign_commit") /\ z.pc = "unassign_commit"
                                /\ z.op = req[r].op /\ z.agent = req[r].agent
                                /\ z.rest = req[r].rest
      BY <3>1, GotoFields, SMT DEF Points
    <3>4. Writes(r, [db EXCEPT !.assigned[a] = FALSE], z) /\ Acquire("write", r)
      BY <2>3, <3>2, <3>3 DEF UnassignDelete
    <3>5. Control(z.op, z.pc) /\ Writing(z)
      BY <3>1, <3>3 DEF Control, Writing
    <3>6. \A b \in z.rest : b \in Agents /\ row(b) # NULL
      BY <3>1, <3>3, OpenRequest DEF Subject
    <3> QED BY <3>1, <3>2, <3>3, <3>4, <3>5, <3>6, <1>AssignStep
  <2> QED BY <2>1, <2>2, <2>3
<1> QED BY <1>TokenSteps, <1>AssignSteps

-----------------------------------------------------------------------------
(* The insert of a registration, and its rollback.                          *)
LEMMA EnrolSteps ==
    ASSUME RegInv, NEW r \in Slots
    PROVE  (\E a \in Agents : RegisterInsert(r, a)) \/ RegisterInsertFails(r) \/ RegisterRollback(r)
           => RegInv'
(* The registration.                                                        *)
<1>InsertFails. ASSUME RegisterInsertFails(r)
                PROVE  RegInv'
  <2> USE <1>InsertFails
  <2>1. Open(r) /\ req[r].op = "register" /\ req[r].pc = "insert"
    BY DEF RegisterInsertFails, At, Open
  <2>2. PICK z \in Requests : /\ z = Goto(r, "rollback") /\ z.pc = "rollback" /\ z.op = req[r].op
                              /\ z.agent = req[r].agent /\ z.token = req[r].token
                              /\ z.rest = req[r].rest
    BY <2>1, GotoFields, SMT DEF Points
  <2>3. /\ req' = [req EXCEPT ![r] = z] /\ req'[r] = z
        /\ UNCHANGED <<store, locks, sent, acked>>
    BY <2>2 DEF RegisterInsertFails, Reads, memory, history, RegInv, RegType
  <2>4. Quiet(r) /\ ~Uncommitted(r)
    BY <2>1, <2>3 DEF Quiet, RegInv, RegType, Uncommitted
  <2>5. RequestInv(r)'
    <3>1. PICK x : x = req[r] /\ Subject(x) /\ (Writing(x) => locks["write"] = r)
      BY <2>1, OpenRequest
    <3>2. Subject(z)' /\ Control(z.op, z.pc) /\ locks'["write"] = r
      BY <2>1, <2>2, <2>3, <3>1 DEF Subject, Control, Writing, row, store
    <3> QED BY <2>1, <2>2, <2>3, <3>2 DEF RequestInv, TokenHeld, Revoked
  <2> QED BY <2>3, <2>4, <2>5, QuietStep DEF RegInv, StoreInv
<1>InsertRow. ASSUME NEW a \in Agents, RegisterInsert(r, a)
              PROVE  RegInv'
  <2> USE <1>InsertRow
  <2>1. /\ Open(r) /\ req[r].op = "register" /\ req[r].pc = "insert" /\ row(a) = NULL
        /\ locks' = locks
    BY DEF RegisterInsert, At, Open
  <2>x. PICK x \in Requests : x = req[r] /\ Subject(x) /\ TokenHeld(x) /\ x.rest \subseteq Agents
    BY <2>1, OpenRequest
  <2>t. PICK t \in Tokens : t = x.token /\ t = req[r].token
    BY <2>1, <2>x, OpenRequest DEF Subject
  <2>y. PICK y \in Rows : /\ y = NewRow(t, transport_for_mode(t)) /\ y.sequence = -1 /\ y.token = t
    <3>1. transport_for_mode(t) \in {"direct", "site_relay"}
      BY DEF transport_for_mode
    <3> QED BY <3>1, FreshRow
  <2>z. PICK z \in Requests : /\ z = [Goto(r, "commit") EXCEPT !.agent = a]
                              /\ z.op = "register" /\ z.pc = "commit" /\ z.agent = a
                              /\ z.token = t /\ z.rest = x.rest
    <3>1. PICK w \in Requests : /\ w = Goto(r, "commit") /\ w.pc = "commit" /\ w.op = req[r].op
                                /\ w.token = req[r].token /\ w.rest = req[r].rest
      BY <2>1, GotoFields, SMT DEF Points
    <3>2. PICK z : z = [w EXCEPT !.agent = a]
      OBVIOUS
    <3>3. z \in Requests
      BY <3>2 DEF Requests
    <3>4. z.op = w.op /\ z.pc = w.pc /\ z.agent = a /\ z.token = w.token /\ z.rest = w.rest
      BY <3>2 DEF Requests
    <3> QED BY <2>1, <2>x, <2>t, <3>1, <3>2, <3>3, <3>4
  <2>2. /\ db' = [db EXCEPT !.agents[a] = y] /\ disk' = disk /\ sent' = sent /\ acked' = acked
        /\ req' = [req EXCEPT ![r] = z]
    BY <2>t, <2>y, <2>z DEF RegisterInsert, Writes, memory, history
  <2>3. /\ db' \in Databases /\ db'.tokens = db.tokens /\ db'.assigned = db.assigned
        /\ db'.agents[a] = y /\ \A b \in Agents \ {a} : db'.agents[b] = db.agents[b]
    <3>1. PICK d, e : d = db /\ e = db'
      OBVIOUS
    <3>2. e = [d EXCEPT !.agents[a] = y] /\ d \in Databases
      BY <2>2, <3>1 DEF RegInv, RegType
    <3>3. /\ e \in Databases /\ e.tokens = d.tokens /\ e.assigned = d.assigned
          /\ e.agents[a] = y /\ \A b \in Agents \ {a} : e.agents[b] = d.agents[b]
      BY <3>2 DEF Databases
    <3> QED BY <3>1, <3>3
  <2>4. req'[r] = z /\ \A q \in Slots \ {r} : req'[q] = req[q]
    BY <2>2 DEF RegInv, RegType
  <2>5. RegType'
    BY <2>1, <2>2, <2>3 DEF RegInv, RegType
  <2>6. y # NULL /\ z \notin {NULL, DONE} /\ t # NULL
    BY NoneIsNoValue, NoneIsNobody
  <2>7. KeptRows(db, db') /\ KeptRows(disk, db)'
    <3>1. KeptRows(db, db')
      BY <2>1, <2>3 DEF KeptRows, row
    <3> QED BY <2>2, <3>1 DEF KeptRows, RegInv
  <2>8. locks["write"] = r
    BY <2>1, OpenRequest DEF Writing
  <2>9. Kept(r)
    <3>1. \A b \in Agents : Gone(db, b) => Gone(db', b)
      BY <2>3, <2>7 DEF Gone, KeptRows
    <3> QED BY <2>2, <2>4, <2>7, <2>8, <3>1 DEF Kept, KeptRows
  <2>10. StoreInv(disk, sent, acked)'
    BY <2>2 DEF RegInv
  <2>11. StoreInv(db, sent, acked)'
    <3>0. TokensSpent(db) /\ Newest(db, sent) /\ Answered(db, acked)
      BY DEF RegInv, StoreInv
    <3>1. TokensSpent(db)'
      <4>1. db.tokens[t] = "used" /\ \A b \in Agents : row(b) # NULL => row(b).token # t
        BY <2>1, <2>x, <2>t DEF TokenHeld
      <4> QED BY <2>3, <2>y, <3>0, <4>1, SMT DEF TokensSpent, row
    <3>2. Newest(db, sent)'
      <4>1. ~(y.sequence >= 0)
        BY <2>y, SMT
      <4> QED BY <2>2, <2>3, <3>0, <4>1, SMT DEF Newest
    <3>3. Answered(db, acked)'
      BY <2>2, <2>3, <2>7, <3>0 DEF Answered, Gone, KeptRows
    <3> QED BY <3>1, <3>2, <3>3 DEF StoreInv
  <2>12. RequestInv(r)'
    <3>1. Subject(z)'
      BY <2>3, <2>6, <2>7, <2>x, <2>z DEF Subject, KeptRows, row
    <3>2. TokenHeld(z)' /\ Revoked(z)' /\ Control(z.op, z.pc) /\ locks'["write"] = r
      BY <2>1, <2>8, <2>z DEF TokenHeld, Revoked, Control
    <3> QED BY <2>4, <3>1, <3>2 DEF RequestInv
  <2>13. Committed'
    BY <2>1, <2>4, <2>6, <2>8, <2>z DEF Committed, Uncommitted, Open
  <2> QED BY <2>5, <2>7, <2>9, <2>10, <2>11, <2>12, <2>13, StepKeeps DEF StepInv
(* The rollback finds no enrollment and no revocation to drop.              *)
<1>NothingUncommitted. ASSUME At(r, "register", "rollback")
                       PROVE  locks["write"] = r /\ \A a \in Agents : Agree(a)
  <2> USE <1>NothingUncommitted
  <2>1. locks["write"] = r
    BY OpenRequest DEF Writing, At, Open
  <2> QED BY <2>1 DEF RegInv, Committed, Uncommitted, At
<1>RollbackStep. ASSUME RegisterRollback(r)
                 PROVE  RegInv'
  <2> USE <1>RollbackStep
  <2>1. locks["write"] = r /\ \A a \in Agents : Agree(a)
    BY <1>NothingUncommitted DEF RegisterRollback
  <2>2. /\ db' = disk /\ disk' = disk /\ sent' = sent /\ acked' = acked
        /\ req' = [req EXCEPT ![r] = DONE] /\ locks' = [locks EXCEPT !["write"] = NULL]
    BY DEF RegisterRollback, Release, memory
  <2>3. req'[r] = DONE /\ \A q \in Slots \ {r} : req'[q] = req[q]
    BY <2>2 DEF RegInv, RegType
  <2>4. RegType'
    <3>1. locks' \in [{"write", "liveness"} -> Slots \union {NULL}]
      BY <2>2 DEF RegInv, RegType
    <3>2. req' \in [Slots -> Requests \union {NULL, DONE}]
      BY <2>2 DEF RegInv, RegType
    <3> QED BY <2>2, <3>1, <3>2 DEF RegInv, RegType
  <2>5. KeptRows(db, db') /\ KeptRows(disk, disk') /\ KeptRows(disk, db)'
    BY <2>1, <2>2 DEF KeptRows, Agree, row
  <2>6. Kept(r)
    BY <2>1, <2>2, <2>3, <2>5 DEF Kept
  <2>7. StoreInv(db, sent, acked)' /\ StoreInv(disk, sent, acked)'
    BY <2>2 DEF RegInv
  <2>8. Committed' /\ RequestInv(r)'
    BY <2>2, <2>3 DEF Committed, Agree, row, RequestInv, Open
  <2> QED BY <2>4, <2>5, <2>6, <2>7, <2>8, StepKeeps DEF StepInv
<1> QED BY <1>InsertFails, <1>InsertRow, <1>RollbackStep

-----------------------------------------------------------------------------
(* A restart keeps what is committed.                                       *)
LEMMA RestartStep ==
    ASSUME RegInv, Restart
    PROVE  RegInv'
<1>1. /\ db' = disk /\ disk' = disk /\ sent' = sent /\ acked' = acked
      /\ locks' = [l \in DOMAIN locks |-> NULL]
      /\ \A r \in Slots : req'[r] \in {NULL, DONE}
  BY DEF Restart, history
<1>2. RegType'
  <2>1. locks' \in [{"write", "liveness"} -> Slots \union {NULL}]
    BY <1>1 DEF RegInv, RegType
  <2>2. req' \in [Slots -> Requests \union {NULL, DONE}]
    BY DEF Restart
  <2> QED BY <1>1, <2>1, <2>2 DEF RegInv, RegType
<1>3. StoreInv(db, sent, acked)' /\ StoreInv(disk, sent, acked)'
  BY <1>1 DEF RegInv
<1>4. KeptRows(disk, db)' /\ Committed'
  BY <1>1 DEF KeptRows, Committed, Agree, row
<1>5. \A r \in Slots : RequestInv(r)'
  BY <1>1 DEF RequestInv, Open
<1> QED BY <1>2, <1>3, <1>4, <1>5 DEF RegInv

(* A step that changes neither the database, the locks nor the requests.    *)
LEMMA IdleStep ==
    ASSUME RegInv, UNCHANGED <<db, disk, locks, req, sent, acked>>
    PROVE  RegInv'
<1>1. RegType' /\ Committed'
  BY DEF RegInv, RegType, Committed, Uncommitted, Open, Agree, row
<1>2. ASSUME NEW r \in Slots PROVE RequestInv(r)'
  <2>1. PICK x : x = req[r] /\ req'[r] = x
    OBVIOUS
  <2>2. Subject(x) => Subject(x)'
    BY DEF Subject, row
  <2>3. (TokenHeld(x) => TokenHeld(x)') /\ (Revoked(x) => Revoked(x)')
    BY DEF TokenHeld, Revoked, row
  <2> QED BY <2>1, <2>2, <2>3 DEF RegInv, RequestInv, Open
<1> QED BY <1>1, <1>2 DEF RegInv

(* The registry starts with the enrolled agents, each with a token of its   *)
(* own that is spent.                                                       *)
LEMMA RegInitial ==
    ASSUME RegistryInit
    PROVE  RegInv
<1>1. PICK spent \in [Enrolled -> Tokens \union {NULL}] :
        /\ \A a, b \in Enrolled : spent[a] = spent[b] => a = b \/ spent[a] = NULL
        /\ db = [tokens |-> [t \in Tokens |-> IF \E a \in Enrolled : spent[a] = t THEN "used"
                                              ELSE "absent"],
                 agents |-> [a \in Agents |-> IF a \in Enrolled THEN EnrolledRow(spent[a])
                                              ELSE NULL],
                 assigned |-> [a \in Agents |-> FALSE]]
  BY DEF RegistryInit
<1>2. /\ disk = db /\ locks = [l \in {"write", "liveness"} |-> NULL] /\ req = [r \in Slots |-> NULL]
      /\ sent = [a \in Agents |-> [s \in SeqNumbers |-> NULL]] /\ acked = {}
  BY DEF RegistryInit
<1>3. ASSUME NEW a \in Agents
      PROVE  /\ row(a) \in Rows \union {NULL}
             /\ row(a) # NULL => /\ a \in Enrolled /\ row(a).token = spent[a]
                                 /\ ~(row(a).sequence >= 0)
  <2>1. CASE a \in Enrolled
    <3>1. spent[a] \in Tokens \union {NULL}
      BY <1>1, <2>1
    <3>2. (IF spent[a] = NULL THEN "site_relay" ELSE transport_for_mode(spent[a]))
            \in {"direct", "site_relay"}
      BY DEF transport_for_mode
    <3>3. row(a) = EnrolledRow(spent[a])
      BY <1>1, <2>1 DEF row
    <3>4. PICK y \in Rows : y = EnrolledRow(spent[a]) /\ y.token = spent[a] /\ y.sequence = -1
      BY <3>1, <3>2, FreshRow DEF EnrolledRow
    <3> QED BY <2>1, <3>3, <3>4, SMT
  <2>2. CASE a \notin Enrolled
    BY <1>1, <2>2 DEF row
  <2> QED BY <2>1, <2>2
<1>4. db \in Databases
  <2>1. \A a \in Agents : db.agents[a] \in Rows \union {NULL}
    BY <1>3 DEF row
  <2>2. /\ db = [tokens |-> db.tokens, agents |-> db.agents, assigned |-> db.assigned]
        /\ db.tokens \in [Tokens -> {"absent", "unused", "used", "revoked"}]
        /\ db.agents = [a \in Agents |-> db.agents[a]] /\ db.assigned \in [Agents -> BOOLEAN]
    BY <1>1
  <2>3. db.agents \in [Agents -> Rows \union {NULL}]
    BY <2>1, <2>2
  <2> QED BY <2>2, <2>3 DEF Databases
<1>5. RegType
  BY <1>2, <1>4 DEF RegType
<1>6. StoreInv(db, sent, acked)
  <2>1. TokensSpent(db)
    <3>1. \A a \in Agents : row(a) # NULL /\ row(a).token # NULL => row(a).token \in Tokens
      BY <1>3 DEF Rows
    <3>2. \A t \in Tokens, a \in Enrolled : spent[a] = t => db.tokens[t] = "used"
      BY <1>1
    <3> QED BY <1>1, <1>3, <3>1, <3>2, SMT DEF TokensSpent, row
  <2>2. Newest(db, sent)
    BY <1>3 DEF Newest, row
  <2>3. Answered(db, acked)
    BY <1>2 DEF Answered
  <2> QED BY <2>1, <2>2, <2>3 DEF StoreInv
<1>7. KeptRows(disk, db) /\ Committed
  BY <1>2 DEF KeptRows, Committed, Agree, row
<1>8. \A r \in Slots : RequestInv(r)
  BY <1>2 DEF RequestInv, Open
<1> QED BY <1>2, <1>5, <1>6, <1>7, <1>8 DEF RegInv

-----------------------------------------------------------------------------
(* Every step keeps the invariant.                                          *)
LEMMA RegInductive ==
    ASSUME RegInv, [RegistryNext]_reg_vars
    PROVE  RegInv'
<1>1. ASSUME NEW r \in Slots, AdminStep(r) PROVE RegInv'
  BY <1>1, StartSteps, CommitSteps, RowSteps, TableSteps DEF AdminStep
<1>2. ASSUME NEW r \in Slots, RegisterStep(r) PROVE RegInv'
  BY <1>2, CommitSteps, TableSteps, EnrolSteps DEF RegisterStep
<1>3. ASSUME NEW r \in Slots, PresenceStep(r) PROVE RegInv'
  BY <1>3, ReadSteps, StartSteps, CommitSteps, RowSteps DEF PresenceStep
<1>4. ASSUME NEW r \in Slots, RelayStep(r) PROVE RegInv'
  BY <1>4, ReadSteps, StartSteps, CommitSteps, RowSteps DEF RelayStep
<1>5. CASE \E a \in Agents : HoldEnds(a)
  BY <1>5, IdleStep DEF HoldEnds, store, history
<1>6. CASE Restart
  BY <1>6, RestartStep
<1>7. CASE UNCHANGED reg_vars
  BY <1>7, IdleStep DEF reg_vars
<1> QED BY <1>1, <1>2, <1>3, <1>4, <1>5, <1>6, <1>7 DEF RegistryNext

(* The inductive invariant of the registry: only the holder of _write_lock  *)
(* has an enrollment or a revocation that is not committed, what was        *)
(* answered is on the disk that a restart reads, and the row of a request   *)
(* on its way still is what the request took it to be.                      *)
THEOREM RegistryInvariant == RegistrySpec => []RegInv
<1>1. RegistryInit => RegInv
  BY RegInitial
<1>2. RegInv /\ [RegistryNext]_reg_vars => RegInv'
  BY RegInductive
<1> QED BY <1>1, <1>2, PTL DEF RegistrySpec

(* What was answered about tokens and revocations holds on disk             *)
(* (sqlite_registry.py register_agent, revoke_agent).                       *)
THEOREM Enrolment == RegistrySpec => []EnrolmentHolds
<1>1. RegInv => EnrolmentHolds
  <2> SUFFICES ASSUME RegInv PROVE EnrolmentHolds
    OBVIOUS
  <2>1. Answered(disk, acked) /\ TokensSpent(disk)
    BY DEF RegInv, StoreInv
  <2>2. RevocationLands
    BY <2>1 DEF RevocationLands, Answered, Gone
  <2>3. \A a \in Agents : disk.agents[a] # NULL /\ disk.agents[a].token # NULL =>
          disk.agents[a].token \in Tokens
    BY StoredRow DEF Rows
  <2>4. TokenSpentOnce
    BY <2>1, <2>3 DEF TokenSpentOnce, TokensSpent, Answered
  <2> QED BY <2>2, <2>4 DEF EnrolmentHolds
<1> QED BY <1>1, RegistryInvariant, PTL

(* A late or repeated event or heartbeat, or a restart, never brings an     *)
(* older presence back (record_heartbeat, apply_presence_event).            *)
THEOREM NewestPresence == RegistrySpec => []PresenceIsNewest
<1>1. RegInv => PresenceIsNewest
  BY DEF RegInv, StoreInv, Newest, PresenceIsNewest
<1> QED BY <1>1, RegistryInvariant, PTL

=============================================================================
