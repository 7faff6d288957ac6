----------------------------- MODULE FenceProofs -----------------------------
(* The broker's fence follows the stored generations, and what it was moved *)
(* for is gone, for any number of agents, requests, reports and             *)
(* generations.  A step keeps what was behind the fence behind it because   *)
(* it only raises generations, sequences and fences, and because a new      *)
(* authorisation is of the row as it is (Rise).                             *)
EXTENDS RegistryProofs, TLAPS

(* Zenon proves what does not ask for the arithmetic of SMT.                *)
USE ZenonT(60)

(* The fence.  An authorisation of an agent is what the broker holds for it *)
(* or a claim that has resolved its route and has not called the broker.    *)
Claiming(r, a) == Open(r) /\ req[r].op = "claim" /\ req[r].pc = "claim" /\ req[r].agent = a

Authorisations(a) ==
    held[a] \union {[generation |-> req[r].got, sequence |-> req[r].seq] :
                       r \in {q \in Slots : Claiming(q, a)}}

(* Those from a sequence before s are from a generation before g.           *)
Behind(a, s, g) == \A h \in Authorisations(a) : h.sequence < s => h.generation < g

AllBehind(a, g) == \A h \in Authorisations(a) : h.generation < g

(* The generation of the row is the newest anybody has seen.                *)
Authorised(a) ==
    /\ row(a) = NULL => fence[a] = 0
    /\ row(a) # NULL => fence[a] <= row(a).generation
    /\ \A h \in Authorisations(a) :
          row(a) # NULL /\ row(a).transport = "site_relay" /\ h.generation <= row(a).generation

Passed(a, s) == row(a) # NULL /\ row(a).sequence >= s

PassedOnDisk(a, s) == disk.agents[a] # NULL /\ disk.agents[a].sequence >= s

(* A presence event that advanced the fence, and a revocation, leave every  *)
(* authorisation behind, first in the row and then in what they read.       *)
Advancing(r) ==
    LET x == req[r]
        g == row(x.agent).generation
    IN Open(r) =>
        /\ x.pc = "invalidate" => x.got <= g
        /\ x.op = "event" /\ x.flag =>
              /\ x.pc \in {"bump_commit", "presence_select", "invalidate"} => Passed(x.agent, x.seq)
              /\ x.pc \in {"presence_select", "invalidate"} => PassedOnDisk(x.agent, x.seq)
              /\ x.pc \in {"bump_commit", "presence_select"} => Behind(x.agent, x.seq, g)
              /\ x.pc = "invalidate" => Behind(x.agent, x.seq, x.got)
        /\ x.op = "revoke" =>
              /\ x.flag <=> row(x.agent).transport = "site_relay"
              /\ x.pc \in {"bump_commit", "bump_select"} => AllBehind(x.agent, g)
              /\ x.pc = "invalidate" => AllBehind(x.agent, x.got)

RevokeFenced(a) == AllBehind(a, fence[a]) /\ held[a] = {}

EventFenced(a, s) ==
    /\ Passed(a, s) /\ PassedOnDisk(a, s)
    /\ Behind(a, s, fence[a])
    /\ \A h \in held[a] : h.sequence >= s

Evicted(a) ==
    /\ <<"revoke", a>> \in acked => RevokeFenced(a)
    /\ \A s \in SeqNumbers : <<"event", a, s>> \in acked => EventFenced(a, s)

FenceType ==
    /\ fence \in [Agents -> Generations]
    /\ held \in [Agents -> SUBSET Holds]
    /\ lost \in BOOLEAN

RowsPending == db.agents # disk.agents => \E r \in Slots : Pending(r)

Fencing ==
    /\ \A a \in Agents : Authorised(a) /\ Evicted(a)
    /\ \A r \in Slots : Advancing(r)

FenceInv == FenceType /\ RowsPending /\ (~lost => Fencing)

-----------------------------------------------------------------------------
(* The columns and the authorisations are numbers.                          *)
LEMMA RowNumbers ==
    ASSUME NEW d \in Databases, NEW a \in Agents, d.agents[a] # NULL
    PROVE  /\ d.agents[a].generation \in Generations
           /\ d.agents[a].generation \in Int /\ d.agents[a].sequence \in Int
<1>1. d.agents[a] \in Rows
  BY DEF Databases
<1>2. d.agents[a].generation \in Generations /\ d.agents[a].sequence \in {-1} \union SeqNumbers
  BY <1>1 DEF Rows
<1> QED BY <1>2, SMT DEF Generations, SeqNumbers

(* Generations and sequences of a row are numbers, before and after a step. *)
LEMMA RowsAreNumbers ==
    ASSUME RegInv, RegInv', NEW a \in Agents
    PROVE  /\ row(a) # NULL => /\ row(a).generation \in Generations
                               /\ row(a).generation \in Int /\ row(a).sequence \in Int
           /\ row(a)' # NULL => /\ row(a)'.generation \in Generations
                                /\ row(a)'.generation \in Int /\ row(a)'.sequence \in Int
<1>1. db \in Databases /\ db' \in Databases
  BY DEF RegInv, RegType
<1> QED BY <1>1, RowNumbers DEF row

(* What a claim carries, or the broker holds, is a pair of numbers.         *)
LEMMA AuthorisationNumbers ==
    ASSUME RegInv, FenceType, NEW a \in Agents, NEW h \in Authorisations(a)
    PROVE  h \in Holds
<1>1. ASSUME NEW r \in Slots, Claiming(r, a)
      PROVE  [generation |-> req[r].got, sequence |-> req[r].seq] \in Holds
  <2>1. req[r].got \in Generations /\ req[r].seq \in {-1} \union SeqNumbers
    BY <1>1, OpenRequest DEF Claiming
  <2> QED BY <2>1 DEF Holds
<1>2. held[a] \subseteq Holds
  BY DEF FenceType
<1> QED BY <1>1, <1>2 DEF Authorisations

(* The generations and sequences of the model are integers.                 *)
LEMMA Numbers ==
    /\ Generations \subseteq Int /\ SeqNumbers \subseteq Int /\ 0 \in Generations
    /\ \A g \in Generations : g >= 0
    /\ \A h \in Holds : h.generation \in Int /\ h.sequence \in Int
BY RegistryAssumption, SMT DEF Generations, SeqNumbers, Holds

(* A step of the requests in S raises generations, sequences and fences, and *)
(* only a live row is resolved for a new authorisation.                     *)
Resolved(a, h) ==
    /\ authenticate_agent(a) /\ row(a).transport = "site_relay"
    /\ h.generation = row(a).generation /\ h.sequence = row(a).sequence

RisingRow(a) ==
    row(a) # NULL =>
        /\ row(a)' # NULL /\ row(a)'.transport = row(a).transport
        /\ row(a)'.generation >= row(a).generation /\ row(a)'.sequence >= row(a).sequence

RisingFence(a) ==
    \/ fence'[a] = fence[a]
    \/ row(a) # NULL /\ fence'[a] >= fence[a] /\ fence'[a] <= row(a).generation

Rising(a) ==
    /\ RisingRow(a)
    /\ disk'.agents[a] \in {disk.agents[a], row(a)}
    /\ \A h \in Authorisations(a)' : h \in Authorisations(a) \/ Resolved(a, h)
    /\ \A h \in held'[a] : h \in held[a] \/ (h \in Authorisations(a) /\ h.generation >= fence[a])
    /\ RisingFence(a)

Rise(S) ==
    /\ \A q \in Slots \ S : req'[q] = req[q]
    /\ \A a \in Agents : Rising(a)

(* A row that stays as it is rises.                                         *)
LEMMA SameRowRises ==
    ASSUME RegInv, RegInv', NEW a \in Agents, row(a)' = row(a)
    PROVE  RisingRow(a)
<1>1. row(a) # NULL => row(a).generation \in Int /\ row(a).sequence \in Int
  BY RowsAreNumbers
<1> QED BY <1>1, SMT DEF RisingRow

(* The answers a step adds are fenced.                                      *)
NewAnswers ==
    \A a \in Agents :
        /\ <<"revoke", a>> \in acked' \ acked => RevokeFenced(a)'
        /\ \A s \in SeqNumbers : <<"event", a, s>> \in acked' \ acked => EventFenced(a, s)'

(* A step that raises keeps the fence, when the requests in S keep theirs.  *)
LEMMA FenceKeeps ==
    ASSUME RegInv, RegInv', FenceInv, FenceType', RowsPending',
           NEW S, ~lost' => ~lost /\ Rise(S) /\ NewAnswers /\ \A r \in S : Advancing(r)'
    PROVE  FenceInv'
<1>type. FenceType
  BY DEF FenceInv
<1> USE <1>type
<1>AuthorisedKept. ASSUME NEW a \in Agents, Authorised(a), Rising(a)
                   PROVE  Authorised(a)'
  <2> USE <1>AuthorisedKept
  <2>1. row(a)' = NULL => row(a) = NULL
    BY DEF Rising, RisingRow
  <2>2. /\ row(a) # NULL => row(a).generation \in Int
        /\ row(a)' # NULL => row(a)'.generation \in Int /\ row(a)'.generation >= 0
        /\ fence[a] \in Int /\ fence'[a] \in Int
    BY RowsAreNumbers, Numbers DEF FenceType
  <2>3. row(a)' = NULL => fence'[a] = 0
    BY <2>1 DEF Authorised, Rising, RisingFence
  <2>4. row(a)' # NULL => fence'[a] <= row(a)'.generation
    BY <2>2, SMT DEF Authorised, Rising, RisingFence, RisingRow
  <2>5. ASSUME NEW h \in Authorisations(a)'
        PROVE  row(a)' # NULL /\ row(a)'.transport = "site_relay" /\ h.generation <= row(a)'.generation
    <3>1. row(a) # NULL /\ row(a).transport = "site_relay" /\ h.generation <= row(a).generation
          /\ h.generation \in Int
      <4>1. CASE h \in Authorisations(a)
        BY <4>1, AuthorisationNumbers, Numbers DEF Authorised
      <4>2. CASE Resolved(a, h)
        BY <2>2, <4>2, SMT DEF Resolved, authenticate_agent
      <4> QED BY <4>1, <4>2 DEF Rising
    <3> QED BY <2>2, <3>1, SMT DEF Rising, RisingRow
  <2> QED BY <2>3, <2>4, <2>5 DEF Authorised
(* What was behind stays behind.                                            *)
<1>BehindKept. ASSUME NEW a \in Agents, Rising(a), NEW s \in Int, Passed(a, s),
                      NEW g \in Int, NEW k \in Int, g <= k, Behind(a, s, g)
               PROVE  Behind(a, s, k)'
  <2> USE <1>BehindKept
  <2> SUFFICES ASSUME NEW h \in Authorisations(a)', h.sequence < s PROVE h.generation < k
    BY DEF Behind
  <2>1. CASE h \in Authorisations(a)
    <3>1. h.generation \in Int /\ h.generation < g
      BY <2>1, AuthorisationNumbers, Numbers DEF Behind
    <3> QED BY <3>1, SMT
  <2>2. CASE Resolved(a, h)
    <3>1. row(a).sequence \in Int
      BY <2>2, RowsAreNumbers DEF Passed
    <3> QED BY <2>2, <3>1, SMT DEF Resolved, Passed
  <2> QED BY <2>1, <2>2 DEF Rising
<1>AllBehindKept. ASSUME NEW a \in Agents, Rising(a), row(a) # NULL, row(a).revoked,
                         NEW g \in Int, NEW k \in Int, g <= k, AllBehind(a, g)
                  PROVE  AllBehind(a, k)'
  <2> USE <1>AllBehindKept
  <2> SUFFICES ASSUME NEW h \in Authorisations(a)' PROVE h.generation < k
    BY DEF AllBehind
  <2>1. h \in Authorisations(a)
    BY DEF Rising, Resolved, authenticate_agent
  <2>2. h.generation \in Int /\ h.generation < g
    BY <2>1, AuthorisationNumbers, Numbers DEF AllBehind
  <2> QED BY <2>2, SMT
<1>PassedKept. ASSUME NEW a \in Agents, Rising(a), NEW s \in Int, Passed(a, s)
               PROVE  Passed(a, s)' /\ (PassedOnDisk(a, s) => PassedOnDisk(a, s)')
  <2> USE <1>PassedKept
  <2>1. row(a).sequence \in Int /\ (row(a)' # NULL => row(a)'.sequence \in Int)
    BY RowsAreNumbers DEF Passed
  <2>2. Passed(a, s)'
    BY <2>1, SMT DEF Passed, Rising, RisingRow
  <2>3. PassedOnDisk(a, s) => PassedOnDisk(a, s)'
    BY DEF PassedOnDisk, Passed, Rising
  <2> QED BY <2>2, <2>3
(* What was answered stays fenced.                                          *)
<1>EvictedKept. ASSUME NEW a \in Agents, Evicted(a), Rising(a)
                PROVE  /\ <<"revoke", a>> \in acked => RevokeFenced(a)'
                       /\ \A s \in SeqNumbers : <<"event", a, s>> \in acked => EventFenced(a, s)'
  <2> USE <1>EvictedKept
  <2>0. /\ fence[a] \in Int /\ fence'[a] \in Int /\ fence[a] <= fence'[a]
        /\ \A h \in Authorisations(a) : h.generation \in Int
    <3>1. fence[a] \in Int /\ fence'[a] \in Int
      BY Numbers DEF FenceType
    <3>2. fence[a] <= fence'[a]
      BY <3>1, SMT DEF Rising, RisingFence
    <3> QED BY <3>1, <3>2, AuthorisationNumbers, Numbers
  <2>1. ASSUME <<"revoke", a>> \in acked PROVE RevokeFenced(a)'
    <3>1. row(a) # NULL /\ row(a).revoked
      BY <2>1 DEF RegInv, StoreInv, Answered, Gone, row
    <3>2. AllBehind(a, fence[a]) /\ held[a] = {}
      BY <2>1 DEF Evicted, RevokeFenced
    <3>3. AllBehind(a, fence[a])'
      <4>1. PICK k : k = fence'[a]
        OBVIOUS
      <4>2. AllBehind(a, k)'
        BY <2>0, <3>1, <3>2, <4>1, <1>AllBehindKept
      <4> QED BY <4>1, <4>2 DEF AllBehind
    <3>4. held'[a] = {}
      BY <2>0, <3>2, SMT DEF Rising, AllBehind
    <3> QED BY <3>3, <3>4 DEF RevokeFenced
  <2>2. ASSUME NEW s \in SeqNumbers, <<"event", a, s>> \in acked PROVE EventFenced(a, s)'
    <3>1. /\ Passed(a, s) /\ PassedOnDisk(a, s) /\ Behind(a, s, fence[a]) /\ s \in Int
          /\ \A h \in held[a] : h.sequence >= s
      BY <2>2, Numbers DEF Evicted, EventFenced
    <3>2. Passed(a, s)' /\ PassedOnDisk(a, s)'
      BY <3>1, <1>PassedKept
    <3>3. Behind(a, s, fence[a])'
      <4>1. PICK k : k = fence'[a]
        OBVIOUS
      <4>2. Behind(a, s, k)'
        BY <2>0, <3>1, <4>1, <1>BehindKept
      <4> QED BY <4>1, <4>2 DEF Behind
    <3>4. \A h \in held'[a] : h.sequence >= s
      <4> SUFFICES ASSUME NEW h \in Authorisations(a), h.generation >= fence[a]
                   PROVE  h.sequence >= s
        BY <3>1 DEF Rising
      <4>1. h.sequence \in Int /\ h.generation \in Int
        BY AuthorisationNumbers, Numbers
      <4> QED BY <2>0, <3>1, <4>1, SMT DEF Behind
    <3> QED BY <3>2, <3>3, <3>4 DEF EventFenced
  <2> QED BY <2>1, <2>2
(* What another request is about to fence stays so.                         *)
<1>AdvancingKept. ASSUME Rise(S), NEW q \in Slots \ S, Advancing(q)
                  PROVE  Advancing(q)'
  <2> USE <1>AdvancingKept
  <2> SUFFICES ASSUME Open(q)' PROVE Advancing(q)'
    BY DEF Advancing
  <2>0. PICK x : x = req[q] /\ x = req'[q]
    BY DEF Rise
  <2>1. Open(q) /\ x \in Requests /\ Control(x.op, x.pc) /\ Subject(x) /\ Revoked(x)
        /\ x.agent \in Agents \union {NULL} /\ x.got \in Int
    <3>1. Open(q)
      BY <2>0 DEF Open
    <3> QED BY <2>0, <3>1, OpenRequest, Numbers
  <2>2. CASE x.agent = NULL
    <3>1. x.pc # "invalidate" /\ x.op # "event" /\ x.op # "revoke"
      BY <2>1, <2>2 DEF Subject, Control
    <3> QED BY <2>0, <3>1 DEF Advancing
  <2>3. CASE x.agent \in Agents
    <3>0. PICK a \in Agents : a = x.agent
      BY <2>3
    <3>1. row(a) # NULL /\ row(a)' # NULL /\ Rising(a)
      BY <2>1, <3>0, NoneIsNobody DEF Subject, Rise, Rising, RisingRow
    <3>2. PICK g \in Int, k \in Int : g = row(a).generation /\ k = row(a)'.generation /\ g <= k
      BY <3>1, RowsAreNumbers DEF Rising, RisingRow
    <3>3. x.pc = "invalidate" => x.got <= k
      BY <2>0, <2>1, <3>0, <3>2, SMT DEF Advancing
    <3>4. ASSUME x.op = "event", x.flag
          PROVE  /\ x.pc \in {"bump_commit", "presence_select", "invalidate"} => Passed(a, x.seq)'
                 /\ x.pc \in {"presence_select", "invalidate"} => PassedOnDisk(a, x.seq)'
                 /\ x.pc \in {"bump_commit", "presence_select"} => Behind(a, x.seq, k)'
                 /\ x.pc = "invalidate" => Behind(a, x.seq, x.got)'
      <4>1. x.seq \in Int
        BY <2>1, <3>4, Numbers DEF Subject
      <4>2. /\ x.pc \in {"bump_commit", "presence_select", "invalidate"} => Passed(a, x.seq)
            /\ x.pc \in {"presence_select", "invalidate"} => PassedOnDisk(a, x.seq)
            /\ x.pc \in {"bump_commit", "presence_select"} => Behind(a, x.seq, g)
            /\ x.pc = "invalidate" => Behind(a, x.seq, x.got)
        BY <2>0, <2>1, <3>0, <3>2, <3>4 DEF Advancing
      <4>3. PICK s \in Int, i \in Int : s = x.seq /\ i = x.got
        BY <2>1, <4>1
      <4>4. CASE x.pc \in {"bump_commit", "presence_select", "invalidate"}
        <5>1. Passed(a, s) /\ (PassedOnDisk(a, s) => PassedOnDisk(a, s)') /\ Passed(a, s)'
          BY <3>1, <4>2, <4>3, <4>4, <1>PassedKept
        <5>2. Behind(a, s, g) => Behind(a, s, k)'
          BY <3>1, <3>2, <5>1, <1>BehindKept
        <5>3. Behind(a, s, i) => Behind(a, s, i)'
          BY <3>1, <5>1, <1>BehindKept, SMT
        <5> QED BY <4>2, <4>3, <5>1, <5>2, <5>3
      <4> QED BY <4>4
    <3>5. ASSUME x.op = "revoke"
          PROVE  /\ x.flag <=> row(a)'.transport = "site_relay"
                 /\ x.pc \in {"bump_commit", "bump_select"} => AllBehind(a, k)'
                 /\ x.pc = "invalidate" => AllBehind(a, x.got)'
      <4>1. /\ x.flag <=> row(a).transport = "site_relay"
            /\ x.pc \in {"bump_commit", "bump_select"} => AllBehind(a, g)
            /\ x.pc = "invalidate" => AllBehind(a, x.got)
        BY <2>0, <2>1, <3>0, <3>2, <3>5 DEF Advancing
      <4>2. x.flag <=> row(a)'.transport = "site_relay"
        BY <3>1, <4>1 DEF Rising, RisingRow
      <4>3. CASE x.pc \in {"bump_commit", "bump_select", "invalidate"}
        <5>1. row(a).revoked
          BY <2>1, <3>0, <3>5, <4>3 DEF Revoked
        <5>2. AllBehind(a, g) => AllBehind(a, k)'
          BY <3>1, <3>2, <5>1, <1>AllBehindKept
        <5>3. AllBehind(a, x.got) => AllBehind(a, x.got)'
          <6>1. PICK i \in Int : i = x.got
            BY <2>1
          <6>2. AllBehind(a, i) => AllBehind(a, i)'
            BY <3>1, <5>1, <1>AllBehindKept, SMT
          <6> QED BY <6>1, <6>2
        <5> QED BY <4>1, <4>2, <5>2, <5>3
      <4> QED BY <4>2, <4>3
    <3> QED BY <2>0, <3>0, <3>2, <3>3, <3>4, <3>5 DEF Advancing
  <2> QED BY <2>1, <2>2, <2>3
<1> SUFFICES ASSUME ~lost' PROVE Fencing'
  BY DEF FenceInv
<1>1. Rise(S) /\ NewAnswers /\ Fencing /\ FenceType /\ \A r \in S : Advancing(r)'
  BY DEF FenceInv
<1>2. ASSUME NEW a \in Agents PROVE Authorised(a)' /\ Evicted(a)'
  <2>1. Rising(a) /\ Authorised(a) /\ Evicted(a)
    BY <1>1 DEF Rise, Fencing
  <2>2. Authorised(a)'
    BY <1>1, <2>1, <1>AuthorisedKept
  <2>3. /\ <<"revoke", a>> \in acked => RevokeFenced(a)'
        /\ \A s \in SeqNumbers : <<"event", a, s>> \in acked => EventFenced(a, s)'
    BY <1>1, <2>1, <1>EvictedKept
  <2> QED BY <1>1, <2>2, <2>3 DEF Evicted, NewAnswers
<1>3. ASSUME NEW q \in Slots PROVE Advancing(q)'
  BY <1>1, <1>AdvancingKept DEF Fencing
<1> QED BY <1>2, <1>3 DEF Fencing

(* The fields of the request of r, the others unchanged.                    *)
LEMMA OnlyThis ==
    ASSUME RegInv, NEW r \in Slots, NEW y, req' = [req EXCEPT ![r] = y]
    PROVE  req'[r] = y /\ \A q \in Slots \ {r} : req'[q] = req[q]
BY DEF RegInv, RegType

(* Nobody gets an authorisation who does not resolve a route.               *)
LEMMA NoNewAuthorisation ==
    ASSUME NEW r \in Slots, \A q \in Slots \ {r} : req'[q] = req[q],
           NEW a \in Agents, ~Claiming(r, a)', held'[a] \subseteq held[a]
    PROVE  Authorisations(a)' \subseteq Authorisations(a)
<1>1. ASSUME NEW q \in Slots, Claiming(q, a)'
      PROVE  q # r /\ Claiming(q, a) /\ req'[q] = req[q]
  BY <1>1 DEF Claiming, Open
<1> QED BY <1>1 DEF Authorisations

(* A step that leaves the broker alone, and the rows to the connection.     *)
LEMMA PlainFence ==
    ASSUME RegInv, RegInv', FenceInv, NEW r \in Slots, NEW y, req' = [req EXCEPT ![r] = y],
           y = DONE \/ y.op # "claim" \/ y.pc # "claim",
           fence' = fence, held' = held, lost' = lost, db'.agents = db.agents,
           disk'.agents = db.agents \/ (disk'.agents = disk.agents /\ (Pending(r) => Pending(r)')),
           ~lost => NewAnswers /\ Advancing(r)'
    PROVE  FenceInv'
<1>1. req'[r] = y /\ \A q \in Slots \ {r} : req'[q] = req[q]
  BY OnlyThis
<1>2. FenceType'
  BY DEF FenceInv, FenceType
<1>3. RowsPending'
  <2>1. ASSUME NEW q \in Slots, Pending(q), Pending(r) => Pending(r)' PROVE Pending(q)'
    BY <1>1, <2>1 DEF Pending
  <2> QED BY <2>1 DEF RowsPending, FenceInv
<1>4. Rise({r})
  <2>1. ASSUME NEW a \in Agents PROVE Rising(a)
    <3>1. row(a)' = row(a) /\ disk'.agents[a] \in {disk.agents[a], row(a)}
      BY DEF row
    <3>2. RisingRow(a)
      BY <3>1, SameRowRises
    <3>3. Authorisations(a)' \subseteq Authorisations(a)
      BY <1>1, NoNewAuthorisation DEF Claiming, Open
    <3> QED BY <3>1, <3>2, <3>3 DEF Rising, RisingFence
  <2> QED BY <1>1, <2>1 DEF Rise
<1> QED BY <1>2, <1>3, <1>4, FenceKeeps, SMT

(* A request that is not about to move the fence.                           *)
Advances == {"bump_commit", "bump_select", "presence_select", "invalidate", "claim"}

Calm(y) == y = DONE \/ (y.op # "revoke" /\ y.pc \notin Advances)

Calmly(r, y) ==
    /\ req' = [req EXCEPT ![r] = y] /\ Calm(y)
    /\ fence' = fence /\ held' = held /\ lost' = lost
    /\ db'.agents = db.agents
    /\ disk'.agents = db.agents \/ (disk'.agents = disk.agents /\ ~Pending(r))
    /\ \/ acked' = acked
       \/ \E t \in Tokens : acked' = acked \union {<<"create", t>>}
       \/ \E t \in Tokens : acked' = acked \union {<<"void", t>>}

(* A step that leaves the rows, the fence and the holds alone keeps them    *)
(* fenced.                                                                  *)
LEMMA CalmFence ==
    ASSUME RegInv, RegInv', FenceInv, NEW r \in Slots, NEW y, Calmly(r, y)
    PROVE  FenceInv'
<1>1. req'[r] = y
  BY OnlyThis DEF Calmly
<1>2. Advancing(r)'
  BY <1>1 DEF Advancing, Calmly, Calm, Advances, Open
<1>3. NewAnswers
  <2>1. \A a, t, s : /\ <<"revoke", a>> # <<"create", t>> /\ <<"revoke", a>> # <<"void", t>>
                     /\ <<"event", a, s>> # <<"create", t>> /\ <<"event", a, s>> # <<"void", t>>
    OBVIOUS
  <2> QED BY <2>1, SMT DEF NewAnswers, Calmly
<1> QED BY <1>1, <1>2, <1>3, PlainFence DEF Calmly, Calm, Advances

(* A request that goes on, and not towards the broker, owes the fence nothing.*)
LEMMA GotoCalm ==
    ASSUME RegInv, NEW r \in Slots, Open(r), req[r].op # "revoke", NEW p \in Points \ Advances
    PROVE  Calm(Goto(r, p))
BY GotoFields DEF Calm

(* The steps that read or write and are not about the fence.                *)
LEMMA CalmRead ==
    ASSUME RegInv, RegInv', FenceInv, NEW r \in Slots, NEW y, Reads(r, y), Calm(y), ~Pending(r)
    PROVE  FenceInv'
BY CalmFence DEF Reads, Calmly, store, memory, history

(* The steps that read or write and are not about the fence.                *)
LEMMA CalmSteps ==
    ASSUME RegInv, RegInv', FenceInv, NEW r \in Slots
    PROVE  \/ HeartbeatRoute(r) \/ HeartbeatSnapshot(r) \/ EventRoute(r)
           \/ SweepRoute(r) \/ has_pending(r) \/ RegisterInsertFails(r)
           \/ offline_eviction_loop(r) \/ SweepNext(r) \/ SweepEnd(r)
           \/ \E a \in Agents : inference_claim(r, a) \/ set_assignments(r, a)
           \/ \E a \in Agents, s \in SeqNumbers, m \in Messages :
                 heartbeat(r, a, s, m) \/ events(r, a, s, m)
           \/ \E t \in Tokens : \/ create_enrollment_token(r, t) \/ revoke_enrollment_token(r, t)
                                \/ register_agent(r, t)
           \/ AssignInsert(r) \/ AssignCommit(r) \/ RegisterCommit(r) \/ SetStateCommit(r)
           \/ HeartbeatCommit(r) \/ CreateCommit(r) \/ VoidCommit(r)
           => FenceInv'
<1>StartCalm. ASSUME NEW op, op # "revoke", NEW p, p \notin Advances, NEW a, NEW s
              PROVE  /\ Calm(For(op, p, a)) /\ Calm([For(op, p, a) EXCEPT !.seq = s])
                     /\ Calm([Request(op, p) EXCEPT !.token = s]) /\ Calm([Request(op, p) EXCEPT !.rest = s])
  BY <1>StartCalm DEF Calm, For, Request
<1>CalmReads. ASSUME \/ HeartbeatRoute(r) \/ HeartbeatSnapshot(r) \/ EventRoute(r)
                     \/ SweepRoute(r) \/ has_pending(r) \/ RegisterInsertFails(r)
              PROVE  FenceInv'
  <2> USE <1>CalmReads
  <2> DEFINE next == {Goto(r, p) : p \in {"snapshot", "pending", "set_state", "presence", "next",
                                         "bump", "rollback"}} \union {DONE}
  <2>1. /\ Open(r) /\ ~Pending(r)
        /\ req[r].pc \in {"route", "snapshot", "pending", "insert"}
        /\ req[r].op \in {"heartbeat", "event", "sweep", "register"} \/ req[r].pc = "pending"
    BY DEF HeartbeatRoute, HeartbeatSnapshot, EventRoute, SweepRoute, has_pending,
           RegisterInsertFails, At, AtAny, Open, Pending
  <2>2. req[r].op # "revoke"
    <3>1. Control(req[r].op, req[r].pc)
      BY <2>1, OpenRequest
    <3> QED BY <2>1, <3>1 DEF Control, Bumping
  <2>3. \A y \in next : Calm(y)
    <3>1. \A p \in {"snapshot", "pending", "set_state", "presence", "next", "bump", "rollback"} :
            Calm(Goto(r, p))
      BY <2>1, <2>2, GotoCalm DEF Points, Advances
    <3> QED BY <3>1, SMT DEF Calm
  <2>4. \E y \in next : Reads(r, y)
    <3>1. CASE HeartbeatRoute(r)
      BY <3>1 DEF HeartbeatRoute
    <3>2. CASE HeartbeatSnapshot(r)
      BY <3>2 DEF HeartbeatSnapshot
    <3>3. CASE EventRoute(r)
      BY <3>3 DEF EventRoute
    <3>4. CASE SweepRoute(r)
      BY <3>4 DEF SweepRoute
    <3>5. CASE has_pending(r)
      BY <3>5 DEF has_pending
    <3>6. CASE RegisterInsertFails(r)
      BY <3>6 DEF RegisterInsertFails
    <3> QED BY <3>1, <3>2, <3>3, <3>4, <3>5, <3>6
  <2> QED BY <2>1, <2>3, <2>4, CalmRead
<1>CalmSweep. ASSUME SweepNext(r) \/ SweepEnd(r) \/ offline_eviction_loop(r)
              PROVE  FenceInv'
  <2> USE <1>CalmSweep
  <2>1. CASE SweepNext(r)
    <3>1. PICK a \in req[r].rest :
            Reads(r, [Goto(r, "route") EXCEPT !.agent = a, !.rest = @ \ {a}])
      BY <2>1 DEF SweepNext
    <3>2. Open(r) /\ ~Pending(r) /\ req[r].op = "sweep"
      BY <2>1 DEF SweepNext, At, Open, Pending
    <3>3. PICK w \in Requests : w = Goto(r, "route") /\ w.op = "sweep" /\ w.pc = "route"
      BY <3>2, GotoFields, SMT DEF Points
    <3>4. Calm([w EXCEPT !.agent = a, !.rest = @ \ {a}])
      BY <3>3 DEF Calm, Requests, Advances
    <3> QED BY <3>1, <3>2, <3>3, <3>4, CalmRead
  <2>2. CASE SweepEnd(r)
    BY <2>2, CalmFence DEF SweepEnd, Calmly, Calm, At, Pending, store, memory, history
  <2>3. CASE offline_eviction_loop(r)
    <3>1. PICK y : y = req'[r] /\ req' = [req EXCEPT ![r] = y] /\ Calm(y)
      <4>1. PICK offline : req' = [req EXCEPT ![r] = [Request("sweep", "next") EXCEPT !.rest = offline]]
        BY <2>3 DEF offline_eviction_loop
      <4>2. Calm([Request("sweep", "next") EXCEPT !.rest = offline])
        BY <1>StartCalm DEF Advances
      <4> QED BY <4>1, <4>2, OnlyThis
    <3> QED BY <2>3, <3>1, CalmFence
         DEF offline_eviction_loop, Calmly, Pending, store, memory, history
  <2> QED BY <2>1, <2>2, <2>3
<1>CalmStarts. ASSUME NEW a \in Agents,
                      \/ inference_claim(r, a) \/ set_assignments(r, a)
                      \/ \E s \in SeqNumbers, m \in Messages : heartbeat(r, a, s, m) \/ events(r, a, s, m)
               PROVE  FenceInv'
  <2> USE <1>CalmStarts
  <2>0. req[r] = NULL /\ ~Pending(r)
    BY DEF inference_claim, set_assignments, heartbeat, events, Pending
  <2>1. CASE inference_claim(r, a)
    BY <2>0, <2>1, <1>StartCalm, CalmRead DEF inference_claim, Advances
  <2>2. CASE set_assignments(r, a)
    <3>1. Calm(For("assign", "insert", a))
      BY <1>StartCalm DEF Advances
    <3>2. db'.agents = db.agents
      BY <2>2 DEF set_assignments, Writes, RegInv, RegType, Databases
    <3> QED BY <2>0, <2>2, <3>1, <3>2, CalmFence
         DEF set_assignments, Writes, Calmly, memory, history
  <2>3. ASSUME NEW s \in SeqNumbers, NEW m \in Messages, heartbeat(r, a, s, m) PROVE FenceInv'
    <3>1. Calm([For("heartbeat", "record", a) EXCEPT !.seq = s])
      BY <1>StartCalm DEF Advances
    <3> QED BY <2>0, <2>3, <3>1, CalmFence DEF heartbeat, Calmly, store, broker, history
  <2>4. ASSUME NEW s \in SeqNumbers, NEW m \in Messages, events(r, a, s, m) PROVE FenceInv'
    <3>1. Calm([For("event", "route", a) EXCEPT !.seq = s])
      BY <1>StartCalm DEF Advances
    <3> QED BY <2>0, <2>4, <3>1, CalmFence DEF events, Calmly, store, broker, history
  <2> QED BY <2>1, <2>2, <2>3, <2>4
<1>CalmTables. ASSUME \/ \E t \in Tokens : \/ create_enrollment_token(r, t) \/ revoke_enrollment_token(r, t)
                                           \/ register_agent(r, t)
                      \/ AssignInsert(r)
               PROVE  FenceInv'
  <2> USE <1>CalmTables
  <2>0. db \in Databases
    BY DEF RegInv, RegType
  <2>1. ASSUME NEW y, NEW e, Writes(r, e, y), e.agents = db.agents, Calm(y), ~Pending(r)
        PROVE  FenceInv'
    BY <2>1, CalmFence DEF Writes, Calmly, memory, history
  <2>2. ASSUME NEW t \in Tokens, create_enrollment_token(r, t) PROVE FenceInv'
    <3>1. Calm([Request("create", "commit") EXCEPT !.token = t])
      BY <1>StartCalm DEF Advances
    <3>2. [db EXCEPT !.tokens[t] = "unused"].agents = db.agents
      BY <2>0 DEF Databases
    <3> QED BY <2>1, <2>2, <3>1, <3>2 DEF create_enrollment_token, Pending
  <2>3. ASSUME NEW t \in Tokens, revoke_enrollment_token(r, t) PROVE FenceInv'
    <3>1. Calm([Request("void", "commit") EXCEPT !.token = t])
      BY <1>StartCalm DEF Advances
    <3>2. [db EXCEPT !.tokens[t] = "revoked"].agents = db.agents
      BY <2>0 DEF Databases
    <3> QED BY <2>1, <2>3, <3>1, <3>2 DEF revoke_enrollment_token, Pending
  <2>4. ASSUME NEW t \in Tokens, register_agent(r, t) PROVE FenceInv'
    <3>1. /\ Calm([Request("register", "insert") EXCEPT !.token = t])
          /\ Calm([Request("register", "rollback") EXCEPT !.token = t])
      BY <1>StartCalm DEF Advances
    <3>2. [db EXCEPT !.tokens[t] = "used"].agents = db.agents
      BY <2>0 DEF Databases
    <3>3. req[r] = NULL /\ ~Pending(r)
      BY <2>4 DEF register_agent, Pending
    <3> QED BY <2>1, <2>4, <3>1, <3>2, <3>3 DEF register_agent
  <2>5. ASSUME AssignInsert(r) PROVE FenceInv'
    <3>1. Open(r) /\ ~Pending(r) /\ req[r].op = "assign"
      BY <2>5 DEF AssignInsert, At, Open, Pending
    <3>2. Calm(Goto(r, "commit"))
      BY <3>1, GotoCalm DEF Points, Advances
    <3>3. PICK v : v = InsertsAssignment(req[r].agent)
      OBVIOUS
    <3>4. [db EXCEPT !.assigned[req[r].agent] = v].agents = db.agents
      BY <2>0 DEF Databases
    <3>5. Writes(r, [db EXCEPT !.assigned[req[r].agent] = v], Goto(r, "commit"))
      BY <2>5, <3>3 DEF AssignInsert
    <3> QED BY <2>1, <3>1, <3>2, <3>4, <3>5
  <2> QED BY <2>2, <2>3, <2>4, <2>5
<1>CalmCommits. ASSUME \/ CreateCommit(r) \/ VoidCommit(r) \/ RegisterCommit(r) \/ AssignCommit(r)
                       \/ SetStateCommit(r) \/ HeartbeatCommit(r)
                PROVE  FenceInv'
  <2> USE <1>CalmCommits
  <2>0. Calm(DONE)
    BY DEF Calm
  <2>1. CASE RegisterCommit(r) \/ AssignCommit(r) \/ SetStateCommit(r)
    BY <2>0, <2>1, CalmFence
       DEF RegisterCommit, AssignCommit, SetStateCommit, Commits, Calmly, memory, history
  <2>2. CASE HeartbeatCommit(r)
    <3>1. Calm(Goto(r, "route"))
      BY <2>2, GotoCalm DEF HeartbeatCommit, At, Open, Points, Advances
    <3> QED BY <2>2, <3>1, CalmFence DEF HeartbeatCommit, Commits, Calmly, memory, history
  <2>3. CASE CreateCommit(r) \/ VoidCommit(r)
    <3>1. req[r].token \in Tokens
      BY <2>3, OpenRequest DEF CreateCommit, VoidCommit, At, Open, Subject
    <3> QED BY <2>0, <2>3, <3>1, CalmFence
         DEF CreateCommit, VoidCommit, Commits, Answers, Calmly, memory
  <2> QED BY <2>1, <2>2, <2>3
<1> QED BY <1>CalmReads, <1>CalmSweep, <1>CalmStarts, <1>CalmTables, <1>CalmCommits

-----------------------------------------------------------------------------
(* The statements that write a row.                                         *)
LEMMA RowFences ==
    ASSUME RegInv, RegInv', FenceInv, NEW r \in Slots
    PROVE  \/ \E a \in Agents : RegisterInsert(r, a)
           \/ HeartbeatUpdate(r) \/ set_agent_state(r) \/ RevokeUpdate(r)
           \/ BumpUpdate(r) \/ apply_presence_event(r)
           => FenceInv'
(* The statements that write a row.                                         *)
<1>RowFence. ASSUME NEW y, req' = [req EXCEPT ![r] = y],
                    NEW a \in Agents, NEW w \in Rows, db' = [db EXCEPT !.agents[a] = w],
                    row(a) # NULL =>
                       /\ w.transport = row(a).transport
                       /\ w.generation >= row(a).generation /\ w.sequence >= row(a).sequence,
                    y \notin {NULL, DONE}, y.pc \in {"commit", "revoke_commit", "bump_commit"},
                    UNCHANGED <<disk, fence, held, lost, acked>>,
                    row(a)' = w /\ ~lost => Advancing(r)'
             PROVE  FenceInv'
  <2> USE <1>RowFence
  <2>1. req'[r] = y /\ \A q \in Slots \ {r} : req'[q] = req[q]
    BY OnlyThis
  <2>2. FenceType'
    BY DEF FenceInv, FenceType
  <2>3. RowsPending'
    BY <2>1 DEF RowsPending, Pending
  <2>4. row(a)' = w /\ \A b \in Agents \ {a} : row(b)' = row(b)
    BY SMT DEF RegInv, RegType, Databases, row
  <2>5. Rise({r})
    <3>1. ASSUME NEW b \in Agents PROVE Rising(b)
      <4>1. RisingRow(b)
        <5>1. CASE b = a
          BY <2>4, <5>1, NoneIsNoValue DEF RisingRow
        <5>2. CASE b # a
          BY <2>4, <5>2, SameRowRises
        <5> QED BY <5>1, <5>2
      <4>2. Authorisations(b)' \subseteq Authorisations(b)
        BY <2>1, NoNewAuthorisation DEF Claiming
      <4> QED BY <4>1, <4>2 DEF Rising, RisingFence
    <3> QED BY <2>1, <3>1 DEF Rise
  <2>6. NewAnswers
    BY DEF NewAnswers
  <2> QED BY <2>2, <2>3, <2>4, <2>5, <2>6, FenceKeeps, SMT
(* Where the request of r goes when it updates the row of its agent.        *)
<1>UpdateFields. ASSUME Open(r), req[r].agent # NULL
                 PROVE  /\ req[r].agent \in Agents /\ row(req[r].agent) \in Rows
                        /\ row(req[r].agent).generation \in Int /\ row(req[r].agent).sequence \in Int
  <2> USE <1>UpdateFields
  <2>1. req[r].agent \in Agents /\ row(req[r].agent) # NULL
    BY OpenRequest DEF Subject
  <2>2. db \in Databases
    BY DEF RegInv, RegType
  <2> QED BY <2>1, <2>2, StoredRow, RowNumbers DEF row
<1>InsertFence. ASSUME NEW a \in Agents, RegisterInsert(r, a)
                PROVE  FenceInv'
  <2> USE <1>InsertFence
  <2>1. Open(r) /\ req[r].op = "register" /\ row(a) = NULL
    BY DEF RegisterInsert, At, Open
  <2>2. PICK t \in Tokens : t = req[r].token
    BY <2>1, OpenRequest DEF Subject
  <2>3. PICK w \in Rows : w = NewRow(t, transport_for_mode(t))
    <3>1. transport_for_mode(t) \in {"direct", "site_relay"}
      BY DEF transport_for_mode
    <3> QED BY <3>1, FreshRow
  <2>4. PICK x \in Requests : x = Goto(r, "commit") /\ x.pc = "commit" /\ x.op = "register"
    BY <2>1, GotoFields, SMT DEF Points
  <2>5. PICK y : y = [x EXCEPT !.agent = a]
    OBVIOUS
  <2>6. y.pc = "commit" /\ y.op = "register"
    BY <2>4, <2>5 DEF Requests
  <2>7. /\ req' = [req EXCEPT ![r] = y] /\ db' = [db EXCEPT !.agents[a] = w]
        /\ UNCHANGED <<disk, fence, held, lost, acked>>
    BY <2>2, <2>3, <2>4, <2>5 DEF RegisterInsert, Writes, memory, history
  <2>8. req'[r] = y /\ y \notin {NULL, DONE}
    <3>1. y \in Requests
      BY <2>5 DEF Requests
    <3> QED BY <2>7, <3>1, OnlyThis, NoneIsNoValue
  <2>9. Advancing(r)'
    BY <2>6, <2>8 DEF Advancing
  <2> QED BY <2>1, <2>6, <2>7, <2>8, <2>9, <1>RowFence
<1>UpdateFence. ASSUME NEW y \in Requests, NEW a \in Agents,
                       a = req[r].agent, NEW w \in Rows, Updates(r, w, y),
                       row(a) # NULL =>
                          /\ w.transport = row(a).transport
                          /\ w.generation >= row(a).generation /\ w.sequence >= row(a).sequence,
                       y.pc \in {"commit", "revoke_commit", "bump_commit"},
                       row(a)' = w /\ req'[r] = y /\ UNCHANGED <<disk, fence, held, acked>> /\ ~lost =>
                          Advancing(r)'
                PROVE  FenceInv'
  <2> USE <1>UpdateFence
  <2>1. /\ req' = [req EXCEPT ![r] = y] /\ db' = [db EXCEPT !.agents[a] = w]
        /\ UNCHANGED <<disk, fence, held, lost, acked>>
    BY DEF Updates, Writes, memory, history
  <2>2. req'[r] = y /\ y \notin {NULL, DONE}
    BY <2>1, OnlyThis, NoneIsNoValue
  <2> QED BY <2>1, <2>2, <1>RowFence
(* A heartbeat and the state of a direct agent leave the generation alone.  *)
<1>ReportFence. ASSUME HeartbeatUpdate(r) \/ set_agent_state(r)
                PROVE  FenceInv'
  <2> USE <1>ReportFence
  <2>1. Open(r) /\ req[r].op \in {"heartbeat", "event"}
    BY DEF HeartbeatUpdate, set_agent_state, At, Open
  <2>2. PICK a \in Agents, s \in SeqNumbers, m \in Messages, x \in Rows :
           /\ a = req[r].agent /\ s = req[r].seq /\ m = sent[a][s] /\ x = row(a)
           /\ x.generation \in Int /\ x.sequence \in Int /\ s \in Int
    <3>1. Subject(req[r]) /\ req[r].agent \in Agents /\ req[r].seq \in SeqNumbers
      BY <2>1, OpenRequest DEF Subject
    <3>2. sent[req[r].agent][req[r].seq] \in Messages
      <4>1. sent[req[r].agent][req[r].seq] # NULL
        BY <2>1, <3>1 DEF Subject
      <4>2. sent \in [Agents -> [SeqNumbers -> Messages \union {NULL}]]
        BY DEF RegInv, RegType
      <4> QED BY <3>1, <4>1, <4>2
    <3> QED BY <2>1, <3>1, <3>2, <1>UpdateFields, Numbers, NoneIsNobody
  <2>3. PICK z \in Requests : z = Goto(r, "commit") /\ z.pc = "commit" /\ z.op = req[r].op
    BY <2>1, GotoFields, SMT DEF Points
  <2>4. req'[r] = z => Advancing(r)'
    BY <2>1, <2>3 DEF Advancing
  <2>5. CASE HeartbeatUpdate(r)
    <3>1. PICK w : w = record_heartbeat(x, s, m)
      OBVIOUS
    <3>2. /\ w \in Rows /\ w.transport = x.transport /\ w.generation = x.generation
          /\ w.sequence = IF s > x.sequence THEN s ELSE x.sequence
      BY <3>1, HeartbeatRow
    <3>3. w.generation >= x.generation /\ w.sequence >= x.sequence
      <4>1. /\ x.generation \in Int /\ x.sequence \in Int /\ s \in Int
            /\ w.generation = x.generation
            /\ w.sequence = IF s > x.sequence THEN s ELSE x.sequence
        BY <2>2, <3>2
      <4> QED BY <4>1, SMT
    <3>4. Updates(r, w, z)
      BY <2>2, <2>3, <2>5, <3>1 DEF HeartbeatUpdate
    <3> QED BY <2>2, <2>3, <2>4, <3>2, <3>3, <3>4, <1>UpdateFence
  <2>6. CASE set_agent_state(r)
    <3>1. PICK w : w = [x EXCEPT !.state = m.state]
      OBVIOUS
    <3>2. /\ w \in Rows /\ w.transport = x.transport /\ w.generation = x.generation
          /\ w.sequence = x.sequence
      <4>1. m.state \in AgentStates
        BY MessageFields
      <4> QED BY <3>1, <4>1, StateRow, SMT
    <3>3. Updates(r, w, z)
      BY <2>2, <2>3, <2>6, <3>1 DEF set_agent_state
    <3> QED BY <2>2, <2>3, <2>4, <3>2, <3>3, <1>UpdateFence, SMT
  <2> QED BY <2>5, <2>6
(* The UPDATE of revoke_agent.                                              *)
<1>RevokeFence. ASSUME RevokeUpdate(r)
                PROVE  FenceInv'
  <2> USE <1>RevokeFence
  <2>1. Open(r) /\ req[r].op = "revoke"
    BY DEF RevokeUpdate, At, Open
  <2>2. PICK a \in Agents, x \in Rows :
           a = req[r].agent /\ x = row(a) /\ x.generation \in Int /\ x.sequence \in Int
    <3>1. req[r].agent # NULL
      BY <2>1, OpenRequest DEF Subject
    <3> QED BY <2>1, <3>1, <1>UpdateFields
  <2>3. PICK z \in Requests : /\ z = Goto(r, "revoke_commit") /\ z.pc = "revoke_commit"
                              /\ z.op = "revoke" /\ z.agent = a /\ z.flag = req[r].flag
    BY <2>1, <2>2, GotoFields, SMT DEF Points
  <2>4. PICK w : w = [x EXCEPT !.revoked = TRUE]
    OBVIOUS
  <2>5. /\ w \in Rows /\ w.transport = x.transport /\ w.generation = x.generation
        /\ w.sequence = x.sequence
    BY <2>4, RevokedRow
  <2>6. Updates(r, w, z)
    BY <2>2, <2>3, <2>4 DEF RevokeUpdate
  <2>7. ASSUME row(a)' = w, req'[r] = z, ~lost PROVE Advancing(r)'
    <3>1. req[r].flag <=> x.transport = "site_relay"
      BY <2>1, <2>2, <2>7 DEF FenceInv, Fencing, Advancing
    <3> QED BY <2>3, <2>5, <2>7, <3>1 DEF Advancing
  <2> QED BY <2>2, <2>3, <2>5, <2>6, <2>7, <1>UpdateFence, SMT
(* A newer generation leaves every authorisation behind.                    *)
<1>NewerGeneration. ASSUME ~lost, NEW a \in Agents, row(a) # NULL,
                           \A q \in Slots \ {r} : req'[q] = req[q], ~Claiming(r, a)', held' = held,
                           NEW g \in Int, g > row(a).generation
                    PROVE  AllBehind(a, g)'
  <2> USE <1>NewerGeneration
  <2>1. Authorisations(a)' \subseteq Authorisations(a)
    BY NoNewAuthorisation
  <2>2. \A h \in Authorisations(a) : h.generation \in Int /\ h.generation <= row(a).generation
    BY AuthorisationNumbers, Numbers DEF FenceInv, Fencing, Authorised
  <2>3. row(a).generation \in Int
    BY RowsAreNumbers
  <2> QED BY <2>1, <2>2, <2>3, SMT DEF AllBehind
<1>BumpFence. ASSUME BumpUpdate(r)
              PROVE  FenceInv'
  <2> USE <1>BumpFence
  <2>1. Open(r) /\ req[r].pc = "bump" /\ req[r].op \in {"revoke", "heartbeat", "sweep"}
    <3>1. Open(r) /\ req[r].pc = "bump"
      BY DEF BumpUpdate, AtAny, Open
    <3>2. Control(req[r].op, req[r].pc)
      BY <3>1, OpenRequest
    <3> QED BY <3>1, <3>2 DEF Control
  <2>2. PICK a \in Agents, x \in Rows :
           /\ a = req[r].agent /\ x = row(a) /\ x.generation \in Int /\ x.sequence \in Int
           /\ x.generation < MaxGeneration
    <3>1. req[r].agent # NULL
      BY <2>1, OpenRequest DEF Subject
    <3> QED BY <2>1, <3>1, <1>UpdateFields DEF BumpUpdate
  <2>3. PICK z \in Requests : /\ z = Goto(r, "bump_commit") /\ z.pc = "bump_commit"
                              /\ z.op = req[r].op /\ z.agent = a /\ z.flag = req[r].flag
    BY <2>1, <2>2, GotoFields, SMT DEF Points
  <2>4. PICK w : w = [x EXCEPT !.generation = @ + 1]
    OBVIOUS
  <2>5. /\ w \in Rows /\ w.transport = x.transport /\ w.generation = x.generation + 1
        /\ w.sequence = x.sequence
    BY <2>2, <2>4, BumpedRow, SMT
  <2>6. Updates(r, w, z)
    BY <2>2, <2>3, <2>4 DEF BumpUpdate
  <2>7. ASSUME row(a)' = w, req'[r] = z, held' = held, ~lost PROVE Advancing(r)'
    <3>1. req[r].op = "revoke" => (req[r].flag <=> x.transport = "site_relay")
      BY <2>1, <2>2, <2>7 DEF FenceInv, Fencing, Advancing
    <3>2. PICK g \in Int : g = w.generation /\ g > x.generation
      BY <2>2, <2>5, SMT
    <3>3. AllBehind(a, g)'
      <4>1. \A q \in Slots \ {r} : req'[q] = req[q]
        BY <2>6, OnlyThis DEF Updates, Writes
      <4>2. ~Claiming(r, a)'
        BY <2>3, <2>7 DEF Claiming
      <4>3. row(a) # NULL
        BY <2>2, NoneIsNoValue
      <4> QED BY <2>2, <2>7, <3>2, <4>1, <4>2, <4>3, <1>NewerGeneration
    <3> QED BY <2>1, <2>3, <2>5, <2>7, <3>1, <3>2, <3>3 DEF Advancing
  <2> QED BY <2>2, <2>3, <2>5, <2>6, <2>7, <1>UpdateFence, SMT
(* A presence event with a newer sequence bumps the generation with it.     *)
<1>PresenceFence. ASSUME apply_presence_event(r)
                  PROVE  FenceInv'
  <2> USE <1>PresenceFence
  <2>1. Open(r) /\ req[r].op = "event"
    BY DEF apply_presence_event, At, Open
  <2>2. PICK a \in Agents, s \in SeqNumbers, m \in Messages, x \in Rows :
           /\ a = req[r].agent /\ s = req[r].seq /\ m = sent[a][s] /\ x = row(a)
           /\ x.generation \in Int /\ x.sequence \in Int /\ s \in Int
    <3>1. Subject(req[r]) /\ req[r].agent \in Agents /\ req[r].seq \in SeqNumbers
      BY <2>1, OpenRequest DEF Subject
    <3>2. sent[req[r].agent][req[r].seq] \in Messages
      <4>1. sent[req[r].agent][req[r].seq] # NULL
        BY <2>1, <3>1 DEF Subject
      <4>2. sent \in [Agents -> [SeqNumbers -> Messages \union {NULL}]]
        BY DEF RegInv, RegType
      <4> QED BY <3>1, <4>1, <4>2
    <3> QED BY <2>1, <3>1, <3>2, <1>UpdateFields, Numbers, NoneIsNobody
  <2>3. PICK newer \in BOOLEAN : newer = (x.sequence < s)
    <3>1. (x.sequence < s) \in BOOLEAN
      BY <2>2, SMT
    <3> QED BY <3>1
  <2>4. PICK w : w = IF newer THEN PresenceRow(x, s, m.state) ELSE x
    OBVIOUS
  <2>5. /\ w \in Rows /\ w.transport = x.transport
        /\ newer => w.sequence = s /\ w.generation = x.generation + 1
        /\ ~newer => w = x
    <3>1. newer => x.generation < MaxGeneration
      BY <2>2, <2>3 DEF apply_presence_event
    <3>2. m.state \in AgentStates
      BY MessageFields
    <3> QED BY <2>4, <3>1, <3>2, PresenceRowFields
  <2>6. PICK v \in Requests : /\ v = Goto(r, "bump_commit") /\ v.pc = "bump_commit" /\ v.op = "event"
                              /\ v.agent = a /\ v.seq = s
    BY <2>1, <2>2, GotoFields, SMT DEF Points
  <2>7. PICK z : z = [v EXCEPT !.flag = newer]
    OBVIOUS
  <2>8. z \in Requests /\ z.flag = newer
    BY <2>7 DEF Requests
  <2>9. z.pc = "bump_commit" /\ z.op = "event" /\ z.agent = a /\ z.seq = s
    BY <2>6, <2>7 DEF Requests
  <2>10. Updates(r, w, z)
    BY <2>2, <2>3, <2>4, <2>6, <2>7 DEF apply_presence_event
  <2>11. w.generation >= x.generation /\ w.sequence >= x.sequence
    <3>1. newer => x.sequence < s
      BY <2>3
    <3> QED BY <2>2, <2>5, <3>1, SMT
  <2>12. ASSUME row(a)' = w, req'[r] = z, held' = held, ~lost PROVE Advancing(r)'
    <3>1. CASE newer
      <4>1. PICK g \in Int : g = w.generation /\ g > x.generation
        BY <2>2, <2>5, <3>1, SMT
      <4>2. AllBehind(a, g)'
        <5>1. \A q \in Slots \ {r} : req'[q] = req[q]
          BY <2>10, OnlyThis DEF Updates, Writes
        <5>2. ~Claiming(r, a)'
          BY <2>9, <2>12 DEF Claiming
        <5>3. row(a) # NULL
          BY <2>2, NoneIsNoValue
        <5> QED BY <2>2, <2>12, <4>1, <5>1, <5>2, <5>3, <1>NewerGeneration
      <4>3. Behind(a, s, g)'
        BY <4>2 DEF Behind, AllBehind
      <4>4. Passed(a, s)'
        BY <2>2, <2>5, <2>12, <3>1, NoneIsNoValue, SMT DEF Passed
      <4> QED BY <2>9, <2>12, <4>1, <4>3, <4>4 DEF Advancing
    <3>2. CASE ~newer
      <4>1. ~z.flag
        BY <2>8, <3>2
      <4> QED BY <2>9, <2>12, <4>1 DEF Advancing
    <3> QED BY <3>1, <3>2
  <2> QED BY <2>2, <2>5, <2>8, <2>9, <2>10, <2>11, <2>12, <1>UpdateFence
<1> QED BY <1>InsertFence, <1>ReportFence, <1>RevokeFence, <1>BumpFence, <1>PresenceFence

-----------------------------------------------------------------------------

-----------------------------------------------------------------------------
(* The commits and reads on the way to the broker, and a revocation before. *)
LEMMA AdvanceFences ==
    ASSUME RegInv, RegInv', FenceInv, NEW r \in Slots
    PROVE  \/ BumpCommit(r) \/ BumpSelect(r) \/ PresenceSelect(r)
           \/ (\E a \in Agents : revoke_agent(r, a)) \/ RevokeCommit(r) \/ UnassignDelete(r) \/ UnassignCommit(r)
           => FenceInv'
(* The commits and the reads of the fence.                                  *)
<1>BumpCommitFence. ASSUME BumpCommit(r)
                    PROVE  FenceInv'
  <2> USE <1>BumpCommitFence
  <2>1. PICK x \in Requests : x = req[r] /\ Open(r) /\ x.pc = "bump_commit" /\ Control(x.op, x.pc)
    BY OpenRequest DEF BumpCommit, AtAny, Open
  <2>2. PICK z \in Requests : /\ z = Goto(r, IF req[r].op = "event" THEN "presence_select"
                                             ELSE "bump_select")
                              /\ z.op = x.op /\ z.agent = x.agent /\ z.seq = x.seq
                              /\ z.flag = x.flag
                              /\ z.pc = IF x.op = "event" THEN "presence_select" ELSE "bump_select"
    BY <2>1, GotoFields, SMT DEF Points
  <2>3. /\ req' = [req EXCEPT ![r] = z] /\ disk' = db /\ db' = db
        /\ fence' = fence /\ held' = held /\ lost' = lost /\ acked' = acked
    BY <2>2 DEF BumpCommit, Commits, memory, history
  <2>4. req'[r] = z /\ \A q \in Slots \ {r} : req'[q] = req[q]
    BY <2>3, OnlyThis
  <2>5. z.op # "claim"
    BY <2>1, <2>2 DEF Control
  <2>6. \A a \in Agents : Authorisations(a)' \subseteq Authorisations(a)
    BY <2>3, <2>4, <2>5, NoNewAuthorisation DEF Claiming
  <2>7. ASSUME ~lost PROVE Advancing(r)'
    <3>1. Advancing(r)
      BY <2>7 DEF FenceInv, Fencing
    <3>2. CASE x.op = "event"
      <4>0. PICK a \in Agents : a = x.agent
        BY <2>1, <3>2, OpenRequest DEF Subject
      <4>1. PICK s, g : a = x.agent /\ s = x.seq /\ g = row(a).generation
        BY <4>0
      <4>2. x.flag => Passed(a, s) /\ Behind(a, s, g)
        BY <2>1, <3>1, <3>2, <4>1 DEF Advancing
      <4>3. (Passed(a, s) => Passed(a, s)' /\ PassedOnDisk(a, s)') /\ row(a)' = row(a)
        BY <2>3 DEF Passed, PassedOnDisk, row
      <4>4. Behind(a, s, g) => Behind(a, s, g)'
        BY <2>6 DEF Behind
      <4> QED BY <2>2, <2>4, <3>2, <4>1, <4>2, <4>3, <4>4 DEF Advancing
    <3>3. CASE x.op = "revoke"
      <4>0. PICK a \in Agents : a = x.agent
        BY <2>1, <3>3, OpenRequest DEF Subject
      <4>1. PICK g : a = x.agent /\ g = row(a).generation
        BY <4>0
      <4>2. (x.flag <=> row(a).transport = "site_relay") /\ AllBehind(a, g)
        BY <2>1, <3>1, <3>3, <4>1 DEF Advancing
      <4>3. AllBehind(a, g)' /\ row(a)' = row(a)
        BY <2>3, <2>6, <4>2 DEF AllBehind, row
      <4> QED BY <2>2, <2>4, <3>3, <4>1, <4>2, <4>3 DEF Advancing
    <3>4. CASE x.op \notin {"event", "revoke"}
      BY <2>2, <2>4, <3>4 DEF Advancing
    <3> QED BY <3>2, <3>3, <3>4
  <2>8. NewAnswers
    BY <2>3 DEF NewAnswers
  <2> QED BY <2>3, <2>5, <2>7, <2>8, PlainFence
<1>SelectFence. ASSUME BumpSelect(r) \/ PresenceSelect(r)
                PROVE  FenceInv'
  <2> USE <1>SelectFence
  <2>1. PICK x \in Requests : /\ x = req[r] /\ Open(r) /\ Control(x.op, x.pc)
                              /\ \/ x.pc = "bump_select"
                                 \/ x.op = "event" /\ x.pc = "presence_select"
    BY OpenRequest DEF BumpSelect, PresenceSelect, AtAny, At, Open
  <2>2. x.op \in {"revoke", "heartbeat", "sweep", "event"} /\ (x.op = "event" => x.pc = "presence_select")
    BY <2>1 DEF Control, Bumping
  <2>3. PICK a \in Agents, g \in Generations :
           a = x.agent /\ row(a) # NULL /\ g = row(a).generation /\ g \in Int
    <3>1. x.agent \in Agents /\ row(x.agent) # NULL
      BY <2>1, <2>2, OpenRequest DEF Subject
    <3> QED BY <3>1, RowsAreNumbers
  <2>4. PICK w \in Requests : /\ w = Goto(r, "invalidate") /\ w.pc = "invalidate" /\ w.op = x.op
                              /\ w.agent = a /\ w.seq = x.seq /\ w.flag = x.flag
    <3>1. "invalidate" \in Points
      BY DEF Points
    <3> QED BY <2>1, <2>3, <3>1, GotoFields
  <2>5. PICK z : z = [w EXCEPT !.got = g]
    OBVIOUS
  <2>6. /\ z.pc = "invalidate" /\ z.op = x.op /\ z.agent = a /\ z.seq = x.seq /\ z.flag = x.flag
        /\ z.got = g
    BY <2>4, <2>5, GotGeneration, SMT
  <2>7. /\ req' = [req EXCEPT ![r] = z] /\ disk' = disk /\ db' = db
        /\ fence' = fence /\ held' = held /\ lost' = lost /\ acked' = acked
    BY <2>1, <2>3, <2>4, <2>5 DEF BumpSelect, PresenceSelect, Reads, store, memory, history
  <2>8. req'[r] = z /\ \A q \in Slots \ {r} : req'[q] = req[q]
    BY <2>7, OnlyThis
  <2>9. Authorisations(a)' \subseteq Authorisations(a) /\ row(a)' = row(a)
    BY <2>6, <2>7, <2>8, NoNewAuthorisation DEF Claiming, row
  <2>10. ASSUME ~lost PROVE Advancing(r)'
    <3>1. Advancing(r)
      BY <2>10 DEF FenceInv, Fencing
    <3>2. g <= row(a)'.generation
      <4>1. g \in Int /\ row(a)'.generation = g
        BY <2>3, <2>9
      <4> QED BY <4>1, SMT
    <3>3. CASE x.op = "event"
      <4>1. PICK s : s = x.seq
        OBVIOUS
      <4>2. x.flag => Passed(a, s) /\ PassedOnDisk(a, s) /\ Behind(a, s, g)
        BY <2>1, <2>2, <2>3, <3>1, <3>3, <4>1 DEF Advancing
      <4>3. (Passed(a, s) => Passed(a, s)') /\ (PassedOnDisk(a, s) => PassedOnDisk(a, s)')
        BY <2>7 DEF Passed, PassedOnDisk, row
      <4>4. Behind(a, s, g) => Behind(a, s, g)'
        BY <2>9 DEF Behind
      <4> QED BY <2>6, <2>8, <3>2, <3>3, <4>1, <4>2, <4>3, <4>4 DEF Advancing
    <3>4. CASE x.op = "revoke"
      <4>1. (x.flag <=> row(a).transport = "site_relay") /\ AllBehind(a, g)
        BY <2>1, <2>3, <3>1, <3>4 DEF Advancing
      <4>2. AllBehind(a, g)'
        BY <2>9, <4>1 DEF AllBehind
      <4> QED BY <2>6, <2>8, <2>9, <3>2, <3>4, <4>1, <4>2 DEF Advancing
    <3>5. CASE x.op \notin {"event", "revoke"}
      BY <2>6, <2>8, <3>2, <3>5 DEF Advancing
    <3> QED BY <3>3, <3>4, <3>5
  <2>11. NewAnswers
    BY <2>7 DEF NewAnswers
  <2>12. ~Pending(r)
    BY <2>1 DEF Pending
  <2> QED BY <2>6, <2>7, <2>10, <2>11, <2>12, PlainFence
(* The route of a revocation knows the transport of its agent.              *)
<1>RevokeOnward. ASSUME NEW z, req' = [req EXCEPT ![r] = z],
                        z.op = "revoke", z.pc \notin Advances, NEW a \in Agents, z.agent = a,
                        ~lost => (z.flag <=> row(a).transport = "site_relay"),
                        fence' = fence, held' = held, lost' = lost, db'.agents = db.agents,
                        disk'.agents = db.agents \/ (disk'.agents = disk.agents /\ ~Pending(r)),
                        acked' = acked
                 PROVE  FenceInv'
  <2> USE <1>RevokeOnward
  <2>1. req'[r] = z /\ row(a)' = row(a)
    BY OnlyThis DEF row
  <2>2. ~lost => Advancing(r)'
    BY <2>1 DEF Advancing, Advances
  <2>3. NewAnswers
    BY DEF NewAnswers
  <2> QED BY <2>2, <2>3, PlainFence
<1>RevokeFences. ASSUME \/ \E a \in Agents : revoke_agent(r, a)
                        \/ RevokeCommit(r) \/ UnassignDelete(r) \/ UnassignCommit(r)
                 PROVE  FenceInv'
  <2> USE <1>RevokeFences
  <2>1. ASSUME NEW a \in Agents, revoke_agent(r, a) PROVE FenceInv'
    <3>1. PICK f \in BOOLEAN : f = (row(a).transport = "site_relay")
      OBVIOUS
    <3>2. PICK w \in Requests : w = For("revoke", "revoke", a) /\ w.op = "revoke"
                                /\ w.pc = "revoke" /\ w.agent = a
      <4>1. "revoke" \in Operations /\ "revoke" \in Points
        BY DEF Operations, Points
      <4> QED BY <4>1, ForFields, SMT
    <3>3. PICK z : z = [w EXCEPT !.flag = f]
      OBVIOUS
    <3>4. z.flag = f
      BY <3>3 DEF Requests
    <3>5. z.op = "revoke" /\ z.pc = "revoke" /\ z.agent = a
      BY <3>2, <3>3 DEF Requests
    <3>6. Reads(r, z) /\ ~Pending(r)
      BY <2>1, <3>1, <3>2, <3>3 DEF revoke_agent, Pending
    <3>7. z.flag <=> row(a).transport = "site_relay"
      <4>1. f <=> row(a).transport = "site_relay"
        BY <3>1
      <4> QED BY <3>4, <4>1, SMT
    <3> QED BY <3>5, <3>6, <3>7, <1>RevokeOnward DEF Reads, store, memory, history, Advances
  <2>2. ASSUME RevokeCommit(r) \/ UnassignDelete(r) \/ UnassignCommit(r) PROVE FenceInv'
    <3>1. PICK x \in Requests : /\ x = req[r] /\ Open(r) /\ x.op = "revoke"
                                /\ x.pc \in {"revoke_commit", "unassign", "unassign_commit"}
      BY <2>2, OpenRequest DEF RevokeCommit, UnassignDelete, UnassignCommit, At, Open
    <3>2. PICK a \in Agents : a = x.agent /\ row(a) # NULL
      BY <3>1, OpenRequest DEF Subject
    <3>3. ~lost => (x.flag <=> row(a).transport = "site_relay")
      BY <3>1, <3>2 DEF FenceInv, Fencing, Advancing
    <3>4. ASSUME NEW p \in Points
          PROVE  LET z == Goto(r, p)
                 IN z.op = "revoke" /\ z.pc = p /\ z.agent = a /\ z.flag = x.flag
      BY <3>1, <3>2, GotoFields
    <3>5. CASE RevokeCommit(r)
      <4>1. PICK z : /\ z = Goto(r, "unassign") /\ z.op = "revoke" /\ z.pc = "unassign"
                     /\ z.agent = a /\ z.flag = x.flag
        BY <3>4, SMT DEF Points
      <4>2. ~lost => (z.flag <=> row(a).transport = "site_relay")
        BY <3>3, <4>1
      <4> QED BY <3>5, <4>1, <4>2, <1>RevokeOnward
           DEF RevokeCommit, Commits, memory, history, Advances
    <3>6. CASE UnassignDelete(r)
      <4>1. PICK z : /\ z = Goto(r, "unassign_commit") /\ z.op = "revoke"
                     /\ z.pc = "unassign_commit" /\ z.agent = a /\ z.flag = x.flag
        BY <3>4, SMT DEF Points
      <4>2. ~lost => (z.flag <=> row(a).transport = "site_relay")
        BY <3>3, <4>1
      <4>3. db'.agents = db.agents
        BY <3>6 DEF UnassignDelete, Writes, RegInv, RegType, Databases
      <4> QED BY <3>6, <4>1, <4>2, <4>3, <1>RevokeOnward
           DEF UnassignDelete, At, Pending, Writes, memory, history, Advances
    <3>7. CASE UnassignCommit(r) /\ x.flag
      <4>1. PICK z : /\ z = Goto(r, "bump") /\ z.op = "revoke" /\ z.pc = "bump"
                     /\ z.agent = a /\ z.flag = x.flag
        BY <3>4, SMT DEF Points
      <4>2. ~lost => (z.flag <=> row(a).transport = "site_relay")
        BY <3>3, <4>1
      <4> QED BY <3>1, <3>7, <4>1, <4>2, <1>RevokeOnward
           DEF UnassignCommit, Commits, memory, history, Advances
    <3>8. CASE UnassignCommit(r) /\ ~x.flag
      <4>1. /\ req' = [req EXCEPT ![r] = DONE] /\ disk' = db /\ db' = db
            /\ fence' = fence /\ held' = held /\ lost' = lost
            /\ acked' = acked \union {<<"revoke", a>>}
        BY <3>1, <3>2, <3>8 DEF UnassignCommit, Commits, Answers, memory
      <4>2. req'[r] = DONE /\ \A q \in Slots \ {r} : req'[q] = req[q]
        BY <4>1, OnlyThis
      <4>3. ASSUME ~lost PROVE NewAnswers
        <5>1. Authorisations(a) = {}
          BY <3>3, <3>8, <4>3 DEF FenceInv, Fencing, Authorised
        <5>2. Authorisations(a)' = {} /\ held'[a] = {}
          BY <4>1, <4>2, <5>1, NoNewAuthorisation DEF Claiming, Open, Authorisations
        <5>3. RevokeFenced(a)'
          BY <5>2 DEF RevokeFenced, AllBehind
        <5>4. \A b, s : <<"event", b, s>> # <<"revoke", a>>
          OBVIOUS
        <5> QED BY <4>1, <5>3, <5>4 DEF NewAnswers
      <4>4. Advancing(r)'
        BY <4>2 DEF Advancing, Open
      <4> QED BY <4>1, <4>3, <4>4, PlainFence
    <3> QED BY <2>2, <3>5, <3>6, <3>7, <3>8
  <2> QED BY <2>1, <2>2
<1> QED BY <1>BumpCommitFence, <1>SelectFence, <1>RevokeFences

-----------------------------------------------------------------------------
(* The calls of the broker, and the route that a claim resolves before.     *)
LEMMA BrokerFences ==
    ASSUME RegInv, RegInv', FenceInv, NEW r \in Slots
    PROVE  ClaimRoute(r) \/ BrokerClaim(r) \/ invalidate_agent(r)
           => FenceInv'
(* The claims and the fence itself.                                         *)

(* The route of a claim resolves the row as it is.                          *)
<1>RouteFence. ASSUME ClaimRoute(r)
               PROVE  FenceInv'
  <2> USE <1>RouteFence
  <2>1. PICK x \in Requests : x = req[r] /\ Open(r) /\ x.op = "claim" /\ x.pc = "route"
    BY OpenRequest DEF ClaimRoute, At, Open
  <2>2. PICK a \in Agents : a = x.agent /\ row(a) # NULL
    BY <2>1, OpenRequest DEF Subject
  <2>3. CASE site_route(a) = NULL
    <3>1. Reads(r, DONE) /\ ~Pending(r)
      BY <2>1, <2>2, <2>3 DEF ClaimRoute, Pending
    <3> QED BY <3>1, CalmRead DEF Calm
  <2>4. CASE site_route(a) # NULL
    <3>1. authenticate_agent(a) /\ row(a).transport = "site_relay" /\ site_route(a) = row(a).generation
      BY <2>4 DEF site_route
    <3>2. PICK z : z = [Goto(r, "claim") EXCEPT !.got = site_route(a), !.seq = row(a).sequence]
      OBVIOUS
    <3>3. PICK w \in Requests : w = Goto(r, "claim") /\ w.op = "claim" /\ w.pc = "claim" /\ w.agent = a
      BY <2>1, <2>2, GotoFields, SMT DEF Points
    <3>4. /\ z.op = "claim" /\ z.pc = "claim" /\ z.agent = a /\ z.got = row(a).generation
          /\ z.seq = row(a).sequence
      BY <3>1, <3>2, <3>3 DEF Requests
    <3>5. Reads(r, z)
      BY <2>1, <2>2, <2>4, <3>2 DEF ClaimRoute
    <3>6. /\ req'[r] = z /\ (\A q \in Slots \ {r} : req'[q] = req[q])
          /\ UNCHANGED <<db, disk, fence, held, acked, lost>>
      BY <3>5, OnlyThis DEF Reads, store, memory, history
    <3>7. FenceType' /\ NewAnswers /\ Advancing(r)'
      BY <3>4, <3>6 DEF FenceInv, FenceType, NewAnswers, Advancing
    <3>8. RowsPending'
      <4>1. \A q \in Slots : Pending(q) => Pending(q)'
        BY <2>1, <3>6 DEF Pending
      <4> QED BY <3>6, <4>1 DEF FenceInv, RowsPending
    <3>9. ASSUME NEW b \in Agents PROVE Rising(b)
      <4>1. RisingRow(b)
        BY <3>6, SameRowRises DEF row
      <4>2. ASSUME NEW h \in Authorisations(b)' PROVE h \in Authorisations(b) \/ Resolved(b, h)
        <5>1. \/ h \in held[b]
              \/ \E q \in Slots : /\ Claiming(q, b)'
                                  /\ h = [generation |-> req'[q].got, sequence |-> req'[q].seq]
          BY <3>6, <4>2 DEF Authorisations
        <5>2. ASSUME NEW q \in Slots \ {r}, Claiming(q, b)',
                     h = [generation |-> req'[q].got, sequence |-> req'[q].seq]
              PROVE  h \in Authorisations(b)
          BY <3>6, <5>2 DEF Authorisations, Claiming, Open
        <5>3. ASSUME Claiming(r, b)', h = [generation |-> req'[r].got, sequence |-> req'[r].seq]
              PROVE  Resolved(b, h)
          BY <3>1, <3>4, <3>6, <5>3 DEF Resolved, Claiming
        <5> QED BY <5>1, <5>2, <5>3 DEF Authorisations
      <4> QED BY <3>6, <4>1, <4>2 DEF Rising, RisingFence
    <3>10. Rise({r})
      BY <3>6, <3>9 DEF Rise
    <3> QED BY <3>6, <3>7, <3>8, <3>10, FenceKeeps, SMT
  <2> QED BY <2>3, <2>4
(* A hold for an agent is an authorisation, and so is a claim.              *)
<1>ClaimAuthorises. ASSUME NEW a \in Agents, Claiming(r, a)
                    PROVE  [generation |-> req[r].got, sequence |-> req[r].seq] \in Authorisations(a)
  BY <1>ClaimAuthorises DEF Authorisations
(* broker.claim takes what was authorised, unless the fence is past it.     *)
<1>ClaimFence. ASSUME BrokerClaim(r)
               PROVE  FenceInv'
  <2> USE <1>ClaimFence
  <2>1. PICK x \in Requests : x = req[r] /\ Open(r) /\ x.op = "claim" /\ x.pc = "claim"
    BY OpenRequest DEF BrokerClaim, At, Open
  <2>2. PICK a \in Agents : a = x.agent /\ Claiming(r, a)
    BY <2>1, OpenRequest DEF Subject, Claiming
  <2>3. PICK h : h = [generation |-> x.got, sequence |-> x.seq]
    OBVIOUS
  <2>4. /\ h \in Authorisations(a) /\ h \in Holds /\ h.generation = x.got
        /\ x.got \in Generations /\ x.got \in Int /\ fence[a] \in Int
    BY <2>1, <2>2, <2>3, <1>ClaimAuthorises, AuthorisationNumbers, OpenRequest, Numbers
      DEF FenceInv, FenceType
  <2>5. /\ req'[r] = DONE /\ (\A q \in Slots \ {r} : req'[q] = req[q])
        /\ UNCHANGED <<db, disk, acked, lost>>
    BY OnlyThis DEF BrokerClaim, store, history
  <2>6. /\ \/ fence' = fence /\ held' = held
           \/ /\ x.got >= fence[a] /\ fence' = [fence EXCEPT ![a] = x.got]
              /\ held' = [held EXCEPT ![a] = @ \union {h}]
        /\ held \in [Agents -> SUBSET Holds] /\ fence \in [Agents -> Generations]
    BY <2>1, <2>2, <2>3, <2>4, SMT DEF BrokerClaim, FenceInv, FenceType, broker
  <2>7. FenceType' /\ NewAnswers /\ Advancing(r)'
    <3>1. FenceType'
      BY <2>4, <2>5, <2>6, SMT DEF FenceInv, FenceType
    <3> QED BY <2>5, <3>1 DEF NewAnswers, Advancing, Open
  <2>8. RowsPending'
    <3>1. \A q \in Slots : Pending(q) => Pending(q)'
      BY <2>1, <2>5 DEF Pending
    <3> QED BY <2>5, <3>1 DEF FenceInv, RowsPending
  <2>9. ASSUME ~lost, NEW b \in Agents PROVE Rising(b)
    <3>1. RisingRow(b)
      BY <2>5, SameRowRises DEF row
    <3>2. /\ RisingFence(b)
          /\ \A k \in held'[b] : k \in held[b] \/ (k \in Authorisations(b) /\ k.generation >= fence[b])
      <4>1. Authorised(a)
        BY <2>9 DEF FenceInv, Fencing
      <4>2. row(a) # NULL /\ x.got <= row(a).generation
        BY <2>4, <4>1 DEF Authorised
      <4>3. CASE b = a
        BY <2>4, <2>6, <4>2, <4>3, SMT DEF RisingFence
      <4>4. CASE b # a
        BY <2>6, <4>4 DEF RisingFence
      <4> QED BY <4>3, <4>4
    <3>3. ASSUME NEW k \in Authorisations(b)' PROVE k \in Authorisations(b)
      <4>1. \/ k \in held'[b]
            \/ \E q \in Slots : /\ Claiming(q, b)'
                                /\ k = [generation |-> req'[q].got, sequence |-> req'[q].seq]
        BY <3>3 DEF Authorisations
      <4>2. ASSUME NEW q \in Slots, Claiming(q, b)',
                   k = [generation |-> req'[q].got, sequence |-> req'[q].seq]
            PROVE  k \in Authorisations(b)
        BY <2>5, <4>2 DEF Authorisations, Claiming, Open
      <4> QED BY <3>2, <4>1, <4>2 DEF Authorisations
    <3> QED BY <2>5, <3>1, <3>2, <3>3 DEF Rising
  <2>10. ~lost => Rise({r})
    BY <2>5, <2>9 DEF Rise
  <2> QED BY <2>5, <2>7, <2>8, <2>10, FenceKeeps, SMT
(* broker.invalidate_agent: what is behind the generation read goes.        *)
<1>InvalidateFence. ASSUME invalidate_agent(r)
                    PROVE  FenceInv'
  <2> USE <1>InvalidateFence
  <2>1. PICK x \in Requests : /\ x = req[r] /\ Open(r) /\ x.pc = "invalidate"
                              /\ x.op \in {"revoke", "heartbeat", "event", "sweep"}
    <3>1. Open(r) /\ req[r].pc = "invalidate"
      BY DEF invalidate_agent, AtAny, Open
    <3>2. req[r] \in Requests /\ Control(req[r].op, req[r].pc)
      BY <3>1, OpenRequest
    <3> QED BY <3>1, <3>2 DEF Control
  <2>2. PICK a \in Agents : a = x.agent /\ row(a) # NULL
    BY <2>1, OpenRequest DEF Subject
  <2>3. PICK g \in Int : g = x.got /\ g \in Generations
    BY <2>1, OpenRequest, Numbers
  <2>4. PICK z : req' = [req EXCEPT ![r] = z] /\ Calm(z)
    <3>1. x.op = "sweep" => Calm(Goto(r, "next"))
      BY <2>1, GotoCalm DEF Points, Advances
    <3> QED BY <2>1, <3>1 DEF invalidate_agent, Calm, RegInv, RegType
  <2>5. /\ req'[r] = z /\ (\A q \in Slots \ {r} : req'[q] = req[q])
        /\ db' = db /\ disk' = disk
    BY <2>4, OnlyThis DEF invalidate_agent, store
  <2>6. /\ fence' = [fence EXCEPT ![a] = IF g > @ THEN g ELSE @]
        /\ held' = [held EXCEPT ![a] = {h \in @ : h.generation >= g}]
        /\ held \in [Agents -> SUBSET Holds] /\ fence \in [Agents -> Generations]
    BY <2>1, <2>2, <2>3 DEF invalidate_agent, FenceInv, FenceType
  <2>7. /\ lost' = lost
        /\ \/ acked' = acked
           \/ x.op = "revoke" /\ acked' = acked \union {<<"revoke", a>>}
           \/ x.op = "event" /\ x.flag /\ acked' = acked \union {<<"event", a, x.seq>>}
    BY <2>1, <2>2 DEF invalidate_agent, Answers, history
  <2>8. FenceType' /\ Advancing(r)'
    <3>1. FenceType'
      BY <2>3, <2>6, <2>7 DEF FenceInv, FenceType
    <3> QED BY <2>5, <2>4, <3>1 DEF Advancing, Calm, Advances, Open
  <2>9. RowsPending'
    <3>1. \A q \in Slots : Pending(q) => Pending(q)'
      BY <2>1, <2>5 DEF Pending
    <3> QED BY <2>5, <3>1 DEF FenceInv, RowsPending
  <2>10. /\ fence[a] \in Int /\ fence'[a] \in Int /\ fence'[a] >= g /\ fence'[a] >= fence[a]
         /\ held'[a] = {h \in held[a] : h.generation >= g} /\ fence'[a] \in {fence[a], g}
         /\ \A b \in Agents \ {a} : fence'[b] = fence[b] /\ held'[b] = held[b]
         /\ \A b \in Agents : held'[b] \subseteq held[b]
    <3>1. fence[a] \in Int
      BY <2>6, Numbers
    <3> QED BY <2>3, <2>6, <3>1, SMT
  <2>11. \A b \in Agents : Authorisations(b)' \subseteq Authorisations(b)
    BY <2>4, <2>5, <2>10, NoNewAuthorisation DEF Claiming, Calm, Advances, Open
  <2>12. ASSUME ~lost PROVE Rise({r}) /\ NewAnswers
    <3>1. Advancing(r)
      BY <2>12 DEF FenceInv, Fencing
    <3>2. g <= row(a).generation
      BY <2>1, <2>2, <2>3, <3>1 DEF Advancing
    <3>3. ASSUME NEW b \in Agents PROVE Rising(b)
      <4>1. RisingRow(b)
        BY <2>5, SameRowRises DEF row
      <4>2. RisingFence(b)
        BY <2>2, <2>10, <3>2 DEF RisingFence
      <4> QED BY <2>5, <2>10, <2>11, <4>1, <4>2 DEF Rising
    <3>4. ASSUME x.op = "revoke" PROVE RevokeFenced(a)'
      <4>1. AllBehind(a, g)
        BY <2>1, <2>2, <2>3, <3>1, <3>4 DEF Advancing
      <4>2. \A h \in Authorisations(a) : h.generation \in Int /\ h.generation < g
        BY <4>1, AuthorisationNumbers, Numbers DEF AllBehind, FenceInv
      <4>3. held'[a] = {}
        <5>1. held[a] \subseteq Authorisations(a)
          BY DEF Authorisations
        <5> QED BY <2>3, <2>10, <4>2, <5>1, SMT
      <4>4. \A h \in Authorisations(a)' : h.generation < fence'[a]
        BY <2>10, <2>11, <4>2, SMT
      <4> QED BY <4>3, <4>4 DEF RevokeFenced, AllBehind
    <3>5. ASSUME x.op = "event", x.flag PROVE EventFenced(a, x.seq)'
      <4>0. PICK s \in Int : s = x.seq
        BY <2>1, <3>5, OpenRequest, Numbers DEF Subject
      <4>1. Passed(a, s) /\ PassedOnDisk(a, s) /\ Behind(a, s, g)
        BY <2>1, <2>2, <2>3, <3>1, <3>5, <4>0 DEF Advancing
      <4>2. \A h \in Authorisations(a) : /\ h.generation \in Int /\ h.sequence \in Int
                                         /\ h.sequence < s => h.generation < g
        BY <4>1, AuthorisationNumbers, Numbers DEF Behind, FenceInv
      <4>3. \A h \in held'[a] : h.sequence >= s
        <5>1. held[a] \subseteq Authorisations(a)
          BY DEF Authorisations
        <5> QED BY <2>3, <2>10, <4>0, <4>2, <5>1, SMT
      <4>4. \A h \in Authorisations(a)' : h.sequence < s => h.generation < fence'[a]
        BY <2>10, <2>11, <4>2, SMT
      <4>5. Passed(a, s)' /\ PassedOnDisk(a, s)'
        BY <2>5, <4>1 DEF Passed, PassedOnDisk, row
      <4>6. EventFenced(a, s)'
        BY <4>3, <4>4, <4>5 DEF EventFenced, Behind
      <4> QED BY <4>0, <4>6
    <3>6. NewAnswers
      <4>1. \A b, c, s : <<"event", b, s>> # <<"revoke", c>>
        OBVIOUS
      <4> QED BY <2>7, <3>4, <3>5, <4>1, SMT DEF NewAnswers
    <3> QED BY <2>5, <3>3, <3>6 DEF Rise
  <2> QED BY <2>7, <2>8, <2>9, <2>12, FenceKeeps, SMT
<1> QED BY <1>RouteFence, <1>ClaimFence, <1>InvalidateFence

-----------------------------------------------------------------------------
(* Holds end, and stuttering.                                               *)
LEMMA EndFence ==
    ASSUME RegInv, RegInv', FenceInv, UNCHANGED <<db, disk, req, fence, acked, lost>>,
           held' \in [Agents -> SUBSET Holds], \A a \in Agents : held'[a] \subseteq held[a]
    PROVE  FenceInv'
<1>1. FenceType' /\ RowsPending' /\ NewAnswers
  BY DEF FenceInv, FenceType, RowsPending, Pending, NewAnswers
<1>2. ASSUME NEW a \in Agents PROVE Rising(a)
  <2>1. RisingRow(a)
    BY SameRowRises DEF row
  <2>2. Authorisations(a)' \subseteq Authorisations(a)
    BY DEF Authorisations, Claiming, Open
  <2> QED BY <2>1, <2>2 DEF Rising, RisingFence
<1>3. Rise({})
  BY <1>2 DEF Rise
<1> QED BY <1>1, <1>3, FenceKeeps, SMT

(* The rollback drops no row, or drops another request's write.             *)
LEMMA RollbackFence ==
    ASSUME RegInv, RegInv', FenceInv, NEW r \in Slots, RegisterRollback(r)
    PROVE  FenceInv'
<1>1. /\ Open(r) /\ req[r].pc = "rollback" /\ ~Pending(r)
      /\ req' = [req EXCEPT ![r] = DONE] /\ db' = disk /\ disk' = disk
      /\ fence' = fence /\ held' = held /\ acked' = acked
      /\ lost' = (lost \/ (db # disk /\ \E q \in Slots \ {r} : Pending(q)))
  BY DEF RegisterRollback, At, Open, Pending, memory
<1>2. req'[r] = DONE /\ \A q \in Slots \ {r} : req'[q] = req[q]
  BY <1>1, OnlyThis
<1>3. lost' \in BOOLEAN
  BY <1>1
<1>4. FenceType' /\ RowsPending'
  BY <1>1, <1>3 DEF FenceInv, FenceType, RowsPending
<1>5. ASSUME ~lost' PROVE ~lost /\ db.agents = disk.agents
  <2>1. ~lost /\ ~(db # disk /\ \E q \in Slots \ {r} : Pending(q))
    BY <1>1, <1>5
  <2> QED BY <1>1, <2>1 DEF FenceInv, RowsPending
<1>6. ASSUME ~lost' PROVE Rise({r}) /\ NewAnswers /\ Advancing(r)'
  <2>1. ASSUME NEW a \in Agents PROVE Rising(a)
    <3>1. row(a)' = row(a) /\ disk'.agents[a] = disk.agents[a]
      BY <1>1, <1>5, <1>6 DEF row
    <3>2. RisingRow(a)
      BY <3>1, SameRowRises
    <3>3. Authorisations(a)' \subseteq Authorisations(a)
      BY <1>1, <1>2, NoNewAuthorisation DEF Claiming, Open
    <3> QED BY <1>1, <3>1, <3>2, <3>3 DEF Rising, RisingFence
  <2> QED BY <1>1, <1>2, <2>1 DEF Rise, NewAnswers, Advancing, Open
<1> QED BY <1>4, <1>5, <1>6, FenceKeeps, SMT

(* After a restart the broker holds nothing and has no fence.               *)
LEMMA RestartFence ==
    ASSUME RegInv, RegInv', FenceInv, Restart
    PROVE  FenceInv'
<1>1. /\ db' = disk /\ disk' = disk /\ acked' = acked /\ lost' = lost
      /\ fence' = [a \in Agents |-> 0] /\ held' = [a \in Agents |-> {}]
      /\ \A r \in Slots : ~Open(r)'
  BY DEF Restart, history, Open
<1>2. FenceType' /\ RowsPending'
  BY <1>1, Numbers DEF FenceInv, FenceType, RowsPending
<1>3. \A a \in Agents : Authorisations(a)' = {} /\ held'[a] = {} /\ fence'[a] = 0
  BY <1>1 DEF Authorisations, Claiming
<1>4. ASSUME NEW a \in Agents PROVE Authorised(a)'
  <2>1. row(a)' # NULL => row(a)'.generation \in Int /\ row(a)'.generation >= 0
    BY RowsAreNumbers, Numbers
  <2> QED BY <1>3, <2>1 DEF Authorised
<1>5. ASSUME ~lost, NEW a \in Agents PROVE Evicted(a)'
  <2>1. ASSUME NEW s \in SeqNumbers, <<"event", a, s>> \in acked PROVE EventFenced(a, s)'
    <3>1. PassedOnDisk(a, s)
      BY <1>5, <2>1 DEF FenceInv, Fencing, Evicted, EventFenced
    <3>2. Passed(a, s)' /\ PassedOnDisk(a, s)'
      BY <1>1, <3>1 DEF Passed, PassedOnDisk, row
    <3> QED BY <1>3, <3>2 DEF EventFenced, Behind
  <2>2. RevokeFenced(a)'
    BY <1>3 DEF RevokeFenced, AllBehind
  <2> QED BY <1>1, <2>1, <2>2 DEF Evicted
<1>6. \A r \in Slots : Advancing(r)'
  BY <1>1 DEF Advancing
<1> QED BY <1>1, <1>2, <1>4, <1>5, <1>6 DEF FenceInv, Fencing

(* The broker starts with a claim of each site agent, at generation 0.      *)
LEMMA FenceInitial ==
    ASSUME RegInv, RegistryInit
    PROVE  FenceInv
<1>1. /\ disk = db /\ acked = {} /\ lost = FALSE /\ req = [r \in Slots |-> NULL]
      /\ fence = [a \in Agents |-> 0]
      /\ held = [a \in Agents |-> IF site_route(a) = NULL THEN {}
                                  ELSE {[generation |-> 0, sequence |-> -1]}]
  BY DEF RegistryInit
<1>2. [generation |-> 0, sequence |-> -1] \in Holds
  BY Numbers DEF Holds
<1>3. FenceType /\ RowsPending
  <2>1. held \in [Agents -> SUBSET Holds]
    BY <1>1, <1>2
  <2> QED BY <1>1, <2>1, Numbers DEF FenceType, RowsPending
<1>4. ASSUME NEW a \in Agents PROVE Authorised(a) /\ Evicted(a)
  <2>1. Authorisations(a) = held[a] /\ fence[a] = 0
    BY <1>1 DEF Authorisations, Claiming, Open
  <2>2. row(a) # NULL => row(a).generation \in Int /\ row(a).generation >= 0
    <3>1. db \in Databases
      BY DEF RegInv, RegType
    <3> QED BY <3>1, RowNumbers, Numbers DEF row
  <2>3. \A h \in held[a] : /\ row(a) # NULL /\ row(a).transport = "site_relay"
                           /\ h.generation = 0
    BY <1>1, SMT DEF site_route, authenticate_agent
  <2> QED BY <1>1, <2>1, <2>2, <2>3 DEF Authorised, Evicted
<1>5. \A r \in Slots : Advancing(r)
  BY <1>1 DEF Advancing, Open
<1> QED BY <1>3, <1>4, <1>5 DEF FenceInv, Fencing

(* Every step keeps the fence.                                              *)
LEMMA FenceInductive ==
    ASSUME RegInv, RegInv', FenceInv, [RegistryNext]_reg_vars
    PROVE  FenceInv'
<1>1. ASSUME NEW r \in Slots, AdminStep(r) PROVE FenceInv'
  BY <1>1, CalmSteps, RowFences, AdvanceFences DEF AdminStep
<1>2. ASSUME NEW r \in Slots, RegisterStep(r) PROVE FenceInv'
  BY <1>2, CalmSteps, RowFences, RollbackFence DEF RegisterStep
<1>3. ASSUME NEW r \in Slots, PresenceStep(r) PROVE FenceInv'
  BY <1>3, CalmSteps, RowFences, AdvanceFences DEF PresenceStep
<1>4. ASSUME NEW r \in Slots, RelayStep(r) PROVE FenceInv'
  BY <1>4, CalmSteps, RowFences, AdvanceFences, BrokerFences DEF RelayStep
<1>5. ASSUME NEW a \in Agents, HoldEnds(a) PROVE FenceInv'
  <2>1. /\ UNCHANGED <<db, disk, req, fence, acked, lost>>
        /\ held' \in [Agents -> SUBSET Holds] /\ \A b \in Agents : held'[b] \subseteq held[b]
    BY <1>5 DEF HoldEnds, FenceInv, FenceType, store, history
  <2> QED BY <2>1, EndFence
<1>6. CASE UNCHANGED reg_vars
  BY <1>6, EndFence DEF reg_vars, FenceInv, FenceType
<1> QED BY <1>1, <1>2, <1>3, <1>4, <1>5, <1>6, RestartFence DEF RegistryNext

(* The stored generation never lags the broker's fence, and what a presence *)
(* event or a revocation was answered for is gone from the broker           *)
(* (agent_routes.py _fence_site_presence, admin_routes.py revoke_agent).    *)
THEOREM Fences == RegistrySpec => []FencesHold
<1>1. RegistryInit => RegInv /\ FenceInv
  BY RegInitial, FenceInitial
<1>2. RegInv /\ FenceInv /\ [RegistryNext]_reg_vars => RegInv' /\ FenceInv'
  BY RegInductive, FenceInductive
<1>3. RegInv /\ FenceInv => FencesHold
  <2> SUFFICES ASSUME FenceInv, ~lost PROVE FencesHold
    BY DEF FencesHold, FenceIsStored, PresenceFences, RevokedHoldsNothing
  <2>1. \A a \in Agents : Authorised(a) /\ Evicted(a)
    BY DEF FenceInv, Fencing
  <2>2. FenceIsStored
    BY <2>1 DEF FenceIsStored, Authorised
  <2>3. PresenceFences
    BY <2>1 DEF PresenceFences, Evicted, EventFenced
  <2>4. RevokedHoldsNothing
    BY <2>1 DEF RevokedHoldsNothing, Evicted, RevokeFenced
  <2> QED BY <2>2, <2>3, <2>4 DEF FencesHold
<1> QED BY <1>1, <1>2, <1>3, PTL DEF RegistrySpec

=============================================================================
