----------------------------- MODULE SiteProofs -----------------------------
(* The site agent, for any number of starts, crashes, tokens and failed      *)
(* writes, any block size and any channel: it never runs under an identity   *)
(* that it was told is revoked, nor one that was enrolled in another mode;   *)
(* the numbers it hands out never go back; and no heartbeat overtakes a      *)
(* presence event.                                                           *)
EXTENDS SiteStart, SitePresence, TLAPS

-----------------------------------------------------------------------------
(* The identity (runtime.go, site.go, identity.go, enroll.py).               *)

Enrolled == {"removing", "clearing", "running"}

Files ==
    /\ agent \in {"go", "python"}
    /\ siteMode \in BOOLEAN /\ (agent = "python" => siteMode = FALSE)
    /\ tokens \in Nat
    /\ join = NULL \/ join \in Nat
    /\ identity = NULL \/ identity \in [id : Nat, site : BOOLEAN]
    /\ flag = NULL \/ flag \in spent
    /\ revoked \subseteq spent /\ spent \subseteq Nat
    /\ agent = "python" => flag = NULL

Process ==
    /\ proc \in [pc : {"down", "registering", "saving"} \cup Enrolled, id : Nat \cup {NULL}, site : BOOLEAN]
    /\ proc.pc = "down" => proc = Down
    /\ proc.pc # "down" => proc.site = siteMode /\ proc.id \in Nat

(* The strengthening: an identity is written down before the daemon goes    *)
(* on, and the token of a daemon that registers was not taken before, so    *)
(* that a marker left by an earlier identity is not about this one.         *)
StartInv ==
    /\ Files
    /\ Process
    /\ proc.pc \in Enrolled => identity = [id |-> proc.id, site |-> proc.site]
    /\ proc.pc \in {"saving"} \cup Enrolled => flag # proc.id

(* A machine before its first start has no identity to contradict.          *)
LEMMA StartInitInv == StartInit => StartInv
<1> SUFFICES ASSUME StartInit PROVE StartInv
  OBVIOUS
<1> USE DEF StartInit
<1>1. siteMode \in BOOLEAN /\ (agent = "python" => siteMode = FALSE)
  <2>1. CASE agent = "go"
    BY <2>1
  <2>2. CASE agent = "python"
    BY <2>2
  <2> QED BY <2>1, <2>2, Zenon
<1>2. Files
  BY <1>1 DEF Files
<1>3. Process
  BY DEF Process, Down
<1> QED BY <1>2, <1>3 DEF StartInv, Enrolled, Down

(* What a start that is not refused has found.                              *)
LEMMA NotRefused ==
    ASSUME NEW c, Met(c) = {}
    PROVE  /\ ~Revoked
           /\ ~(identity # NULL /\ identity.site # siteMode)
           /\ ~(identity = NULL /\ join = NULL)
<1>1. \A i \in 1..7 : ~Refusals(c)[i].is
  BY DEF Met
<1>2. ~Refusals(c)[2].is /\ ~Refusals(c)[5].is /\ ~Refusals(c)[6].is
  BY <1>1
<1> QED BY <1>2, Zenon DEF Refusals

(* No step of the start, and no crash within it, breaks the agreement of    *)
(* the identity files.                                                      *)
LEMMA StartStep == StartInv /\ [StartNext]_start_vars => StartInv'
<1> SUFFICES ASSUME StartInv, [StartNext]_start_vars PROVE StartInv'
  OBVIOUS
<1> USE StartAssumption DEF StartInv, Files, Process, Enrolled, Down, ProcAt, files, coordinator
<1>1. CASE Reinstall
  <2>1. siteMode' \in BOOLEAN /\ (agent' = "python" => siteMode' = FALSE)
    <3>1. CASE agent = "go"
      BY <1>1, <3>1 DEF Reinstall
    <3>2. CASE agent = "python"
      BY <1>1, <3>2 DEF Reinstall
    <3> QED BY <3>1, <3>2, Zenon
  <2>2. Files'
    BY <1>1, <2>1 DEF Reinstall
  <2> QED BY <1>1, <2>2 DEF Reinstall
<1>2. CASE Reconfigure
  BY <1>2 DEF Reconfigure
<1>3. ASSUME NEW c \in Conditions, Run(c) PROVE StartInv'
  <2>1. ~Revoked /\ ~(identity # NULL /\ identity.site # siteMode) /\ ~(identity = NULL /\ join = NULL)
    BY <1>3, NotRefused DEF Run
  <2>2. CASE identity # NULL
    BY <1>3, <2>1, <2>2 DEF Run, resolveIdentity, Revoked
  <2>3. CASE identity = NULL
    BY <1>3, <2>1, <2>3 DEF Run, resolveIdentity
  <2> QED BY <2>2, <2>3, Zenon
<1>4. ASSUME NEW c \in Conditions, resolve_identity(c) PROVE StartInv'
  <2>1. ~Revoked /\ ~(identity # NULL /\ identity.site # siteMode) /\ ~(identity = NULL /\ join = NULL)
    BY <1>4, NotRefused DEF resolve_identity
  <2>2. CASE identity # NULL
    BY <1>4, <2>1, <2>2 DEF resolve_identity, resolveIdentity
  <2>3. CASE identity = NULL
    BY <1>4, <2>1, <2>3 DEF resolve_identity, resolveIdentity
  <2> QED BY <2>2, <2>3, Zenon
<1>5. CASE Register
  <2>1. Files'
    BY <1>5, Zenon DEF Register
  <2>2. CASE proc' = Down
    BY <2>1, <2>2, <1>5 DEF Register
  <2>3. CASE proc' = ProcAt("saving", proc.id) /\ proc.id \notin spent
    <3>1. flag # proc.id /\ proc.id \in Nat
      BY <1>5, <2>3 DEF Register
    <3> QED BY <2>1, <2>3, <3>1, <1>5 DEF Register
  <2> QED BY <1>5, <2>2, <2>3, Zenon DEF Register
<1>6. CASE Save
  <2>1. proc.id \in Nat /\ flag # proc.id
    BY <1>6 DEF Save
  <2>2. CASE identity' = [id |-> proc.id, site |-> siteMode] /\ proc' = ProcAt("removing", proc.id)
    <3>1. Files'
      BY <1>6, <2>1, <2>2 DEF Save
    <3>2. Process' /\ identity' = [id |-> proc'.id, site |-> proc'.site] /\ flag' # proc'.id
      BY <1>6, <2>1, <2>2 DEF Save
    <3> QED BY <3>1, <3>2
  <2>3. CASE proc' = Down /\ identity' = identity
    BY <1>6, <2>3 DEF Save
  <2> QED BY <1>6, <2>2, <2>3 DEF Save
<1>7. CASE save_identity
  <2>1. proc.id \in Nat /\ flag # proc.id /\ siteMode = FALSE
    BY <1>7 DEF save_identity
  <2>2. CASE identity' = [id |-> proc.id, site |-> FALSE] /\ proc' = ProcAt("running", proc.id)
    <3>1. Files'
      BY <1>7, <2>1, <2>2 DEF save_identity
    <3>2. Process' /\ identity' = [id |-> proc'.id, site |-> proc'.site] /\ flag' # proc'.id
      BY <1>7, <2>1, <2>2, Zenon DEF save_identity
    <3> QED BY <3>1, <3>2
  <2>3. CASE proc' = Down /\ identity' = identity
    BY <1>7, <2>3 DEF save_identity
  <2> QED BY <1>7, <2>2, <2>3, Zenon DEF save_identity
<1>8. CASE RemoveJoin
  BY <1>8 DEF RemoveJoin
<1>9. CASE ClearRevoked
  BY <1>9 DEF ClearRevoked
<1>10. CASE fatal
  BY <1>10 DEF fatal
<1>11. CASE DaemonDies
  BY <1>11 DEF DaemonDies
<1>12. ASSUME NEW n \in 1..MaxTokens, revoke_agent(n) PROVE StartInv'
  BY <1>12 DEF revoke_agent
<1>13. CASE UNCHANGED start_vars
  BY <1>13 DEF start_vars
<1> QED BY <1>1, <1>2, <1>3, <1>4, <1>5, <1>6, <1>7, <1>8, <1>9, <1>10, <1>11, <1>12, <1>13, Zenon
       DEF StartNext

(* A daemon that has enrolled runs under the identity on its disk, in its   *)
(* own mode, and the marker of a revocation is not about it.                *)
THEOREM StartInvariant == StartSpec => []StartInv
BY StartInitInv, StartStep, PTL DEF StartSpec

(* Whatever restarts, reinstallations, changes of the configuration and     *)
(* crashes come, a daemon runs under the identity that is on disk, in the   *)
(* mode it was enrolled in, and not one it was told is revoked (runtime.go  *)
(* Run, identity.go, enroll.py).                                            *)
THEOREM Identities == StartSpec => []IdentitySound
<1>1. StartInv => IdentitySound
  BY DEF StartInv, IdentitySound, RevokedStaysDown, NotConverted, Enrolled
<1> QED BY <1>1, StartInvariant, PTL

-----------------------------------------------------------------------------
(* Presence (sequence.go, sitesink.go, eventsink.go, loops.go).              *)

(* Every number that was handed out is on disk or below the cursor.         *)
SeqInv ==
    /\ cursor \in Nat /\ ceiling \in Nat /\ reserved = ceiling
    /\ cursor <= ceiling
    /\ last \in Int /\ last <= cursor

Event == [kind : Critical \cup {"agent_stopping"}, seq : Nat]

Barrier == [kind : {"flush"}]

BeatType ==
    beat = NoBeat \/ beat \in [pc : {"flushing", "waiting", "flushed", "wire"}, seq : Nat]

(* One heartbeat at a time: a barrier in the channel is that of the one     *)
(* which waits, events behind it are younger than the heartbeat, and once   *)
(* the barrier is through all of them are.                                  *)
OrderInv ==
    /\ queue \in Seq(Event \cup Barrier)
    /\ poll \in Critical \cup {NULL}
    /\ BeatType
    /\ coord \in Int /\ coord <= cursor
    /\ beat # NoBeat => beat.seq <= cursor
    /\ \A i \in 1..Len(queue) : queue[i].kind # "flush" => coord <= queue[i].seq
    /\ \A j \in 1..Len(queue) : queue[j].kind = "flush" =>
          /\ beat.pc = "waiting"
          /\ \A i \in (j + 1)..Len(queue) : queue[i].kind # "flush" /\ beat.seq <= queue[i].seq
    /\ beat.pc \in {"flushed", "wire"} =>
          \A i \in 1..Len(queue) : queue[i].kind # "flush" /\ beat.seq <= queue[i].seq

(* What a number that is handed out satisfies.                              *)
LEMMA HandedOut ==
    ASSUME SeqInv, NEW v, next(v)
    PROVE  /\ v \in Nat /\ v = cursor
           /\ cursor' \in Nat /\ ceiling' \in Nat /\ reserved' = ceiling'
           /\ cursor <= cursor' /\ cursor' <= ceiling'
BY PresenceAssumption DEF SeqInv, next, memory

(* No step hands out a number below one handed out before, nor one beyond   *)
(* the block reserved on disk.                                              *)
LEMMA SeqStep == SeqInv /\ [PresenceNext]_presence_vars => SeqInv' /\ last' >= last
<1> SUFFICES ASSUME SeqInv, [PresenceNext]_presence_vars PROVE SeqInv' /\ last' >= last
  OBVIOUS
<1>1. ASSUME NEW kind, Enqueue(kind) PROVE SeqInv' /\ last' >= last
  BY <1>1, HandedOut DEF Enqueue, SeqInv
<1>2. CASE Emit
  BY <1>1, <1>2 DEF Emit
<1>3. CASE StopAccepting
  BY <1>1, <1>3 DEF StopAccepting
<1>4. CASE beatSeq
  BY <1>4, HandedOut DEF beatSeq, SeqInv
<1>5. CASE Start
  BY <1>5, PresenceAssumption DEF Start, SeqInv
<1>6. CASE Transition \/ deliver \/ Flushed \/ flush \/ sendHeartbeat \/ HeartbeatEnds
           \/ Interrupted \/ LoopsReturn \/ Closed \/ Crash
  BY <1>6 DEF Transition, deliver, Flushed, flush, sendHeartbeat, HeartbeatEnds,
              Interrupted, LoopsReturn, Closed, Crash, SeqInv, memory
<1>7. CASE UNCHANGED presence_vars
  BY <1>7 DEF presence_vars, SeqInv, memory
<1> QED BY <1>2, <1>3, <1>4, <1>5, <1>6, <1>7 DEF PresenceNext

(* Every number handed out is at most the cursor, and the cursor lies       *)
(* within the block reserved on disk (next of the sequence store).          *)
THEOREM SeqInvariant == PresenceSpec => []SeqInv
<1>1. PresenceInit => SeqInv
  BY DEF PresenceInit, SeqInv
<1> QED BY <1>1, SeqStep, PTL DEF PresenceSpec

(* No number is below one that was handed out before it, through any        *)
(* crashes, restarts and failed writes of the identity file (sequence.go).  *)
THEOREM Sequence == PresenceSpec => SeqNeverRegresses
<1>1. SeqInv /\ [PresenceNext]_presence_vars => [last' >= last]_presence_vars
  BY SeqStep
<1> QED BY <1>1, SeqInvariant, PTL DEF PresenceSpec, SeqNeverRegresses

-----------------------------------------------------------------------------

(* An event that is put on the channel, or dropped, keeps the order.        *)
LEMMA EnqueueOrdered ==
    ASSUME SeqInv, OrderInv, NEW kind \in Critical \cup {"agent_stopping"}, Enqueue(kind),
           UNCHANGED <<beat, coord>>, poll' \in {poll, NULL}
    PROVE  OrderInv'
<1>1. PICK v : /\ v \in Nat /\ v = cursor /\ cursor' \in Nat /\ cursor <= cursor'
               /\ queue' = IF Len(queue) < eventBuffer
                           THEN Append(queue, [kind |-> kind, seq |-> v]) ELSE queue
  BY HandedOut DEF Enqueue
<1>2. CASE queue' = queue
  BY <1>1, <1>2 DEF OrderInv, BeatType, SeqInv, NoBeat
<1>3. CASE queue' = Append(queue, [kind |-> kind, seq |-> v])
  <2> DEFINE n == Len(queue)
  <2>1. /\ n \in Nat /\ Len(queue') = n + 1
        /\ \A i \in 1..n : queue'[i] = queue[i]
        /\ queue'[n + 1] = [kind |-> kind, seq |-> v]
    BY <1>3 DEF OrderInv
  <2>2. queue' \in Seq(Event \cup Barrier)
    BY <1>1, <1>3 DEF OrderInv, Event
  <2>3. kind # "flush"
    BY DEF Critical
  <2>4. coord' \in Int /\ coord' <= cursor' /\ BeatType' /\ (beat' # NoBeat => beat'.seq <= cursor')
    BY <1>1 DEF OrderInv, BeatType, SeqInv, NoBeat
  <2>5. \A i \in 1..Len(queue') : queue'[i].kind # "flush" => coord' <= queue'[i].seq
    BY <1>1, <2>1 DEF OrderInv
  <2>6. \A j \in 1..Len(queue') : queue'[j].kind = "flush" =>
          /\ beat'.pc = "waiting"
          /\ \A i \in (j + 1)..Len(queue') : queue'[i].kind # "flush" /\ beat'.seq <= queue'[i].seq
    <3> SUFFICES ASSUME NEW j \in 1..(n + 1), queue'[j].kind = "flush"
                 PROVE  /\ beat'.pc = "waiting"
                        /\ \A i \in (j + 1)..(n + 1) : queue'[i].kind # "flush" /\ beat'.seq <= queue'[i].seq
      BY <2>1
    <3>1. j \in 1..n
      BY <2>1, <2>3
    <3>2. beat.pc = "waiting" /\ \A i \in (j + 1)..n : queue[i].kind # "flush" /\ beat.seq <= queue[i].seq
      BY <2>1, <3>1 DEF OrderInv
    <3>3. beat # NoBeat /\ beat.seq <= cursor
      BY <3>2 DEF OrderInv, NoBeat
    <3> QED BY <1>1, <2>1, <2>3, <3>1, <3>2, <3>3
  <2>7. beat'.pc \in {"flushed", "wire"} =>
          \A i \in 1..Len(queue') : queue'[i].kind # "flush" /\ beat'.seq <= queue'[i].seq
    <3>1. beat.pc \in {"flushed", "wire"} => beat # NoBeat /\ beat.seq <= cursor
      BY DEF OrderInv, NoBeat
    <3> QED BY <1>1, <2>1, <2>3, <3>1 DEF OrderInv
  <2> QED BY <2>2, <2>4, <2>5, <2>6, <2>7 DEF OrderInv
<1> QED BY <1>1, <1>2, <1>3

(* The worker takes the head of the channel.                                *)
LEMMA TailOrdered ==
    ASSUME OrderInv, queue # <<>>, queue' = Tail(queue)
    PROVE  /\ queue' \in Seq(Event \cup Barrier)
           /\ Len(queue') = Len(queue) - 1
           /\ \A i \in 1..Len(queue') : i + 1 \in 1..Len(queue) /\ queue'[i] = queue[i + 1]
BY DEF OrderInv

(* No step lets a barrier or a heartbeat pass an event that is older.       *)
LEMMA OrderStep == SeqInv /\ SeqInv' /\ OrderInv /\ [PresenceNext]_presence_vars => OrderInv'
<1> SUFFICES ASSUME SeqInv, SeqInv', OrderInv, [PresenceNext]_presence_vars PROVE OrderInv'
  OBVIOUS
<1>1. CASE Emit
  BY <1>1, EnqueueOrdered DEF Emit, OrderInv
<1>2. CASE StopAccepting
  BY <1>2, EnqueueOrdered DEF StopAccepting, Critical
<1>3. CASE deliver
  <2>1. CASE UNCHANGED queue
    BY <1>3, <2>1 DEF deliver, OrderInv, BeatType, memory
  <2>2. CASE queue' = Tail(queue)
    <3>1. queue # <<>> /\ UNCHANGED <<cursor, poll, beat, coord>>
      BY <1>3 DEF deliver, memory
    <3> QED BY <2>2, <3>1, TailOrdered DEF OrderInv, BeatType
  <2> QED BY <1>3, <2>1, <2>2 DEF deliver
<1>4. CASE Flushed
  <2>1. /\ queue # <<>> /\ queue' = Tail(queue) /\ queue[1].kind = "flush"
        /\ beat' = [beat EXCEPT !.pc = "flushed"] /\ UNCHANGED <<cursor, poll, coord>>
    BY <1>4 DEF Flushed, memory, OrderInv
  <2>2. 1 \in 1..Len(queue)
    BY <2>1 DEF OrderInv
  <2>3. beat.pc = "waiting" /\ \A i \in 2..Len(queue) : queue[i].kind # "flush" /\ beat.seq <= queue[i].seq
    BY <2>1, <2>2 DEF OrderInv
  <2>4. beat # NoBeat /\ beat \in [pc : {"flushing", "waiting", "flushed", "wire"}, seq : Nat]
    BY <2>3 DEF NoBeat, OrderInv, BeatType
  <2>5. beat' \in [pc : {"flushing", "waiting", "flushed", "wire"}, seq : Nat] /\ beat'.pc = "flushed" /\ beat'.seq = beat.seq
    BY <2>1, <2>4
  <2>6. /\ queue' \in Seq(Event \cup Barrier)
        /\ \A i \in 1..Len(queue') : i + 1 \in 2..Len(queue) /\ queue'[i] = queue[i + 1]
    BY <2>1, TailOrdered
  <2>7. \A i \in 1..Len(queue') : queue'[i].kind # "flush" /\ beat'.seq <= queue'[i].seq
    BY <2>3, <2>5, <2>6
  <2>8. \A i \in 1..Len(queue') : coord' <= queue'[i].seq
    BY <2>1, <2>3, <2>6 DEF OrderInv
  <2> QED BY <2>1, <2>4, <2>5, <2>6, <2>7, <2>8 DEF OrderInv, BeatType, NoBeat
<1>5. CASE beatSeq
  <2>1. PICK v \in Nat : /\ v = cursor /\ cursor <= cursor' /\ cursor' \in Nat
                         /\ beat' = [pc |-> "flushing", seq |-> v]
                         /\ beat.pc = "none" /\ UNCHANGED <<queue, poll, coord>>
    BY <1>5, HandedOut DEF beatSeq
  <2>2. \A j \in 1..Len(queue) : queue[j].kind # "flush"
    BY <2>1 DEF OrderInv
  <2>3. cursor \in Nat
    BY DEF SeqInv
  <2> QED BY <2>1, <2>2, <2>3 DEF OrderInv, BeatType, NoBeat
<1>6. CASE flush
  <2> DEFINE n == Len(queue)
  <2>1. /\ n \in Nat /\ Len(queue') = n + 1
        /\ queue' \in Seq(Event \cup Barrier)
        /\ \A i \in 1..n : queue'[i] = queue[i]
        /\ queue'[n + 1] = [kind |-> "flush"]
    BY <1>6 DEF flush, OrderInv, Barrier
  <2>2. /\ beat \in [pc : {"flushing", "waiting", "flushed", "wire"}, seq : Nat] /\ beat.pc = "flushing"
        /\ beat' = [beat EXCEPT !.pc = "waiting"] /\ UNCHANGED <<cursor, poll, coord>>
    BY <1>6 DEF flush, OrderInv, BeatType, NoBeat, memory
  <2>3. \A j \in 1..n : queue[j].kind # "flush"
    BY <2>2 DEF OrderInv
  <2>4. beat' \in [pc : {"flushing", "waiting", "flushed", "wire"}, seq : Nat] /\ beat'.pc = "waiting" /\ beat'.seq = beat.seq
    BY <2>2
  <2>5. \A i \in 1..Len(queue') : queue'[i].kind # "flush" => coord' <= queue'[i].seq
    BY <2>1, <2>2 DEF OrderInv
  <2>6. \A j \in 1..Len(queue') : queue'[j].kind = "flush" => j = n + 1
    BY <2>1, <2>3
  <2>7. beat # NoBeat /\ beat'.seq <= cursor'
    BY <2>2, <2>4 DEF OrderInv, NoBeat
  <2> QED BY <2>1, <2>2, <2>4, <2>5, <2>6, <2>7 DEF OrderInv, BeatType
<1>7. CASE sendHeartbeat
  <2>1. /\ beat \in [pc : {"flushing", "waiting", "flushed", "wire"}, seq : Nat] /\ beat.pc = "flushed"
        /\ UNCHANGED <<cursor, poll, coord, queue>>
    BY <1>7 DEF sendHeartbeat, OrderInv, BeatType, NoBeat, memory
  <2>2. CASE beat' = NoBeat
    BY <2>1, <2>2 DEF OrderInv, BeatType, NoBeat
  <2>3. CASE beat' = [beat EXCEPT !.pc = "wire"]
    <3>1. beat' \in [pc : {"flushing", "waiting", "flushed", "wire"}, seq : Nat] /\ beat'.pc = "wire" /\ beat'.seq = beat.seq
      BY <2>1, <2>3
    <3> QED BY <2>1, <3>1 DEF OrderInv, BeatType, NoBeat
  <2> QED BY <1>7, <2>2, <2>3 DEF sendHeartbeat
<1>8. CASE HeartbeatEnds
  <2>1. /\ beat \in [pc : {"flushing", "waiting", "flushed", "wire"}, seq : Nat] /\ beat.pc = "wire"
        /\ beat' = NoBeat /\ UNCHANGED <<cursor, poll, queue>>
        /\ coord' \in {beat.seq, coord}
    BY <1>8 DEF HeartbeatEnds, OrderInv, BeatType, NoBeat, memory
  <2>2. beat # NoBeat
    BY <2>1 DEF NoBeat
  <2> QED BY <2>1, <2>2 DEF OrderInv, BeatType, NoBeat
<1>9. CASE Crash
  BY <1>9 DEF Crash, OrderInv, BeatType, NoBeat, memory
<1>10. CASE Start
  <2>1. UNCHANGED <<queue, poll, beat, coord>> /\ cursor <= cursor'
    BY <1>10 DEF Start, SeqInv
  <2> QED BY <2>1 DEF OrderInv, BeatType, SeqInv, NoBeat
<1>11. CASE Transition
  BY <1>11 DEF Transition, OrderInv, BeatType, memory, Critical
<1>12. CASE Interrupted \/ LoopsReturn \/ Closed \/ UNCHANGED presence_vars
  BY <1>12 DEF Interrupted, LoopsReturn, Closed, presence_vars, OrderInv, BeatType, memory
<1> QED BY <1>1, <1>2, <1>3, <1>4, <1>5, <1>6, <1>7, <1>8, <1>9, <1>10, <1>11, <1>12 DEF PresenceNext

(* The coordinator never sees a heartbeat numbered above a presence event   *)
(* that still waits in the sink's channel (sitesink.go, beatSeq).           *)
THEOREM Overtaking == PresenceSpec => []NotOvertaken
<1>1. PresenceInit => OrderInv
  BY DEF PresenceInit, OrderInv, BeatType, NoBeat
<1>2. OrderInv => NotOvertaken
  BY DEF OrderInv, NotOvertaken
<1> QED BY <1>1, <1>2, SeqInvariant, OrderStep, PTL DEF PresenceSpec

=============================================================================
