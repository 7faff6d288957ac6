---------------------------- MODULE SitePresence ----------------------------
(***************************************************************************)
(* What a Site Mode agent (go-agent/runtime) tells the coordinator about   *)
(* its user: presence events through the event sink and heartbeats, both   *)
(* numbered from one sequence that survives restarts (sequence.go,         *)
(* sitesink.go, eventsink.go, loops.go), and the shutdown that a lost      *)
(* event, a rejection or a signal begins (runtime.go).                     *)
(*                                                                         *)
(* Goroutines: the poll loop, the heartbeat loop, the sink's worker and    *)
(* the main one, which waits for the loops and sends the last heartbeat.   *)
(***************************************************************************)
EXTENDS Null, Integers, Sequences

CONSTANTS
    seqReserveBlock,    \* numbers reserved per write of the identity file
    eventBuffer,        \* capacity of the sink's channel
    criticalPushAttempts,
    MaxSeq,             \* bound: no new work once the cursor is here
    MaxStarts           \* bound on the times the daemon starts

ASSUME PresenceAssumption ==
    /\ seqReserveBlock \in Nat \ {0} /\ eventBuffer \in Nat \ {0} /\ criticalPushAttempts \in Nat \ {0}
    /\ MaxSeq \in Nat /\ MaxStarts \in Nat

VARIABLES
    ceiling,    \* Seq of the identity file
    cursor,     \* the next number to hand out
    reserved,   \* the ceiling as the process knows it
    last,       \* the number handed out last, in this process or an earlier one
    queue,      \* the sink's channel: events and flush barriers
    tries,      \* attempts left for the event the worker is pushing
    poll,       \* the poll loop: the event it is about to emit
    user,       \* the controller's state
    beat,       \* the heartbeat being sent, by the loop or by main
    main,       \* where the main goroutine is
    cancelled,  \* the context of the loops
    starts,
    coord       \* external: the highest heartbeat the coordinator has seen

memory == <<cursor, reserved>>

presence_vars ==
    <<ceiling, memory, last, queue, tries, poll, user, beat, main, cancelled, starts, coord>>

Critical == {"user_returned", "user_idle"}

NoBeat == [pc |-> "none"]

Up == main # "down"

----------------------------------------------------------------------------
(* The sequence.                                                             *)

(* Mutated: a number is handed out although the ceiling was not written.     *)
NextUnbacked(v) ==
    \/ /\ cursor < reserved
       /\ v = cursor /\ cursor' = cursor + 1
       /\ UNCHANGED <<reserved, ceiling, cancelled>>
    \/ /\ cursor >= reserved
       /\ v = cursor /\ cursor' = cursor + 1
       /\ reserved' = cursor + seqReserveBlock
       /\ \/ ceiling' = reserved' /\ UNCHANGED cancelled
          \/ UNCHANGED ceiling /\ cancelled' = TRUE

(* A block is on disk before its first number is handed out.  If it cannot   *)
(* be written the daemon stops, and the caller gets the ceiling.             *)
next(v) ==
    \/ /\ cursor < reserved
       /\ v = cursor /\ cursor' = cursor + 1
       /\ UNCHANGED <<reserved, ceiling, cancelled>>
    \/ /\ cursor >= reserved
       /\ v = cursor /\ cursor' = cursor + 1
       /\ reserved' = cursor + seqReserveBlock /\ ceiling' = reserved'
       /\ UNCHANGED cancelled
    \/ /\ cursor >= reserved
       /\ v = reserved
       /\ cancelled' = TRUE
       /\ UNCHANGED <<memory, ceiling>>

(* Hands out v and puts the event on the channel, or drops it if that is     *)
(* full: one step, under the presence lock.                                  *)
Enqueue(kind) ==
    \E v \in {cursor, reserved} :
        /\ next(v)
        /\ last' = v
        /\ queue' = IF Len(queue) < eventBuffer THEN Append(queue, [kind |-> kind, seq |-> v]) ELSE queue

----------------------------------------------------------------------------
(* The poll loop.                                                            *)

(* The controller changes its state, or a reclaim ends (onReclaimEdge); the  *)
(* claims are cancelled first, the event is emitted after that.              *)
Transition ==
    /\ poll = NULL
    /\ cursor < MaxSeq
    /\ \/ main = "running" /\ user = "idle" /\ user' = "active" /\ poll' = "user_returned"
       \/ main = "running" /\ user = "active" /\ user' = "idle" /\ poll' = "user_idle"
       \/ main \in {"running", "draining"} /\ poll' = "user_idle" /\ UNCHANGED user
    /\ UNCHANGED <<ceiling, memory, last, queue, tries, beat, main, cancelled, starts, coord>>

Emit ==
    /\ poll # NULL
    /\ Enqueue(poll)
    /\ poll' = NULL
    /\ UNCHANGED <<tries, user, beat, main, starts, coord>>

----------------------------------------------------------------------------
(* The sink's worker.                                                        *)

(* Mutated: a presence event is tried again until it succeeds.               *)
DeliverStubborn ==
    /\ Up
    /\ queue # <<>> /\ Head(queue).kind # "flush"
    /\ \/ queue' = Tail(queue)
       \/ Head(queue).kind \in Critical /\ UNCHANGED queue
    /\ tries' = IF queue' = queue /\ tries = NULL THEN 1 ELSE NULL
    /\ UNCHANGED <<ceiling, memory, last, poll, user, beat, main, cancelled, starts, coord>>

(* One attempt to push the event at the head.  The coordinator may have got  *)
(* it although the call failed.  The last attempt at a presence event ends   *)
(* the daemon.                                                               *)
deliver ==
    LET item == Head(queue)
        left == IF tries # NULL THEN tries ELSE IF item.kind \in Critical THEN criticalPushAttempts ELSE 1
    IN  /\ Up
        /\ queue # <<>> /\ item.kind # "flush"
        /\ \/ /\ queue' = Tail(queue) /\ tries' = NULL
              /\ UNCHANGED cancelled
           \/ /\ left > 1
              /\ tries' = left - 1
              /\ UNCHANGED <<queue, cancelled>>
           \/ /\ left = 1
              /\ queue' = Tail(queue) /\ tries' = NULL
              /\ cancelled' = (cancelled \/ item.kind \in Critical)
        /\ UNCHANGED <<ceiling, memory, last, poll, user, beat, main, starts, coord>>

(* A barrier is acknowledged when every event before it is gone.             *)
Flushed ==
    /\ Up
    /\ queue # <<>> /\ Head(queue).kind = "flush"
    /\ queue' = Tail(queue)
    /\ beat' = [beat EXCEPT !.pc = "flushed"]
    /\ UNCHANGED <<ceiling, memory, last, tries, poll, user, main, cancelled, starts, coord>>

----------------------------------------------------------------------------
(* Heartbeats.                                                               *)

(* Mutated: the heartbeat does not wait for the events before it.            *)
BeatAtOnce ==
    /\ Up
    /\ beat.pc = "none"
    /\ \/ main = "running" /\ ~cancelled /\ cursor < MaxSeq
       \/ main = "final"
    /\ \E v \in {cursor, reserved} :
          next(v) /\ last' = v /\ beat' = [pc |-> "flushed", seq |-> v]
    /\ UNCHANGED <<queue, tries, poll, user, main, starts, coord>>

(* beatSeq: the number first, then the barrier behind the queued events.     *)
beatSeq ==
    /\ Up
    /\ beat.pc = "none"
    /\ \/ main = "running" /\ ~cancelled /\ cursor < MaxSeq
       \/ main = "final"
    /\ \E v \in {cursor, reserved} :
          next(v) /\ last' = v /\ beat' = [pc |-> "flushing", seq |-> v]
    /\ UNCHANGED <<queue, tries, poll, user, main, starts, coord>>

(* The send on the channel waits for room.                                   *)
flush ==
    /\ beat.pc = "flushing"
    /\ Len(queue) < eventBuffer
    /\ queue' = Append(queue, [kind |-> "flush"])
    /\ beat' = [beat EXCEPT !.pc = "waiting"]
    /\ UNCHANGED <<ceiling, memory, last, tries, poll, user, main, cancelled, starts, coord>>

(* The request is made with the loops' context, so a cancelled loop sends    *)
(* nothing; the last heartbeat has a context of its own.                     *)
sendHeartbeat ==
    /\ beat.pc = "flushed"
    /\ beat' = IF cancelled /\ main # "final" THEN NoBeat ELSE [beat EXCEPT !.pc = "wire"]
    /\ UNCHANGED <<ceiling, memory, last, queue, tries, poll, user, main, cancelled, starts, coord>>

(* The coordinator answers, the answer or the request is lost, or the        *)
(* coordinator rejects the agent, which ends the daemon.                     *)
HeartbeatEnds ==
    /\ beat.pc = "wire"
    /\ beat' = NoBeat
    /\ main' = IF main = "final" THEN "closing" ELSE main
    /\ \/ /\ coord' = IF beat.seq > coord THEN beat.seq ELSE coord
          /\ UNCHANGED cancelled
       \/ UNCHANGED <<coord, cancelled>>
       \/ main = "running" /\ cancelled' = TRUE /\ UNCHANGED coord
    /\ UNCHANGED <<ceiling, memory, last, queue, tries, poll, user, starts>>

----------------------------------------------------------------------------
(* The main goroutine.                                                       *)

(* A signal from the operating system.                                       *)
Interrupted ==
    /\ main = "running" /\ ~cancelled
    /\ cancelled' = TRUE
    /\ UNCHANGED <<ceiling, memory, last, queue, tries, poll, user, beat, main, starts, coord>>

(* Drain emits agent_stopping under the controller's lock.                   *)
StopAccepting ==
    /\ main = "running" /\ cancelled
    /\ poll = NULL
    /\ Enqueue("agent_stopping")
    /\ main' = "draining"
    /\ UNCHANGED <<tries, poll, user, beat, starts, coord>>

(* The loops have returned: the last heartbeat goes out.                     *)
LoopsReturn ==
    /\ main = "draining"
    /\ poll = NULL /\ beat.pc = "none"
    /\ main' = "final"
    /\ UNCHANGED <<ceiling, memory, last, queue, tries, poll, user, beat, cancelled, starts, coord>>

(* The sink is closed when its channel is empty.                             *)
Closed ==
    /\ main = "closing"
    /\ queue = <<>>
    /\ main' = "down"
    /\ UNCHANGED <<ceiling, memory, last, queue, tries, poll, user, beat, cancelled, starts, coord>>

(* The process dies: only the identity file is left.                         *)
Crash ==
    /\ Up
    /\ main' = "down"
    /\ queue' = <<>> /\ tries' = NULL /\ poll' = NULL /\ beat' = NoBeat
    /\ UNCHANGED <<ceiling, memory, last, user, cancelled, starts, coord>>

(* newPersistentSeq resumes at the ceiling and reserves the first block; a   *)
(* state directory that cannot be written ends the start.                    *)
Start ==
    /\ main = "down"
    /\ starts < MaxStarts
    /\ starts' = starts + 1
    /\ cursor' = ceiling
    /\ reserved' = ceiling + seqReserveBlock /\ ceiling' = reserved'
    /\ main' = "running"
    /\ cancelled' = FALSE
    /\ user' = "idle"
    /\ UNCHANGED <<last, queue, tries, poll, beat, coord>>

PresenceInit ==
    /\ ceiling = 0 /\ cursor = 0 /\ reserved = 0 /\ last = -1
    /\ queue = <<>> /\ tries = NULL
    /\ poll = NULL /\ user = "idle" /\ beat = NoBeat
    /\ main = "down" /\ cancelled = FALSE /\ starts = 0
    /\ coord = -1

PresenceNext ==
    \/ Transition \/ Emit
    \/ deliver \/ Flushed
    \/ beatSeq \/ flush \/ sendHeartbeat \/ HeartbeatEnds
    \/ Interrupted \/ StopAccepting \/ LoopsReturn \/ Closed \/ Crash \/ Start

(* Goroutines run and calls have timeouts.  The poll loop's select does not  *)
(* pass over the cancelled context for ever, and a sender that waits on a    *)
(* full channel gets its place when there is one.                            *)
PresenceFairness ==
    /\ WF_presence_vars(Emit) /\ WF_presence_vars(deliver \/ Flushed)
    /\ WF_presence_vars(beatSeq) /\ SF_presence_vars(flush) /\ WF_presence_vars(sendHeartbeat \/ HeartbeatEnds)
    /\ SF_presence_vars(StopAccepting) /\ SF_presence_vars(LoopsReturn) /\ WF_presence_vars(Closed)

PresenceSpec == PresenceInit /\ [][PresenceNext]_presence_vars /\ PresenceFairness

----------------------------------------------------------------------------

(* No number is below one handed out before it, in this process or in one    *)
(* that crashed: the coordinator's fence never sees the agent go back,       *)
(* whichever writes of the identity file failed.                             *)
SeqNeverRegresses == [][last' >= last]_presence_vars

(* The coordinator has not seen a heartbeat numbered above a presence event  *)
(* that still waits to be pushed, or it would take the event for a stale one *)
(* when it comes (sitesink.go and beatSeq).                                  *)
NotOvertaken ==
    \A i \in 1..Len(queue) : queue[i].kind # "flush" => coord <= queue[i].seq

(* A daemon that is to stop does: main waits for the heartbeat loop, that    *)
(* waits for the sink's worker, and the worker may be who stopped it.        *)
DaemonStops == (cancelled /\ Up) ~> ~Up
============================================================================
