----------------------------- MODULE Telemetry -----------------------------
(***************************************************************************)
(* The Python agent's heartbeat loop and event sink                        *)
(* (fallow_agent/heartbeat/), from services.start() to the end of          *)
(* services.stop().  Threads: the poll thread, which emits events, and the *)
(* event loop, which runs the tasks of the sink and of the heartbeat and   *)
(* the shutdown.  The answers to heartbeats bring the desired models.      *)
(*                                                                         *)
(* Sequence numbers are left out: the coordinator does not compare those   *)
(* of a direct agent.                                                      *)
(***************************************************************************)
EXTENDS Null, Integers, Sequences, SequencesExt

CONSTANTS
    Wishes,             \* what the coordinator may want of the agent
    MaxEvents,          \* bound on the events of the poll thread
    MaxWishes,          \* bound on the changes of what the coordinator wants
    MaxPushAttempts,    \* max_push_attempts
    MaxBeatTries        \* max_retries of the client

ASSUME TelemetryAssumption ==
    /\ MaxEvents \in Nat /\ MaxWishes \in Nat /\ MaxBeatTries \in Nat
    /\ MaxPushAttempts \in Nat \ {0}

VARIABLES
    emitter,        \* the poll thread: "idle", "put" (the wake-up is still to come) or "exited"
    emitted,        \* the number of events put so far
    ingress,        \* _ingress: the events that wait
    written,        \* the events that _handle has dealt with
    callbacks,      \* call_soon_threadsafe has something to run
    wake,           \* _wake
    sink,           \* the sink's task: where it is, and which drain it is in
    heart,          \* the heartbeat task
    desired_models, \* DesiredModels
    wish,           \* the coordinator: what it wants, how often it changed, whether it refuses the token
    stage           \* how far the agent's shutdown is

events == <<emitter, emitted, ingress, written, callbacks, wake, sink>>

heartbeats == <<heart, desired_models>>

telemetry_vars == <<events, heartbeats, wish, stage>>

Events == 1..(MaxEvents + 1)

TelemetryInit ==
    /\ emitter = "idle" /\ emitted = 0 /\ ingress = <<>> /\ written = {}
    /\ callbacks = FALSE /\ wake = TRUE
    /\ sink = [pc |-> "waiting", drain |-> "loop"]
    /\ heart = [pc |-> "build"]
    /\ desired_models = NULL
    /\ \E s \in Wishes : wish = [is |-> s, n |-> 0, revoked |-> FALSE]
    /\ stage = "running"

----------------------------------------------------------------------------
(* The event sink.                                                           *)

Put == emitted' = emitted + 1 /\ ingress' = Append(ingress, emitted + 1)

(* emit, on the poll thread: the event is put, and then the loop is asked to *)
(* set the wake-up.                                                          *)
emit ==
    /\ emitter = "idle" /\ emitted < MaxEvents /\ stage # "stopped"
    /\ Put /\ emitter' = "put"
    /\ UNCHANGED <<written, callbacks, wake, sink, heartbeats, wish, stage>>

CallSoon ==
    /\ emitter = "put"
    /\ emitter' = "idle" /\ callbacks' = TRUE
    /\ UNCHANGED <<emitted, ingress, written, wake, sink, heartbeats, wish, stage>>

RunCallbacks ==
    /\ callbacks
    /\ callbacks' = FALSE /\ wake' = TRUE
    /\ UNCHANGED <<emitter, emitted, ingress, written, sink, heartbeats, wish, stage>>

Running == stage # "sink"

(* Mutated: the wake-up is cleared when the drain is over.                   *)
ClearLate ==
    \/ /\ sink.pc = "waiting" /\ wake
       /\ sink' = [pc |-> "draining", drain |-> "loop"] /\ UNCHANGED <<wake, stage>>
    \/ /\ sink.pc = "drained" /\ sink.drain = "loop"
       /\ wake' = FALSE
       /\ sink' = IF Running THEN [pc |-> "waiting", drain |-> "loop"] ELSE [pc |-> "draining", drain |-> "last"]
       /\ UNCHANGED stage

(* _run: the wake-up is cleared before the drain, so that an event which is  *)
(* put during the drain is either drained or wakes the task again.           *)
_run ==
    \/ /\ sink.pc = "waiting" /\ wake
       /\ wake' = FALSE
       /\ sink' = [pc |-> "draining", drain |-> "loop"] /\ UNCHANGED stage
    \/ /\ sink.pc = "drained" /\ sink.drain = "loop"
       /\ sink' = IF Running THEN [pc |-> "waiting", drain |-> "loop"] ELSE [pc |-> "draining", drain |-> "last"]
       /\ UNCHANGED <<wake, stage>>

(* stop, once the task has ended: a drain of its own.                        *)
FinalDrain ==
    \/ /\ sink.pc = "drained" /\ sink.drain = "last"
       /\ sink' = [pc |-> "draining", drain |-> "final"] /\ UNCHANGED <<wake, stage>>
    \/ /\ sink.pc = "drained" /\ sink.drain = "final"
       /\ stage' = "stopped" /\ UNCHANGED <<wake, sink>>

SinkTask ==
    /\ _run \/ FinalDrain
    /\ UNCHANGED <<emitter, emitted, ingress, written, callbacks, heartbeats, wish>>

(* _drain: the next event, which _append_jsonl writes unless the disk fails, *)
(* and then pushes.                                                          *)
_drain ==
    /\ sink.pc = "draining"
    /\ IF ingress = <<>>
       THEN sink' = [sink EXCEPT !.pc = "drained"] /\ UNCHANGED <<ingress, written>>
       ELSE /\ ingress' = Tail(ingress)
            /\ written' = written \cup {Head(ingress)}
            /\ sink' = [pc |-> "pushing", drain |-> sink.drain, attempt |-> 1]
    /\ UNCHANGED <<emitter, emitted, callbacks, wake, heartbeats, wish, stage>>

(* _push_best_effort: accepted or refused, the event is done with; any other *)
(* failure is tried again a bounded number of times.                         *)
_push_best_effort ==
    /\ sink.pc = "pushing"
    /\ sink' \in {[pc |-> "draining", drain |-> sink.drain],
                  IF sink.attempt < MaxPushAttempts THEN [sink EXCEPT !.attempt = @ + 1]
                  ELSE [pc |-> "draining", drain |-> sink.drain]}
    /\ UNCHANGED <<emitter, emitted, ingress, written, callbacks, wake, heartbeats, wish, stage>>

----------------------------------------------------------------------------
(* The heartbeat.                                                            *)

(* The coordinator's side: it changes its mind, or refuses the token.        *)
Wish ==
    /\ wish.n < MaxWishes
    /\ \E s \in Wishes \ {wish.is} : wish' = [wish EXCEPT !.is = s, !.n = @ + 1]
    /\ UNCHANGED <<events, heartbeats, stage>>

Revoke ==
    /\ ~wish.revoked
    /\ wish' = [wish EXCEPT !.revoked = TRUE]
    /\ UNCHANGED <<events, heartbeats, stage>>

(* _build_heartbeat; a probe that raises is logged, and the loop sleeps.     *)
_build_heartbeat ==
    /\ heart.pc = "build"
    /\ heart' \in {[pc |-> "send", tries |-> 0], [pc |-> "sleep"]}
    /\ UNCHANGED <<events, desired_models, wish, stage>>

(* One attempt: answered, answered with an error or garbage, or the          *)
(* transport fails, which the client tries again.                            *)
HeartbeatAttempt ==
    /\ heart.pc = "send"
    /\ heart' \in {[pc |-> "answered", with |-> IF wish.revoked THEN "auth" ELSE wish.is],
                   [pc |-> "answered", with |-> "failed"],
                   IF heart.tries < MaxBeatTries THEN [heart EXCEPT !.tries = @ + 1]
                   ELSE [pc |-> "answered", with |-> "failed"]}
    /\ UNCHANGED <<events, desired_models, wish, stage>>

(* Mutated: an error of the coordinator ends the task.                       *)
TickOrDie ==
    /\ heart.pc = "answered"
    /\ IF heart.with = "auth"
       THEN heart' = [pc |-> "ended"] /\ stage' = (IF stage = "running" THEN "fatal" ELSE stage) /\ UNCHANGED desired_models
       ELSE IF heart.with = "failed" THEN heart' = [pc |-> "ended"] /\ UNCHANGED <<desired_models, stage>>
       ELSE heart' = [pc |-> "sleep"] /\ desired_models' = heart.with /\ UNCHANGED stage
    /\ UNCHANGED <<events, wish>>

(* _tick: a rejection ends the loop and the agent, every other failure is    *)
(* logged; an answer goes to on_response.                                    *)
_tick ==
    /\ heart.pc = "answered"
    /\ IF heart.with = "auth"
       THEN heart' = [pc |-> "ended"] /\ stage' = (IF stage = "running" THEN "fatal" ELSE stage) /\ UNCHANGED desired_models
       ELSE IF heart.with = "failed" THEN heart' = [pc |-> "sleep"] /\ UNCHANGED <<desired_models, stage>>
       ELSE heart' = [pc |-> "sleep"] /\ desired_models' = heart.with /\ UNCHANGED stage
    /\ UNCHANGED <<events, wish>>

NextBeat ==
    /\ heart.pc = "sleep"
    /\ heart' = [pc |-> "build"]
    /\ UNCHANGED <<events, desired_models, wish, stage>>

----------------------------------------------------------------------------
(* services.stop().                                                          *)

Signal ==
    /\ stage = "running"
    /\ stage' = "fatal"
    /\ UNCHANGED <<events, heartbeats, wish>>

(* drain() emits AGENT_STOPPING from the event loop; then the work and the   *)
(* reconcile loop are stopped.                                               *)
Drain ==
    /\ stage = "fatal"
    /\ Put /\ callbacks' = TRUE
    /\ stage' = "drained"
    /\ UNCHANGED <<emitter, written, wake, sink, heartbeats, wish>>

(* The heartbeat's task is cancelled wherever it waits.                      *)
StopHeartbeat ==
    /\ stage = "drained"
    /\ heart' = [pc |-> "ended"]
    /\ stage' = "final"
    /\ UNCHANGED <<events, desired_models, wish>>

(* One last heartbeat, whatever becomes of it; then the poll thread is       *)
(* joined, for a limited time.                                               *)
_send_final_heartbeat ==
    /\ stage = "final"
    /\ stage' = "sink" /\ wake' = TRUE
    /\ \/ emitter = "idle" /\ emitter' = "exited"
       \/ UNCHANGED emitter
    /\ UNCHANGED <<emitted, ingress, written, callbacks, sink, heartbeats, wish>>

Sender == SinkTask \/ _drain \/ _push_best_effort

Heart == _build_heartbeat \/ HeartbeatAttempt \/ _tick \/ NextBeat

Teardown == Drain \/ StopHeartbeat \/ _send_final_heartbeat

EventsNext == emit \/ CallSoon \/ RunCallbacks

BeatsNext == Wish \/ Revoke \/ Heart

TelemetryNext == EventsNext \/ BeatsNext \/ Sender \/ Signal \/ Teardown

----------------------------------------------------------------------------

(* No event waits for ever: what the poll thread or the shutdown emits       *)
(* before the sink is told to stop is written, whatever the interleaving of  *)
(* emit, the wake-up, the drains and the stop.                               *)
EventsRecorded == \A e \in Events : [](e <= emitted /\ stage # "sink" /\ stage # "stopped" => <>(e \in written))

(* The heartbeat cannot be killed by anything but a rejection: while the     *)
(* agent runs, what the coordinator has settled on reaches DesiredModels.    *)
DesiredFollows == <>[](stage = "running" /\ ~wish.revoked => desired_models = wish.is)
=============================================================================
