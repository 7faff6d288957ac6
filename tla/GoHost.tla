------------------------------- MODULE GoHost -------------------------------
(***************************************************************************)
(* The replicas of one Go agent (go-agent/supervisor, preempt, reconcile   *)
(* and the parts of runtime/ that drive them).  The supervisor, the        *)
(* controllers and their locks are ported from Python step by step, and    *)
(* share its definitions here.  What differs is who reconciles and how the *)
(* process stops: a worker goroutine stops before it starts, asks again    *)
(* whether the machine may serve right before every start, and shutdown    *)
(* waits for the poll loop and the worker before it stops the replicas.    *)
(***************************************************************************)
EXTENDS AgentHost

(* The supervisor: one goroutine per child, one mutex for the tables.        *)
healthLoop(c) == _health_loop(c)

markReady(c) == _mark_ready(c)

markCrashed(c) == _mark_crashed(c)

registerChild(c) == _register_child(c)

(* Whatever error a signal returns, the child counts as vanished: it leaves  *)
(* the tables, its process may live on.                                      *)
signalProcesses(c) ==
    /\ poll.pc = "signalling"
    /\ c \in poll.todo
    /\ \/ Vanishes(c)
       \/ Signalled(c)
       \/ /\ Alive(c)
          /\ poll' = [poll EXCEPT !.todo = @ \ {c}, !.vanished = @ \cup {procs[c].model}]
          /\ UNCHANGED procs
    /\ UNCHANGED <<health, tables, control, stopper, loop>>

applySignal(goal, suspend) == _apply_signal(goal, suspend)

commitSignal == _commit_signal

(* The poll goroutine.                                                       *)
ReclaimEdge == ~reclaimed /\ stopper = Quiet /\ applySignal("reclaim", TRUE)

enterReclaimed ==
    /\ poll.pc = "signalling" /\ poll.goal = "reclaim" /\ poll.todo = {}
    /\ commitSignal
    /\ poll' = Quiet
    /\ reclaimed' = TRUE
    /\ stopper' = [pc |-> "reading"]
    /\ UNCHANGED <<health, agent_state, escalated, loop>>

ReleaseEdge == _release

isFreshInput == ~reclaimed /\ agent_state = "idle" /\ applySignal("active", TRUE)

AwayLongEnough == ~reclaimed /\ agent_state = "active" /\ applySignal("idle", FALSE)

(* enterActive and enterIdle: suspend or resume first, then the state.       *)
enterState ==
    /\ poll.pc = "signalling" /\ poll.goal # "reclaim" /\ poll.todo = {}
    /\ commitSignal
    /\ poll' = Quiet
    /\ agent_state' = poll.goal
    /\ escalated' = FALSE
    /\ UNCHANGED <<health, reclaimed, stopper, loop>>

maybeEscalate == _maybe_escalate \/ PollStops

stopAllReplicas == _stop_all_replicas

----------------------------------------------------------------------------
(* The reconcile worker.                                                     *)

(* servingEligible is two reads under two locks: the controller's state,     *)
(* then the reclaim flag.                                                    *)
ControllerIdle == ~ControllerLocked /\ agent_state = "idle"

servingEligible(yes, no) ==
    /\ ~ReclaimLocked
    /\ loop' = IF reclaimed THEN no ELSE yes

applyIfEligible ==
    /\ \/ loop.pc = "idle" /\ ControllerIdle /\ loop' = [pc |-> "asking"]
       \/ loop.pc = "asking" /\ servingEligible([pc |-> "comparing"], Quiet)
    /\ UNCHANGED <<procs, health, tables, control, poll, stopper>>

(* What is not wanted is stopped first, then the rest is started.  The set   *)
(* the coordinator wants may have changed in any way since.                  *)
Apply ==
    LET running == {m \in Models : states[m] \in _LIVE_STATES}
    IN  /\ loop.pc = "comparing"
        /\ \E desired \in SUBSET Models :
              loop' = Stopping(running \ desired, Pass(desired \ running, {}))
        /\ UNCHANGED <<procs, health, tables, control, poll, stopper>>

(* The manifest and the file of m have come, and the guard asks once more;   *)
(* or one of them failed, or the machine may not serve now.                  *)
guardedStart(m) ==
    /\ \/ /\ loop.pc = "starting" /\ m \in loop.start
          /\ \/ loop' = Pass(loop.start \ {m}, {})
             \/ ControllerIdle /\ loop' = [loop EXCEPT !.pc = "guarding", !.start = @ \ {m}, !.model = m]
       \/ /\ loop.pc = "guarding" /\ loop.model = m
          /\ servingEligible([loop EXCEPT !.pc = "cleared"], Pass(loop.start, {}))
    /\ UNCHANGED <<procs, health, tables, control, poll, stopper>>

(* StartReplica spawns the model that was cleared; registerChild follows.    *)
StartReplica(m) ==
    /\ loop.pc = "cleared"
    /\ loop.model = m
    /\ children[m] = NULL
    /\ \E c \in Children :
          /\ procs[c] = NULL /\ \A d \in 1..(c - 1) : procs[d] # NULL
          /\ procs' = [procs EXCEPT ![c] = [model |-> m, run |-> "running", shutdown |-> FALSE, late |-> FALSE]]
          /\ loop' = [loop EXCEPT !.pc = "registering", !.model = NULL]
    /\ UNCHANGED <<health, tables, control, poll, stopper>>

(* A second start of a model is ignored, a spawn may fail.                   *)
StartIgnored ==
    /\ loop.pc = "cleared"
    /\ loop' = Pass(loop.start, {})
    /\ UNCHANGED <<procs, health, tables, control, poll, stopper>>

StopReplica == LoopStops

----------------------------------------------------------------------------
(* Shutdown, once the context is cancelled.                                  *)

Drain ==
    /\ ~ControllerLocked
    /\ agent_state # "draining"
    /\ agent_state' = "draining"
    /\ UNCHANGED <<procs, health, tables, escalated, reclaimed, poll, stopper, loop>>

(* The poll loop and the worker have returned: every child is stopped.       *)
StopAll ==
    /\ agent_state = "draining"
    /\ poll.pc = "idle" /\ loop.pc = "idle"
    /\ loop' = Stopping({m \in Models : children[m] # NULL}, Exited)
    /\ UNCHANGED <<procs, health, tables, control, poll, stopper>>

GoNext ==
    \/ \E c \in Children : \/ ProcessEnds(c) \/ healthLoop(c) \/ markReady(c) \/ markCrashed(c)
                           \/ signalProcesses(c) \/ registerChild(c)
    \/ ReclaimEdge \/ enterReclaimed \/ ReleaseEdge
    \/ isFreshInput \/ AwayLongEnough \/ enterState \/ maybeEscalate
    \/ stopAllReplicas
    \/ applyIfEligible \/ Apply \/ StartIgnored \/ StopReplica \/ Drain \/ StopAll
    \/ \E m \in Models : guardedStart(m) \/ StartReplica(m)

WorkerGoesOn ==
    \/ loop.pc = "asking" /\ applyIfEligible
    \/ Apply \/ StartIgnored \/ StopReplica
    \/ \E c \in Children : registerChild(c)
    \/ \E m \in Models : guardedStart(m)

(* As for the Python agent; besides, the worker goes on with what it does (a *)
(* mutex does not starve who waits for it), and the poll loop, whose select  *)
(* chooses among what is ready, does not pass over the cancelled context for *)
(* ever.                                                                     *)
GoFairness == ThreadFairness /\ SF_host_vars(WorkerGoesOn) /\ SF_host_vars(StopAll)
============================================================================
