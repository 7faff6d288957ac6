----------------------------- MODULE AgentHost -----------------------------
(***************************************************************************)
(* The replicas of one Python agent: the process supervisor                *)
(* (supervisor/supervisor.py), the preemption controller, the reclaim      *)
(* override and their poll thread (preempt/), the reconcile loop           *)
(* (main/reconcile.py) and the shutdown order (main/services.py).          *)
(*                                                                         *)
(* Threads: the poll thread, one health thread per child, the thread that  *)
(* stops the replicas of a reclaimed machine, and the event loop, which    *)
(* runs reconciliation and shutdown.  The lock of the supervisor covers    *)
(* its tables only; spawning, signalling and terminating a process happen  *)
(* outside it, so those are steps of their own.                            *)
(***************************************************************************)
EXTENDS Integers, FiniteSets

CONSTANTS
    Models,         \* model ids
    GpuModels,      \* the models with min_vram_mb > 0
    MaxChildren,    \* bound on the processes spawned
    NULL

ASSUME HostAssumption == MaxChildren \in Nat /\ GpuModels \subseteq Models

VARIABLES
    procs,          \* the processes spawned: model, run state, shutdown event;
                    \* late: took an older child's place while that was suspended
    health,         \* where the health thread of each child is
    children,       \* _children: the child of each model
    states,         \* _states
    pre_suspend,    \* _pre_suspend
    agent_state,    \* _state of the controller
    escalated,      \* _escalated
    reclaimed,      \* _reclaimed
    poll,           \* the poll thread
    stopper,        \* the thread that stops the replicas of a reclaimed machine
    loop            \* the event loop: reconciliation, then shutdown

tables == <<children, states, pre_suspend>>

control == <<agent_state, escalated, reclaimed>>

host_vars == <<procs, health, tables, control, poll, stopper, loop>>

Children == 1..MaxChildren

_LIVE_STATES == {"loading", "ready", "suspended"}

Quiet == [pc |-> "idle"]

(* A thread that stops the models of ms one by one, waiting on one child at  *)
(* a time, and then goes on as next.                                         *)
Stopping(ms, next) ==
    IF ms = {} THEN next ELSE [pc |-> "stopping", todo |-> ms, child |-> NULL, next |-> next]

(* A reconcile pass: what it will start, the model being started, and what   *)
(* it stops after the starts.                                                *)
Pass(start, stop) ==
    IF start = {} THEN Stopping(stop, Quiet)
    ELSE [pc |-> "starting", start |-> start, stop |-> stop, model |-> NULL]

Exited == [pc |-> "exited"]

(* The poll thread starts no further iteration once shutdown has come to     *)
(* stopping every child.                                                     *)
PollRuns ==
    /\ poll.pc \in {"idle", "failed"}
    /\ loop.pc # "exited" /\ ~(loop.pc = "stopping" /\ loop.next = Exited)

HostInit ==
    /\ procs = [c \in Children |-> NULL]
    /\ health = [c \in Children |-> NULL]
    /\ children = [m \in Models |-> NULL]
    /\ states = [m \in Models |-> NULL]
    /\ pre_suspend = [m \in Models |-> NULL]
    /\ agent_state = "idle"
    /\ escalated = FALSE
    /\ reclaimed = FALSE
    /\ poll = Quiet
    /\ stopper = Quiet
    /\ loop = Quiet

----------------------------------------------------------------------------
(* The supervisor.                                                           *)

Alive(c) == procs[c] # NULL /\ procs[c].run # "dead"

(* _set_state_locked: a model that never ran is not recorded as stopped.     *)
Stopped(m) == IF states[m] = NULL THEN states ELSE [states EXCEPT ![m] = "stopped"]

Forget(m) ==
    /\ children' = [children EXCEPT ![m] = NULL]
    /\ pre_suspend' = [pre_suspend EXCEPT ![m] = NULL]
    /\ states' = Stopped(m)

(* The child leaves the tables, its thread is told to end and the process to *)
(* terminate; the caller, thread t, then waits for both.                     *)
stop_replica(t, m) ==
    LET c == children[m]
    IN  /\ t.pc = "stopping" /\ t.child = NULL /\ m \in t.todo
        /\ Forget(m)
        /\ procs' = IF c = NULL THEN procs ELSE [procs EXCEPT ![c].shutdown = TRUE]

(* _graceful_terminate and the join of the health thread are over.           *)
Terminated(t) ==
    /\ t.pc = "stopping"
    /\ t.child # NULL
    /\ procs[t.child].run = "dead" /\ health[t.child] = "gone"

(* Thread t, which waits for child c now or, after the last, for none.       *)
Waiting(t, ms, c) ==
    IF c = NULL THEN Stopping(ms, t.next) ELSE [t EXCEPT !.todo = ms, !.child = c]

(* The operating system: a process ends by itself, or as it was told to.     *)
ProcessEnds(c) ==
    /\ Alive(c)
    /\ procs' = [procs EXCEPT ![c].run = "dead", ![c].late = FALSE]
    /\ UNCHANGED <<health, tables, control, poll, stopper, loop>>

(* The health thread of c up to its next lock.  It has ended if it saw the   *)
(* shutdown event, but it may have looked before the event was set.  A       *)
(* thread that saw a crash never looks again: its event counts as set.       *)
_health_loop(c) ==
    /\ health[c] \in {"starting", "watching"}
    /\ \/ /\ procs[c].shutdown
          /\ health' = [health EXCEPT ![c] = "gone"]
          /\ UNCHANGED procs
       \/ /\ procs[c].run = "dead"
          /\ health' = [health EXCEPT ![c] = "crashed"]
          /\ procs' = [procs EXCEPT ![c].shutdown = TRUE]
       \/ /\ health[c] = "starting"
          /\ procs[c].run = "running"
          /\ health' = [health EXCEPT ![c] = "healthy"]
          /\ UNCHANGED procs
       \/ /\ health[c] = "starting"
          /\ Alive(c)
          /\ procs' = [procs EXCEPT ![c].run = "dead", ![c].late = FALSE, ![c].shutdown = TRUE]
          /\ health' = [health EXCEPT ![c] = "crashed"]
    /\ UNCHANGED <<tables, control, poll, stopper, loop>>

_mark_ready(c) ==
    LET m == procs[c].model
    IN  /\ health[c] = "healthy"
        /\ states' = IF states[m] = "loading" THEN [states EXCEPT ![m] = "ready"] ELSE states
        /\ health' = [health EXCEPT ![c] = "watching"]
        /\ UNCHANGED <<procs, children, pre_suspend, control, poll, stopper, loop>>

(* The tables are cleared by model id, whichever child they hold now.        *)
_mark_crashed(c) ==
    /\ health[c] = "crashed"
    /\ Forget(procs[c].model)
    /\ health' = [health EXCEPT ![c] = "gone"]
    /\ UNCHANGED <<procs, control, poll, stopper, loop>>

----------------------------------------------------------------------------
(* The poll thread.                                                          *)

(* _apply_signal, first part: the children are read under the lock.          *)
_apply_signal(goal, suspend) ==
    LET snapshot == {children[m] : m \in {n \in Models : children[n] # NULL}}
    IN  /\ PollRuns
        /\ poll' = [pc |-> "signalling", goal |-> goal, suspend |-> suspend, snapshot |-> snapshot,
                    todo |-> snapshot, vanished |-> {}]
        /\ UNCHANGED <<procs, health, tables, control, stopper, loop>>

(* Mutated: a replica that is still loading is not worth a signal.            *)
SignalReady(c) ==
    /\ poll.pc = "signalling"
    /\ c \in poll.todo
    /\ poll' = [poll EXCEPT !.todo = @ \ {c},
                           !.vanished = IF procs[c].run = "dead" THEN @ \cup {procs[c].model} ELSE @]
    /\ procs' = IF procs[c].run = "dead" \/ states[procs[c].model] = "loading" THEN procs
                ELSE [procs EXCEPT ![c].run = IF poll.suspend THEN "suspended" ELSE "running"]
    /\ UNCHANGED <<health, tables, control, stopper, loop>>

(* The process ended before the signal: the child counts as vanished.        *)
Vanishes(c) ==
    /\ procs[c].run = "dead"
    /\ poll' = [poll EXCEPT !.todo = @ \ {c}, !.vanished = @ \cup {procs[c].model}]
    /\ UNCHANGED procs

(* The signal reaches a live process.                                        *)
Signalled(c) ==
    /\ procs[c].run # "dead"
    /\ poll' = [poll EXCEPT !.todo = @ \ {c}]
    /\ procs' = [procs EXCEPT ![c].run = IF poll.suspend THEN "suspended" ELSE "running",
                             ![c].late = FALSE]

(* A process that ended after it was looked at may answer AccessDenied,      *)
(* which nothing catches before the poll loop: the iteration is over, some   *)
(* signals sent and none committed.                                          *)
_signal_processes(c) ==
    /\ poll.pc = "signalling"
    /\ c \in poll.todo
    /\ \/ Vanishes(c)
       \/ Signalled(c)
       \/ procs[c].run = "dead" /\ poll' = [pc |-> "failed"] /\ UNCHANGED procs
    /\ UNCHANGED <<health, tables, control, stopper, loop>>

(* Vanished children leave the tables, the state of the others follows the   *)
(* signal; a resume gives back the state before the suspension.              *)
_commit_signal ==
    LET signalled == {procs[c].model : c \in poll.snapshot}
        touched == {m \in signalled \ poll.vanished : states[m] # NULL}
        was(m) == IF pre_suspend[m] = NULL THEN states[m] ELSE pre_suspend[m]
    IN  /\ children' = [m \in Models |-> IF m \in poll.vanished THEN NULL ELSE children[m]]
        /\ states' = [m \in Models |->
              CASE m \in poll.vanished -> Stopped(m)[m]
                [] m \in touched       -> IF poll.suspend THEN "suspended" ELSE was(m)
                [] OTHER               -> states[m]]
        /\ pre_suspend' = [m \in Models |->
              CASE m \in poll.vanished -> NULL
                [] m \in touched       -> IF ~poll.suspend THEN NULL
                                          ELSE IF states[m] = "suspended" THEN pre_suspend[m]
                                          ELSE states[m]
                [] OTHER               -> pre_suspend[m]]
        /\ procs' = [c \in Children |->
              IF c \in poll.snapshot /\ procs[c].model \in poll.vanished
              THEN [procs[c] EXCEPT !.shutdown = TRUE] ELSE procs[c]]

(* The user's commands write and remove the flag file at any time, and every *)
(* iteration reads it afresh: an edge either way is an environment's choice. *)
ReclaimSeen == ~reclaimed /\ stopper = Quiet /\ _apply_signal("reclaim", TRUE)

_enter_reclaimed ==
    /\ poll.pc = "signalling" /\ poll.goal = "reclaim" /\ poll.todo = {}
    /\ _commit_signal
    /\ poll' = Quiet
    /\ reclaimed' = TRUE
    /\ stopper' = [pc |-> "reading"]
    /\ UNCHANGED <<health, agent_state, escalated, loop>>

_release ==
    /\ PollRuns
    /\ reclaimed
    /\ reclaimed' = FALSE
    /\ UNCHANGED <<procs, health, tables, agent_state, escalated, poll, stopper, loop>>

(* While the machine is reclaimed the controller is not asked.  The idle     *)
(* time the system reports may show fresh input, a pause, or an absence.     *)
InputSeen == ~reclaimed /\ agent_state = "idle" /\ _apply_signal("active", TRUE)

IdleSeen == ~reclaimed /\ agent_state = "active" /\ _apply_signal("idle", FALSE)

(* _enter_active and _enter_idle: the signal first, then the state.          *)
_enter ==
    /\ poll.pc = "signalling" /\ poll.goal # "reclaim" /\ poll.todo = {}
    /\ _commit_signal
    /\ poll' = Quiet
    /\ agent_state' = poll.goal
    /\ escalated' = FALSE
    /\ UNCHANGED <<health, reclaimed, stopper, loop>>

(* Mutated: only replicas that were ready when they were suspended go.        *)
EscalateReady ==
    /\ ~reclaimed /\ agent_state = "active" /\ ~escalated
    /\ PollRuns
    /\ poll' = Stopping({m \in GpuModels : states[m] = "suspended" /\ pre_suspend[m] = "ready"}, poll)
    /\ escalated' = (poll'.pc # "stopping")
    /\ UNCHANGED <<procs, health, tables, agent_state, reclaimed, stopper, loop>>

(* The user has stayed for vram_evict_after_s: the suspended replicas on the *)
(* GPU are stopped, once per spell.                                          *)
_maybe_escalate ==
    /\ ~reclaimed /\ agent_state = "active" /\ ~escalated
    /\ PollRuns
    /\ poll' = Stopping({m \in GpuModels : states[m] = "suspended"}, poll)
    /\ escalated' = (poll'.pc # "stopping")
    /\ UNCHANGED <<procs, health, tables, agent_state, reclaimed, stopper, loop>>

PollStops ==
    /\ \/ /\ \E m \in Models : /\ stop_replica(poll, m)
                               /\ poll' = Waiting(poll, poll.todo \ {m}, children[m])
       \/ /\ Terminated(poll)
          /\ poll' = Waiting(poll, poll.todo, NULL)
          /\ UNCHANGED <<procs, tables>>
    /\ escalated' = (poll'.pc # "stopping")
    /\ UNCHANGED <<health, agent_state, reclaimed, stopper, loop>>

(* The stop thread reads the statuses once, then stops one model at a time.  *)
_stop_all_replicas ==
    /\ \/ /\ stopper.pc = "reading"
          /\ stopper' = Stopping({m \in Models : states[m] # NULL}, Quiet)
          /\ UNCHANGED <<procs, tables>>
       \/ \E m \in Models : /\ stop_replica(stopper, m)
                            /\ stopper' = Waiting(stopper, stopper.todo \ {m}, children[m])
       \/ /\ Terminated(stopper)
          /\ stopper' = Waiting(stopper, stopper.todo, NULL)
          /\ UNCHANGED <<procs, tables>>
    /\ UNCHANGED <<health, control, poll, loop>>

----------------------------------------------------------------------------
(* The event loop.                                                           *)

(* The controller's lock is held while its state changes or it evicts, the   *)
(* reclaim controller's while it suspends.                                   *)
ControllerLocked == poll.pc = "stopping" \/ (poll.pc = "signalling" /\ poll.goal # "reclaim")

ReclaimLocked == poll.pc = "signalling" /\ poll.goal = "reclaim"

(* A pass reads three things, each under a lock of its own, and the poll     *)
(* thread may act between any two: the machine is not reclaimed, then it is  *)
(* idle, then what is live; what the pass starts and stops is what the last  *)
(* heartbeat's answer wants and what is live.                                *)
reconcile_once ==
    LET live == {m \in Models : states[m] \in _LIVE_STATES}
    IN  /\ \/ /\ loop.pc = "idle" /\ ~ReclaimLocked /\ ~reclaimed
              /\ loop' = [pc |-> "asking"]
           \/ /\ loop.pc = "asking" /\ ~ControllerLocked
              /\ loop' = IF agent_state = "idle" THEN [pc |-> "comparing"] ELSE Quiet
           \/ /\ loop.pc = "comparing"
              /\ \E desired \in SUBSET Models :
                    loop' = Pass(desired \ live, live \ desired)
        /\ UNCHANGED <<procs, health, tables, control, poll, stopper>>

(* The manifest and the file of m have come and the process is spawned, or   *)
(* one of the three failed.                                                  *)
_start_model(m) ==
    /\ loop.pc = "starting"
    /\ m \in loop.start
    /\ \/ /\ loop' = Pass(loop.start \ {m}, loop.stop)
          /\ UNCHANGED procs
       \/ \E c \in Children :
             /\ children[m] = NULL
             /\ procs[c] = NULL /\ \A d \in 1..(c - 1) : procs[d] # NULL
             /\ procs' = [procs EXCEPT ![c] = [model |-> m, run |-> "running", shutdown |-> FALSE, late |-> FALSE]]
             /\ loop' = [loop EXCEPT !.pc = "registering", !.start = @ \ {m}]
    /\ UNCHANGED <<health, tables, control, poll, stopper>>

(* The process that was spawned enters the tables and gets its thread.       *)
_register_child(c) ==
    /\ loop.pc = "registering"
    /\ procs[c] # NULL /\ health[c] = NULL
    /\ children' = [children EXCEPT ![procs[c].model] = c]
    /\ states' = [states EXCEPT ![procs[c].model] = "loading"]
    /\ health' = [health EXCEPT ![c] = "starting"]
    /\ procs' = [procs EXCEPT ![c].late = /\ poll.pc = "signalling" /\ poll.suspend
                                         /\ \E d \in poll.snapshot : procs[d].model = procs[c].model]
    /\ loop' = Pass(loop.start, loop.stop)
    /\ UNCHANGED <<pre_suspend, control, poll, stopper>>

(* _stop_model, and stop_all at the end: the loop itself waits.              *)
LoopStops ==
    /\ \/ \E m \in Models : /\ stop_replica(loop, m)
                            /\ loop' = Waiting(loop, loop.todo \ {m}, children[m])
       \/ /\ Terminated(loop)
          /\ loop' = Waiting(loop, loop.todo, NULL)
          /\ UNCHANGED <<procs, tables>>
    /\ UNCHANGED <<health, control, poll, stopper>>

(* Shutdown, between two steps of the loop: the controller drains and the    *)
(* reconcile task is cancelled where it awaits; the poll thread still runs   *)
(* while the other loops stop and the last heartbeat is sent.                *)
drain ==
    /\ loop.pc \in {"idle", "starting"}
    /\ ~ControllerLocked
    /\ agent_state # "draining"
    /\ agent_state' = "draining"
    /\ loop' = [pc |-> "draining"]
    /\ UNCHANGED <<procs, health, tables, escalated, reclaimed, poll, stopper>>

(* Mutated: the stop waits for the poll thread to rest, and does not end it.  *)
StopAfterPoll ==
    /\ loop.pc = "draining"
    /\ poll.pc = "idle"
    /\ loop' = Stopping({m \in Models : children[m] # NULL}, Exited)
    /\ UNCHANGED <<procs, health, tables, control, poll, stopper>>

(* Then the poll thread gets no further iteration, and every child in the    *)
(* tables is stopped, whether or not the poll thread has come to its end.    *)
stop_all ==
    /\ loop.pc = "draining"
    /\ loop' = Stopping({m \in Models : children[m] # NULL}, Exited)
    /\ UNCHANGED <<procs, health, tables, control, poll, stopper>>

HostNext ==
    \/ \E c \in Children : \/ ProcessEnds(c) \/ _health_loop(c) \/ _mark_ready(c) \/ _mark_crashed(c)
                           \/ _signal_processes(c) \/ _register_child(c)
    \/ ReclaimSeen \/ _enter_reclaimed \/ _release
    \/ InputSeen \/ IdleSeen \/ _enter \/ _maybe_escalate \/ PollStops
    \/ _stop_all_replicas
    \/ reconcile_once \/ LoopStops \/ drain \/ stop_all
    \/ \E m \in Models : _start_model(m)

(* A thread has told c to terminate, and kills it if need be.                *)
Awaited(c) == \E t \in {poll, stopper, loop} : t.pc = "stopping" /\ t.child = c

(* Threads run, a process that was told to terminate ends, and what a thread *)
(* waits for it sees.  A process ends once and a health thread takes a few   *)
(* steps, so what is fair to all of them is fair to each.                    *)
ThreadFairness ==
    /\ WF_host_vars(\E c \in Children : \/ ProcessEnds(c) /\ Awaited(c)
                                       \/ _health_loop(c) \/ _mark_ready(c) \/ _mark_crashed(c))
    /\ WF_host_vars(_enter \/ _enter_reclaimed \/ PollStops \/ \E c \in Children : _signal_processes(c))
    /\ WF_host_vars(_stop_all_replicas)

(* The loop goes on with a stop, and with a shutdown that has begun.         *)
LoopGoesOn == LoopStops \/ stop_all

HostFairness == ThreadFairness /\ WF_host_vars(LoopGoesOn)

HostSpec == HostInit /\ [][HostNext]_host_vars /\ HostFairness

----------------------------------------------------------------------------

(* When every signal of the last edge was delivered, a replica that          *)
(* heartbeats report as suspended has no running process: the commit goes by *)
(* model id, after signals sent outside the lock, and the child may have     *)
(* been replaced in between.  Exempt is only a child that took the place of  *)
(* another while that one was being suspended (_register_child during        *)
(* _signal_processes), which the commit marks and nobody signalled.          *)
SuspendedIsStill ==
    poll.pc = "idle" =>
        \A m \in Models : states[m] = "suspended" /\ children[m] # NULL =>
            procs[children[m]].run # "running" \/ procs[children[m]].late

(* Once the controller has escalated, no GPU replica sits suspended on its   *)
(* VRAM for the rest of the user's spell, whatever reclaims, releases and    *)
(* late starts came between; it gets only one try per spell.                 *)
VramReturned ==
    escalated /\ agent_state = "active" /\ poll.pc \in {"idle", "failed"} /\ stopper.pc = "idle" =>
        \A m \in GpuModels : states[m] # "suspended"

(* On an idle machine that is not reclaimed, and has no stop pending, every  *)
(* tracked process runs: a reclaim suspends without the controller's         *)
(* knowledge, and nothing but the stop thread undoes that after a release.   *)
IdleIsNotSuspended ==
    agent_state = "idle" /\ ~reclaimed /\ poll.pc = "idle" /\ stopper.pc = "idle" =>
        \A m \in Models : children[m] # NULL => procs[children[m]].run # "suspended"

(* A shutdown that has begun ends: it waits for processes and for health     *)
(* threads, while the poll thread and the stop thread may wait for the same. *)
StopCompletes == agent_state = "draining" ~> loop.pc = "exited"

(* What the documentation says of the reconcile loop: no new replica starts  *)
(* while the user is active or has reclaimed the machine.                    *)
NoStartWhileActive ==
    [][\A c \in Children : procs[c] = NULL /\ procs'[c] # NULL => agent_state = "idle" /\ ~reclaimed]_host_vars
============================================================================
