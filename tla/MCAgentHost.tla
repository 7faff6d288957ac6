---------------------------- MODULE MCAgentHost ----------------------------
(* One GPU model on one machine, in up to two incarnations: enough for a     *)
(* replica to be replaced while threads of the old one are still running.    *)
(* The agent is the Python one or the Go one for the whole behaviour.        *)
EXTENDS GoHost

VARIABLE impl

mc_vars == <<impl, host_vars>>

MCInit == impl \in {"python", "go"} /\ HostInit

MCNext ==
    \/ impl = "python" /\ HostNext /\ UNCHANGED impl
    \/ impl = "go" /\ GoNext /\ UNCHANGED impl

(* HostFairness or GoFairness, whichever the behaviour's agent has.  What    *)
(* LoopGoesOn can do it can do until it does, so strong fairness is weak.    *)
MCFairness ==
    /\ ThreadFairness
    /\ SF_host_vars((impl = "python" /\ LoopGoesOn) \/ (impl = "go" /\ WorkerGoesOn))
    /\ SF_host_vars(impl = "go" /\ StopAll)

(* What is reported suspended is still, and nothing is left suspended on an  *)
(* idle machine (supervisor.py _commit_signal, reclaim.py on_poll).  The Go  *)
(* worker asks again right before a start, so that no child of its enters    *)
(* the tables under an older child's suspension: there nothing is exempt.    *)
SuspensionSound ==
    /\ SuspendedIsStill
    /\ IdleIsNotSuspended
    /\ impl = "go" /\ poll.pc = "idle" =>
          \A m \in Models : states[m] = "suspended" /\ children[m] # NULL => procs[children[m]].run # "running"

MCSpec == MCInit /\ [][MCNext]_mc_vars /\ MCFairness
============================================================================
