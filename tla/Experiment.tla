----------------------------- MODULE Experiment -----------------------------
(* One invocation of the benchmark's experiment command.  The plan's runs    *)
(* follow one another in one event loop.  A run starts a coordinator, waits  *)
(* for the fleet, records a baseline, drives workload and churn side by side *)
(* and stops the coordinator.  Every task that the run leaves to the loop is *)
(* here: the two phases, the two drivers of the workload, each request in    *)
(* flight, the power sampler, the deadline around churn and the injector     *)
(* inside it.                                                                *)
(*                                                                           *)
(* A task awaiting others is modelled by when it wakes and by what its       *)
(* cancellation reaches: gather cancels what it awaits, wait does not, and   *)
(* neither stops the siblings of a task that raised.                         *)
EXTENDS Naturals, Sequences, FiniteSets, Null

CONSTANTS
    Arrivals,      \* the length of the schedule of requests
    ChurnEvents,   \* the length of the schedule of churn
    Plan           \* the arms of the plan, in order: TRUE where churn is enabled

VARIABLES
    run,           \* the task of execute_plan: [at, pc, failed, interrupted]
    coordinator,   \* the coordinator process
    workload,      \* the workload phase
    interactive,   \* the interactive driver: [pc, next]
    request,       \* what became of each arrival
    batch,         \* the batch driver
    sampler,       \* the power sampler
    files,         \* the writers the workload shares with its drivers
    churn,         \* the churn phase, in _run_with_deadline
    injector,      \* the churn injector: [pc, next]
    clock          \* whether the run's duration has passed

driver_vars == <<interactive, request, batch, sampler, files>>

phase_vars == <<workload, churn, driver_vars, injector, clock>>

experiment_vars == <<run, coordinator, phase_vars>>

Ended == {"ok", "error", "cancelled"}

Live(pc) == pc \notin Ended \cup {"none"}

(* What a run starts with: no task of its own yet.                           *)
Fresh ==
    /\ workload = "none" /\ churn = "none" /\ clock = "running"
    /\ interactive = [pc |-> "none", next |-> 1]
    /\ request = [i \in 1 .. Arrivals |-> "none"]
    /\ batch = "none" /\ sampler = "none" /\ files = "none"
    /\ injector = [pc |-> "none", next |-> 1]

ExperimentInit ==
    /\ run = [at |-> 1, pc |-> "seed", failed |-> FALSE, interrupted |-> FALSE]
    /\ coordinator = "none"
    /\ Fresh

Goto(pc) == run' = [run EXCEPT !.pc = pc]

(* Any failure, a cancellation included, ends in stopping the coordinator.   *)
Fail == run' = [run EXCEPT !.pc = "stop", !.failed = TRUE]

-----------------------------------------------------------------------------
(* LiveRuntime.run up to the phases.                                         *)

(* The seed database is copied and the configuration rendered; the process   *)
(* is spawned.  Nothing is running yet when one of them raises.              *)
_spawn_coordinator ==
    /\ run.pc = "seed"
    /\ \/ Goto("ready") /\ coordinator' = "running"
       \/ Fail /\ UNCHANGED coordinator
    /\ UNCHANGED phase_vars

(* Mutated: the polls go on until the coordinator is ready.                  *)
PollUntilReady ==
    /\ run.pc = "ready"
    /\ coordinator = "running" /\ Goto("key")
    /\ UNCHANGED <<coordinator, phase_vars>>

(* The polls are bounded: readiness, an exit seen, or the attempts run out.  *)
_wait_ready ==
    /\ run.pc = "ready"
    /\ (coordinator = "running" /\ Goto("key")) \/ Fail
    /\ UNCHANGED <<coordinator, phase_vars>>

_create_api_key ==
    /\ run.pc = "key"
    /\ (coordinator = "running" /\ Goto("fleet")) \/ Fail
    /\ UNCHANGED <<coordinator, phase_vars>>

_wait_fleet_ready ==
    /\ run.pc = "fleet"
    /\ (coordinator = "running" /\ Goto("metadata")) \/ Fail
    /\ UNCHANGED <<coordinator, phase_vars>>

(* The artifacts are touched and the metadata written.  These steps are      *)
(* after the except that stops the coordinator and before the try that does: *)
(* one that raises leaves it running.                                        *)
TouchArtifacts ==
    /\ run.pc = "metadata"
    /\ Goto("baseline") \/ run' = [run EXCEPT !.pc = "abandoned", !.failed = TRUE]
    /\ UNCHANGED <<coordinator, phase_vars>>

(* The baseline succeeds and the phases become tasks, or it raises.          *)
_capture_baseline ==
    /\ run.pc = "baseline"
    /\ \/ /\ coordinator = "running"
          /\ Goto("phases")
          /\ workload' = "loading"
          /\ churn' = IF Plan[run.at] THEN "starting" ELSE "none"
          /\ UNCHANGED <<driver_vars, injector, clock>>
       \/ Fail /\ UNCHANGED phase_vars
    /\ UNCHANGED coordinator

(* The coordinator may die at any time, and a terminated one exits.          *)
Exits ==
    /\ coordinator \in {"running", "terminated"}
    /\ coordinator' = "exited"
    /\ UNCHANGED <<run, phase_vars>>

TimePasses ==
    /\ run.pc \in {"phases", "cancelling"} /\ clock = "running"
    /\ clock' = "up"
    /\ UNCHANGED <<run, coordinator, workload, churn, driver_vars, injector>>

-----------------------------------------------------------------------------
(* Cancellation.                                                             *)

CancelRequests ==
    request' = [i \in DOMAIN request |->
                   IF request[i] = "streaming" THEN "lost" ELSE request[i]]

(* The workload is cancelled where it waits.  Before _drive it just ends.    *)
(* In the gather of _drive the drivers are cancelled with it, and with the   *)
(* interactive driver the requests it gathers, but not those it fired while  *)
(* still pacing.  In the finally the sampler it awaits is cancelled.         *)
CancelWorkload ==
    CASE workload = "loading" ->
            workload' = "cancelled" /\ UNCHANGED driver_vars
      [] workload = "driving" ->
            /\ workload' = "cancelling"
            /\ interactive' = [interactive EXCEPT
                                  !.pc = IF Live(@) THEN "cancelled" ELSE @]
            /\ IF interactive.pc = "gathering" THEN CancelRequests ELSE UNCHANGED request
            /\ batch' = IF Live(batch) THEN "cancelled" ELSE batch
            /\ UNCHANGED <<sampler, files>>
      [] workload \in {"closing", "failing", "cancelling"} ->
            /\ workload' = "cancelling"
            /\ sampler' = IF Live(sampler) THEN "cancelled" ELSE sampler
            /\ UNCHANGED <<interactive, request, batch, files>>
      [] OTHER -> UNCHANGED <<workload, driver_vars>>

(* _run_with_deadline is cancelled where it waits; asyncio.wait leaves the   *)
(* injector that it waits for running.                                       *)
CancelChurn ==
    /\ churn' = IF Live(churn) THEN "cancelled" ELSE churn
    /\ UNCHANGED injector

(* The interrupt that asyncio.run turns, once, into a cancellation of its    *)
(* task.  While the coordinator is given time to exit nobody kills it then.  *)
Interrupt ==
    /\ ~ run.interrupted
    /\ LET to(pc) == [run EXCEPT !.pc = pc, !.failed = TRUE, !.interrupted = TRUE] IN
       \/ /\ run.pc \in {"seed", "ready", "key", "fleet", "baseline"}
          /\ run' = to("stop")
          /\ UNCHANGED phase_vars
       \/ /\ run.pc \in {"phases", "cancelling"}
          /\ run' = to("cancelling")
          /\ CancelWorkload /\ CancelChurn /\ UNCHANGED clock
       \/ /\ run.pc = "wait"
          /\ run' = to("ended")
          /\ UNCHANGED phase_vars
    /\ UNCHANGED coordinator

-----------------------------------------------------------------------------
(* ExperimentRunner.run: the gather of the phases, its failure, the cleanup. *)

PhasesDone == workload = "ok" /\ churn \in {"none", "ok"}

PhaseFailed == {workload, churn} \cap {"error", "cancelled"} # {}

GatherPhases ==
    /\ run.pc = "phases"
    /\ \/ PhasesDone /\ Goto("stop") /\ UNCHANGED <<workload, churn, driver_vars, injector>>
       \/ /\ PhaseFailed
          /\ run' = [run EXCEPT !.pc = "cancelling", !.failed = TRUE]
          /\ CancelWorkload /\ CancelChurn
    /\ UNCHANGED <<coordinator, clock>>

(* Mutated: the cancelled phases are not waited for.                         *)
GoAtOnce ==
    /\ run.pc = "cancelling"
    /\ Goto("stop")
    /\ UNCHANGED <<coordinator, phase_vars>>

AwaitCancelled ==
    /\ run.pc = "cancelling"
    /\ ~ Live(workload) /\ ~ Live(churn)
    /\ Goto("stop")
    /\ UNCHANGED <<coordinator, phase_vars>>

(* Terminate, five seconds for it to exit, then kill.                        *)
_stop_coordinator ==
    /\ \/ /\ run.pc = "stop"
          /\ IF coordinator = "running"
               THEN coordinator' = "terminated" /\ Goto("wait")
               ELSE Goto("ended") /\ UNCHANGED coordinator
       \/ /\ run.pc = "wait"
          /\ coordinator' = "exited"
          /\ Goto("ended")
    /\ UNCHANGED phase_vars

(* execute_plan goes on to the next run only when this one returned.  When   *)
(* it raised, asyncio.run cancels whatever the loop still holds.             *)
execute_plan ==
    /\ run.pc \in {"ended", "abandoned"}
    /\ IF run.failed \/ run.at = Len(Plan)
         THEN /\ run' = [run EXCEPT !.pc = "closed"]
              /\ interactive' = [interactive EXCEPT !.pc = IF Live(@) THEN "cancelled" ELSE @]
              /\ CancelRequests
              /\ batch' = IF Live(batch) THEN "cancelled" ELSE batch
              /\ injector' = [injector EXCEPT !.pc = IF Live(@) THEN "cancelled" ELSE @]
              /\ UNCHANGED <<coordinator, workload, churn, sampler, files, clock>>
         ELSE /\ run' = [run EXCEPT !.at = @ + 1, !.pc = "seed"]
              /\ coordinator' = "none"
              /\ workload' = "none" /\ churn' = "none" /\ clock' = "running"
              /\ interactive' = [pc |-> "none", next |-> 1]
              /\ request' = [i \in 1 .. Arrivals |-> "none"]
              /\ batch' = "none" /\ sampler' = "none" /\ files' = "none"
              /\ injector' = [pc |-> "none", next |-> 1]

-----------------------------------------------------------------------------
(* WorkloadRunner.                                                           *)

(* The prompts are read and the schedule is written, then the writers open   *)
(* and _drive starts the sampler and the two drivers.                        *)
StartDriving ==
    /\ workload = "loading"
    /\ \/ /\ workload' = "driving" /\ files' = "open" /\ sampler' = "sampling"
          /\ batch' = "submitting" /\ interactive' = [interactive EXCEPT !.pc = "pacing"]
       \/ workload' = "error" /\ UNCHANGED <<files, sampler, batch, interactive>>
    /\ UNCHANGED <<run, coordinator, churn, request, injector, clock>>

(* Mutated: the first driver to end ends the drive.                          *)
FirstDriver ==
    /\ workload = "driving"
    /\ \/ "ok" \in {interactive.pc, batch} /\ workload' = "closing"
       \/ "error" \in {interactive.pc, batch} /\ workload' = "failing"
    /\ UNCHANGED <<run, coordinator, churn, driver_vars, injector, clock>>

(* The gather of the drivers wakes when both are done or one has raised; the *)
(* other one is not cancelled then.                                          *)
GatherDrivers ==
    /\ workload = "driving"
    /\ \/ {interactive.pc, batch} = {"ok"} /\ workload' = "closing"
       \/ "error" \in {interactive.pc, batch} /\ workload' = "failing"
    /\ UNCHANGED <<run, coordinator, churn, driver_vars, injector, clock>>

(* The finally waits for the sampler; then the writers are closed.           *)
CloseFiles ==
    /\ workload \in {"closing", "failing", "cancelling"}
    /\ sampler \in Ended
    /\ files' = "closed"
    /\ workload' = CASE sampler = "error" -> "error"
                     [] workload = "cancelling" -> "cancelled"
                     [] workload = "failing" -> "error"
                     [] workload = "closing" -> sampler
    /\ UNCHANGED <<run, coordinator, churn, interactive, request, batch, sampler, injector, clock>>

(* PowerSampler.run: an HTTP error is swallowed, any other one raised.  The  *)
(* stop event is looked at between two samples.                              *)
_sample_once ==
    /\ \/ sampler = "sampling" /\ sampler' \in {"sleeping", "error"}
       \/ /\ sampler = "sleeping"
          /\ sampler' = IF workload = "driving" THEN "sampling" ELSE "ok"
    /\ UNCHANGED <<run, coordinator, workload, churn, interactive, request, batch, files,
                   injector, clock>>

(* InteractiveDriver.run: the next arrival is fired without waiting for the  *)
(* ones before it; after the last one all of them are gathered.              *)
Fire ==
    /\ interactive.pc = "pacing"
    /\ IF interactive.next <= Arrivals
         THEN /\ interactive' = [interactive EXCEPT !.next = @ + 1]
              /\ request' = [request EXCEPT ![interactive.next] = "streaming"]
         ELSE interactive' = [interactive EXCEPT !.pc = "gathering"] /\ UNCHANGED request
    /\ UNCHANGED <<run, coordinator, workload, churn, batch, sampler, files, injector, clock>>

GatherRequests ==
    /\ interactive.pc = "gathering"
    /\ \/ /\ \A i \in DOMAIN request : request[i] = "recorded"
          /\ interactive' = [interactive EXCEPT !.pc = "ok"]
       \/ /\ \E i \in DOMAIN request : request[i] = "lost"
          /\ interactive' = [interactive EXCEPT !.pc = "error"]
    /\ UNCHANGED <<run, coordinator, workload, churn, request, batch, sampler, files,
                   injector, clock>>

(* _fire: answered, refused or timed out, the request leaves one record, if  *)
(* the writer takes it.                                                      *)
_fire(i) ==
    /\ request[i] = "streaming"
    /\ request' = [request EXCEPT ![i] = IF files = "open" THEN "recorded" ELSE "lost"]
    /\ UNCHANGED <<run, coordinator, workload, churn, interactive, batch, sampler, files,
                   injector, clock>>

(* The disk is full, or the answer breaks the client in another way.         *)
FireRaises(i) ==
    /\ request[i] = "streaming"
    /\ request' = [request EXCEPT ![i] = "lost"]
    /\ UNCHANGED <<run, coordinator, workload, churn, interactive, batch, sampler, files,
                   injector, clock>>

(* BatchDriver.run: one submission, then a poll until the job is terminal or *)
(* the duration has passed.  Any error is raised, and so is a write to a     *)
(* closed file.                                                              *)
BatchStep ==
    /\ batch \in {"submitting", "polling"}
    /\ \/ batch' = "error"
       \/ /\ files = "open" /\ coordinator = "running"
          /\ batch' \in IF clock = "up" THEN {"ok"} ELSE {"polling", "ok"}
    /\ UNCHANGED <<run, coordinator, workload, churn, interactive, request, sampler, files,
                   injector, clock>>

-----------------------------------------------------------------------------
(* Churn.                                                                    *)

(* The churn phase refuses an arm without a churn section, or parses it and  *)
(* hands the injector to _run_with_deadline.                                 *)
StartChurn ==
    /\ churn = "starting"
    /\ \/ churn' = "watching" /\ injector' = [injector EXCEPT !.pc = "waiting"]
       \/ churn' = "error" /\ UNCHANGED injector
    /\ UNCHANGED <<run, coordinator, workload, driver_vars, clock>>

(* An injector that ends early is outlived until the deadline; one that is   *)
(* late is cancelled there.                                                  *)
_run_with_deadline ==
    /\ \/ /\ churn = "watching" /\ injector.pc \in Ended
          /\ churn' = IF injector.pc = "ok" THEN "timing" ELSE injector.pc
          /\ UNCHANGED injector
       \/ /\ churn = "watching" /\ clock = "up" /\ injector.pc \notin Ended
          /\ churn' = "ok"
          /\ injector' = [injector EXCEPT !.pc = "cancelled"]
       \/ churn = "timing" /\ clock = "up" /\ churn' = "ok" /\ UNCHANGED injector
    /\ UNCHANGED <<run, coordinator, workload, driver_vars, clock>>

(* The record of an event, whatever became of it, is logged and the next one *)
(* waits for its offset; the sink may raise.                                 *)
Logged ==
    \/ injector' = [pc |-> "waiting", next |-> injector.next + 1]
    \/ injector' = [injector EXCEPT !.pc = "error"]

(* ChurnInjector.run: an unknown agent or a kind without a command is logged *)
(* as failed; an input is posted; a command is run.                          *)
_execute ==
    /\ injector.pc = "waiting"
    /\ IF injector.next > ChurnEvents
         THEN injector' = [injector EXCEPT !.pc = "ok"]
         ELSE \/ Logged
              \/ injector' = [injector EXCEPT !.pc = "posting"]
              \/ injector' = [injector EXCEPT !.pc = "running"]
    /\ UNCHANGED <<run, coordinator, workload, churn, driver_vars, clock>>

(* Only an input that was accepted is followed by polls of the agent state,  *)
(* when verification is on.                                                  *)
_inject_input ==
    /\ injector.pc = "posting"
    /\ \/ Logged
       \/ injector' = [injector EXCEPT !.pc = "measuring"]
    /\ UNCHANGED <<run, coordinator, workload, churn, driver_vars, clock>>

(* The poll is bounded: the flip is seen or the deadline passes.             *)
measure_flip ==
    /\ injector.pc = "measuring"
    /\ Logged
    /\ UNCHANGED <<run, coordinator, workload, churn, driver_vars, clock>>

(* The shell command exits, fails to start, or hangs until it is cancelled.  *)
(* What is cancelled is the wait for it: the shell is not killed and may     *)
(* outlive the run, outside of this model.                                   *)
_run_command ==
    /\ injector.pc = "running"
    /\ Logged
    /\ UNCHANGED <<run, coordinator, workload, churn, driver_vars, clock>>

-----------------------------------------------------------------------------
RunStep ==
    \/ _spawn_coordinator
    \/ _wait_ready
    \/ _create_api_key
    \/ _wait_fleet_ready
    \/ TouchArtifacts
    \/ _capture_baseline
    \/ GatherPhases
    \/ AwaitCancelled
    \/ _stop_coordinator
    \/ execute_plan

WorkloadStep ==
    \/ StartDriving
    \/ GatherDrivers
    \/ CloseFiles

InteractiveStep ==
    \/ Fire
    \/ GatherRequests

ChurnStep ==
    \/ StartChurn
    \/ _run_with_deadline

InjectorStep ==
    \/ _execute
    \/ _inject_input
    \/ measure_flip

ExperimentNext ==
    \/ RunStep \/ WorkloadStep \/ InteractiveStep \/ ChurnStep \/ InjectorStep
    \/ BatchStep
    \/ _sample_once
    \/ _run_command
    \/ \E i \in 1 .. Arrivals : _fire(i) \/ FireRaises(i)
    \/ Exits
    \/ TimePasses
    \/ Interrupt

(* Tasks of the loop run, time passes, and a request ends by its timeout.  A *)
(* shell command may hang for ever.                                          *)
ExperimentFairness ==
    /\ WF_experiment_vars(RunStep)
    /\ WF_experiment_vars(WorkloadStep)
    /\ WF_experiment_vars(InteractiveStep)
    /\ WF_experiment_vars(ChurnStep)
    /\ WF_experiment_vars(InjectorStep)
    /\ WF_experiment_vars(BatchStep)
    /\ WF_experiment_vars(_sample_once)
    /\ WF_experiment_vars(TimePasses)
    /\ \A i \in 1 .. Arrivals : WF_experiment_vars(_fire(i))

ExperimentSpec ==
    ExperimentInit /\ [][ExperimentNext]_experiment_vars /\ ExperimentFairness

-----------------------------------------------------------------------------
(* What the loop may still hold when a run is over.                          *)
Tasks ==
    {t \in {<<"workload", workload>>, <<"churn", churn>>, <<"sampler", sampler>>,
            <<"interactive", interactive.pc>>, <<"batch", batch>>, <<"injector", injector.pc>>} :
        Live(t[2])}

Streaming == {i \in 1 .. Arrivals : request[i] = "streaming"}

(* A run that returned is whole and leaves nothing behind for the next run   *)
(* of the plan: the coordinator has exited, no task of it is left in the     *)
(* loop, each arrival has its record, and churn lasted for the duration.     *)
RunsAreSeparate ==
    run.pc = "ended" /\ ~ run.failed =>
        /\ coordinator = "exited"
        /\ Tasks = {} /\ Streaming = {}
        /\ \A i \in 1 .. Arrivals : request[i] = "recorded"
        /\ Plan[run.at] => clock = "up"

(* However a run that reached its cleanup ended, neither phase nor the       *)
(* sampler is still at work then, and the coordinator has been told to       *)
(* terminate before the error or the result is returned.                     *)
NothingIsLeftRunning ==
    /\ run.pc \in {"stop", "wait", "ended"} =>
          ~ Live(workload) /\ ~ Live(churn) /\ ~ Live(sampler)
    /\ run.pc \in {"wait", "ended"} => coordinator # "running"

ExperimentSound == RunsAreSeparate /\ NothingIsLeftRunning

=============================================================================
