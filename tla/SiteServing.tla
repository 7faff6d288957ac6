---------------------------- MODULE SiteServing ----------------------------
(***************************************************************************)
(* How a Site Mode agent (go-agent) serves: the availability view that the *)
(* poll loop feeds (runtime/availability.go, loops.go), the claim runner   *)
(* that holds at most one relay claim under it (inference/runner.go,       *)
(* runtime/relay.go) and its supervision, and the reconcile worker that    *)
(* defers the coordinator's desired set while the machine may not serve    *)
(* (runtime/site.go).                                                      *)
(***************************************************************************)
EXTENDS Null, Integers

CONSTANTS
    DesiredSets,    \* the desired sets heartbeats may bring
    MaxGen,         \* bound on the times the machine stops being available
    MaxBeats        \* bound on the times the coordinator changes what it wants

ASSUME ServingAssumption == MaxGen \in Nat /\ MaxBeats \in Nat

VARIABLES
    ctl,        \* the preemption controller's state
    reclaimed,  \* the reclaim controller's flag
    primed,     \* the poll loop has sampled presence once
    tick,       \* where the poll loop is in its tick
    avail,      \* the availability view
    runner,     \* the claim runner: where it is, the generation it was admitted under
    cancel,     \* the claim's context: its canceller has run
    desired,    \* the channel of one desired set
    poke,       \* the channel of one nudge
    pending,    \* the set that waits for the machine to be eligible
    applied,    \* the set applied last, NULL after an apply that failed
    beats,      \* what the coordinator has wanted: how often it changed, and the last set
    stopped     \* the loops' context is cancelled

work == <<desired, poke, pending, applied, beats>>

serving_vars == <<ctl, reclaimed, primed, tick, avail, runner, cancel, work, stopped>>

NoClaim == [pc |-> "idle"]

ServingInit ==
    /\ ctl = "idle" /\ reclaimed = FALSE /\ primed = FALSE /\ tick = "idle"
    /\ avail = [active |-> FALSE, reclaimed |-> FALSE, hasReady |-> FALSE, ready |-> FALSE, gen |-> 0, code |-> ""]
    /\ runner = NoClaim /\ cancel = FALSE
    /\ desired = NULL /\ poke = FALSE /\ pending = NULL /\ applied = NULL
    /\ beats = [n |-> 0, latest |-> NULL]
    /\ stopped = FALSE

----------------------------------------------------------------------------
(* The availability view.                                                    *)

unavailableReason(a) ==
    IF a.reclaimed THEN "reclaimed" ELSE IF a.active THEN "became_active" ELSE "cancelled"

(* Ready to not ready starts a new generation.  The channel that snapshots   *)
(* carry is closed by every change, so it is closed exactly when the         *)
(* generation or the readiness differ from the snapshot's.                   *)
recompute(a) ==
    LET next == ~a.active /\ ~a.reclaimed /\ a.hasReady
    IN  CASE next = a.ready   -> a
          [] a.ready          -> [a EXCEPT !.ready = FALSE, !.gen = @ + 1, !.code = unavailableReason(a)]
          [] OTHER            -> [a EXCEPT !.ready = TRUE, !.code = ""]

setActive(b) == avail' = recompute([avail EXCEPT !.active = b])

Snapshot == [gen |-> avail.gen, ready |-> avail.ready]

Changed(snapshot) == Snapshot # snapshot

----------------------------------------------------------------------------
(* The poll loop: one tick is four steps, in this order.                     *)

(* The flag file is there or not.  The falling edge announces user_idle,     *)
(* whatever state the controller is in.                                      *)
ReclaimPoll ==
    /\ tick = "idle" /\ ~stopped
    /\ avail.gen < MaxGen
    /\ \E now \in BOOLEAN :
          /\ reclaimed' = now
          /\ IF reclaimed /\ ~now THEN setActive(FALSE) ELSE UNCHANGED avail
          /\ tick' = IF now THEN "publish" ELSE "presence"
    /\ UNCHANGED <<ctl, primed, runner, cancel, work, stopped>>

(* The controller acts on the idle time, which may show anything.            *)
PresencePoll ==
    /\ tick = "presence"
    /\ \/ ctl = "idle" /\ ctl' = "active" /\ setActive(TRUE)
       \/ ctl = "active" /\ ctl' = "idle" /\ setActive(FALSE)
       \/ UNCHANGED <<ctl, avail>>
    /\ tick' = "publish"
    /\ UNCHANGED <<reclaimed, primed, runner, cancel, work, stopped>>

PublishReclaimed ==
    /\ tick = "publish"
    /\ avail' = recompute([avail EXCEPT !.reclaimed = reclaimed])
    /\ tick' = "ready"
    /\ UNCHANGED <<ctl, reclaimed, primed, runner, cancel, work, stopped>>

(* Replicas come and go.  The tick ends with a nudge for the worker.         *)
PublishReady ==
    /\ tick = "ready"
    /\ \E ready \in BOOLEAN : avail' = recompute([avail EXCEPT !.hasReady = ready])
    /\ primed' = TRUE
    /\ poke' = TRUE
    /\ tick' = "idle"
    /\ UNCHANGED <<ctl, reclaimed, runner, cancel, desired, pending, applied, beats, stopped>>

----------------------------------------------------------------------------
(* The claim runner.                                                         *)

Holds(pc) == runner.pc = pc

RunnerGoes(next) == runner' = next

RunnerOnly == UNCHANGED <<ctl, reclaimed, primed, tick, avail, work, stopped>>

(* Run: a snapshot says whether to ask for a claim or to wait for a change.  *)
TakeSnapshot ==
    /\ Holds("idle") /\ ~stopped
    /\ RunnerGoes([pc |-> IF avail.ready THEN "claiming" ELSE "waiting", admit |-> Snapshot])
    /\ cancel' = FALSE
    /\ RunnerOnly

waitForChange ==
    /\ Holds("waiting")
    /\ Changed(runner.admit)
    /\ RunnerGoes(NoClaim) /\ UNCHANGED cancel
    /\ RunnerOnly

(* cancelOnChange: a goroutine of its own cancels what runs under a snapshot *)
(* that has changed, some time after the change.                             *)
cancelOnChange ==
    /\ runner.pc \in {"claiming", "claimed", "serving", "uploading"}
    /\ Changed(runner.admit)
    /\ cancel' = TRUE
    /\ UNCHANGED runner
    /\ RunnerOnly

(* What the coordinator answers to a bounded wait, as the relay client reads *)
(* it: 204, 200 with a claim that decodes, or anything else.                 *)
ClaimAnswers == {"no work", "a claim", "error"}

(* An error counts as one of the channel unless a change cancelled the wait. *)
Claim ==
    /\ Holds("claiming")
    /\ \E answer \in ClaimAnswers :
          RunnerGoes(CASE answer = "a claim" -> [runner EXCEPT !.pc = "claimed"]
                 [] answer = "error" /\ ~cancel -> [pc |-> "backoff"]
                 [] OTHER -> NoClaim)
    /\ cancel' = FALSE
    /\ RunnerOnly

Reporting(code) == [pc |-> "reporting", code |-> code, admit |-> runner.admit]

unavailableCode == IF avail.code \in {"became_active", "reclaimed"} THEN avail.code ELSE "cancelled"

(* A claim that is not valid, and one for a port without a ready replica.    *)
validate == "upstream_error"

ReadyLoopbackPort == "connect_failed"

(* runClaim looks again: a claim admitted under an older generation, or for  *)
(* a replica that is not ready, is reported and not served.                  *)
runClaim ==
    /\ Holds("claimed")
    /\ \/ /\ ~avail.ready
          /\ RunnerGoes(Reporting(unavailableCode))
       \/ /\ avail.ready /\ avail.gen # runner.admit.gen
          /\ RunnerGoes(Reporting("became_active"))
       \/ /\ avail.ready /\ avail.gen = runner.admit.gen
          /\ \/ RunnerGoes([runner EXCEPT !.pc = "serving"])
             \/ \E code \in {validate, ReadyLoopbackPort} : RunnerGoes(Reporting(code))
    /\ UNCHANGED cancel
    /\ RunnerOnly

(* Mutated: the context is asked before the view.                            *)
CodeByContext(expired) ==
    CASE expired      -> "timeout"
      [] cancel       -> "cancelled"
      [] ~avail.ready -> unavailableCode
      [] OTHER        -> "connect_failed"

(* Why an exchange failed, judged by the view at that time.                  *)
codeFor(expired) ==
    CASE ~avail.ready -> unavailableCode
      [] expired      -> "timeout"
      [] cancel       -> "cancelled"
      [] OTHER        -> "connect_failed"

(* The replica answers, or fails, or the deadline passes.  A cancelled       *)
(* request has no answer.                                                    *)
localRequest ==
    /\ Holds("serving")
    /\ \/ ~cancel /\ RunnerGoes([runner EXCEPT !.pc = "uploading"])
       \/ \E expired \in {FALSE, ~cancel} : RunnerGoes(Reporting(codeFor(expired)))
    /\ UNCHANGED cancel
    /\ RunnerOnly

(* The coordinator takes the response, or says that the claim is gone, which *)
(* is as good; or the exchange fails.                                        *)
UploadAnswers == {"done", "error"}

(* A failed upload is reported if the deadline or the cancellation ended it, *)
(* and is an error of the channel otherwise.                                 *)
Upload ==
    /\ Holds("uploading")
    /\ \E answer \in UploadAnswers, expired \in {FALSE, ~cancel} :
          RunnerGoes(CASE answer = "done"     -> NoClaim
                 [] expired \/ cancel   -> Reporting(codeFor(expired))
                 [] OTHER               -> [pc |-> "backoff"])
    /\ UNCHANGED cancel
    /\ RunnerOnly

(* Fail: the report is taken, or the claim is gone, or the report fails.     *)
FailAnswers == {"done", "error"}

(* A report that cannot be made ends the run with an error.                  *)
reportFailure ==
    /\ Holds("reporting")
    /\ \E answer \in FailAnswers : RunnerGoes(IF answer = "done" THEN NoClaim ELSE [pc |-> "backoff"])
    /\ UNCHANGED cancel
    /\ RunnerOnly

(* superviseClaimRunner: an error is followed by a wait and another run.     *)
superviseClaimRunner ==
    /\ Holds("backoff")
    /\ RunnerGoes(NoClaim)
    /\ UNCHANGED cancel
    /\ RunnerOnly

----------------------------------------------------------------------------
(* The desired set.                                                          *)

eligible == primed /\ ctl = "idle" /\ ~reclaimed

(* Mutated: only a set that differs from the last one is handed on.          *)
SubmitChanged ==
    /\ ~stopped
    /\ beats.n < MaxBeats
    /\ \E d \in DesiredSets \ {beats.latest} :
          desired' = d /\ beats' = [n |-> beats.n + 1, latest |-> d]
    /\ UNCHANGED <<ctl, reclaimed, primed, tick, avail, runner, cancel, poke, pending, applied, stopped>>

(* Every heartbeat's answer, changed or not, replaces the set in the channel.*)
submitDesired ==
    /\ ~stopped
    /\ \E d \in DesiredSets :
          /\ d = beats.latest \/ beats.n < MaxBeats
          /\ desired' = d
          /\ beats' = IF d = beats.latest THEN beats ELSE [n |-> beats.n + 1, latest |-> d]
    /\ UNCHANGED <<ctl, reclaimed, primed, tick, avail, runner, cancel, poke, pending, applied, stopped>>

(* The pending set is applied if the machine may serve, or stays pending.    *)
(* It is pending no more before Apply is called, and an Apply that fails     *)
(* (a manifest, a file, a port, a start) is only logged.                     *)
applyIfEligible(set) ==
    IF set # NULL /\ eligible
    THEN pending' = NULL /\ applied' \in {set, NULL}
    ELSE pending' = set /\ UNCHANGED applied

(* The worker takes a new set, or a nudge, and applies what is pending.      *)
TakeDesired ==
    /\ ~stopped
    /\ desired # NULL /\ desired' = NULL
    /\ applyIfEligible(desired)
    /\ UNCHANGED <<ctl, reclaimed, primed, tick, avail, runner, cancel, poke, beats, stopped>>

TakeNudge ==
    /\ ~stopped
    /\ poke /\ poke' = FALSE
    /\ applyIfEligible(pending)
    /\ UNCHANGED <<ctl, reclaimed, primed, tick, avail, runner, cancel, desired, beats, stopped>>

(* Shutdown: the loops' context is cancelled, the runner returns from where  *)
(* it is.                                                                    *)
Shutdown ==
    /\ ~stopped
    /\ stopped' = TRUE
    /\ ctl' = "draining" /\ setActive(TRUE)
    /\ runner' = [pc |-> "returned"]
    /\ UNCHANGED <<reclaimed, primed, tick, cancel, work>>

Tick == ReclaimPoll \/ PresencePoll \/ PublishReclaimed \/ PublishReady

ClaimWork == TakeSnapshot \/ waitForChange \/ Claim \/ runClaim \/ localRequest \/ Upload \/ reportFailure \/ superviseClaimRunner

ServingNext == Tick \/ ClaimWork \/ cancelOnChange \/ submitDesired \/ TakeDesired \/ TakeNudge \/ Shutdown

AppliesWell == (TakeDesired \/ TakeNudge) /\ applied' # NULL

(* Every goroutine runs; waits, requests and reports have deadlines, and a   *)
(* select does not pass over a channel that is ready for ever.  Heartbeats   *)
(* recur, and an Apply that is tried again and again succeeds.               *)
ServingFairness ==
    /\ WF_serving_vars(Tick) /\ WF_serving_vars(ClaimWork) /\ WF_serving_vars(cancelOnChange)
    /\ WF_serving_vars(TakeDesired) /\ WF_serving_vars(TakeNudge)
    /\ WF_serving_vars(submitDesired) /\ SF_serving_vars(AppliesWell)

ServingSpec == ServingInit /\ [][ServingNext]_serving_vars /\ ServingFairness

----------------------------------------------------------------------------

(* While the machine is available the runner keeps coming back to ask for    *)
(* work: errors of the channel, claims that failed and changes of the view   *)
(* in any order do not leave it waiting or gone.                             *)
PollingResumes == [](avail.ready /\ ~stopped => <>(Holds("claiming") \/ ~avail.ready \/ stopped))

(* A claim that the user cut short is reported with the reason the view      *)
(* gives, which makes it one to try elsewhere, and not as an error of the    *)
(* replica or a bare cancellation, for as long as the user is there: the     *)
(* canceller, the local exchange and the poll loop all race for the verdict. *)
InterruptedIsRetryable ==
    Holds("reporting") /\ cancel /\ ~avail.ready /\ avail.gen = runner.admit.gen + 1 =>
        runner.code = unavailableCode

(* On a machine that stays eligible, the last set the coordinator sent is    *)
(* applied, however many sets came while it was not and whichever applies    *)
(* failed: what a failed one lost (applyIfEligible clears havePending first) *)
(* the answer to a later heartbeat brings back.                              *)
NewestIsApplied ==
    []([](eligible /\ ~stopped) => <>(applied = beats.latest))

============================================================================
