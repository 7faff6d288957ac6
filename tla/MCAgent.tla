------------------------------ MODULE MCAgent ------------------------------
(* The parts of an agent beside its replicas and its work loop, each over    *)
(* its own variables.  A behaviour runs the one that `running` names and the *)
(* others rest, so that what is explored is the sum of the parts and not     *)
(* their product.  Where two parts share something they are run together:    *)
(* the poll loop with the claim runner and with the worker that applies      *)
(* desired sets; the shutdown with the event sink and with the heartbeat.    *)
EXTENDS SitePresence, SiteServing, Clients, Telemetry

CONSTANTS d1, d2

VARIABLE running

site_vars == <<presence_vars, serving_vars>>

service_vars == <<client_vars, telemetry_vars>>

MCInit ==
    /\ running \in {"presence", "claims", "desired", "clients", "sink", "heart"}
    /\ PresenceInit /\ ServingInit /\ ClientsInit /\ TelemetryInit
    /\ running # "clients" => method = "register" /\ py.enrolled
    /\ running # "heart" => wish.is = d1

PresenceStep ==
    /\ running = "presence"
    /\ PresenceNext
    /\ UNCHANGED <<running, serving_vars, service_vars>>

ClaimsStep ==
    /\ running = "claims"
    /\ Tick \/ ClaimWork \/ cancelOnChange \/ Shutdown
    /\ UNCHANGED <<running, presence_vars, service_vars>>

DesiredStep ==
    /\ running = "desired"
    /\ Tick \/ submitDesired \/ TakeDesired \/ TakeNudge \/ Shutdown
    /\ UNCHANGED <<running, presence_vars, service_vars>>

ClientsStep ==
    /\ running = "clients"
    /\ Attempt
    /\ UNCHANGED <<running, site_vars, telemetry_vars>>

SinkStep ==
    /\ running = "sink"
    /\ EventsNext \/ Sender \/ Signal \/ Teardown
    /\ UNCHANGED <<running, site_vars, client_vars>>

HeartStep ==
    /\ running = "heart"
    /\ BeatsNext \/ RunCallbacks \/ Sender \/ Signal \/ Teardown
    /\ UNCHANGED <<running, site_vars, client_vars>>

MCNext ==
    \/ PresenceStep
    \/ ClaimsStep
    \/ DesiredStep
    \/ ClientsStep
    \/ SinkStep
    \/ HeartStep

(* PresenceFairness asks nothing of a daemon that was never started;         *)
(* ServingFairness is asked of what runs.                                    *)
SiteFairness ==
    /\ PresenceFairness
    /\ WF_serving_vars(running \in {"claims", "desired"} /\ Tick)
    /\ WF_serving_vars(running = "claims" /\ ClaimWork)
    /\ WF_serving_vars(running = "claims" /\ cancelOnChange)
    /\ WF_serving_vars(running = "desired" /\ TakeDesired)
    /\ WF_serving_vars(running = "desired" /\ TakeNudge)
    /\ WF_serving_vars(running = "desired" /\ submitDesired)
    /\ SF_serving_vars(running = "desired" /\ AppliesWell)

(* Threads, callbacks and tasks run.  A coordinator that is asked again and  *)
(* again answers in the end.                                                 *)
ServiceFairness ==
    /\ WF_telemetry_vars(running = "sink" /\ CallSoon)
    /\ WF_telemetry_vars(running \in {"sink", "heart"} /\ RunCallbacks)
    /\ WF_telemetry_vars(running \in {"sink", "heart"} /\ Sender)
    /\ WF_telemetry_vars(running \in {"sink", "heart"} /\ Teardown)
    /\ WF_telemetry_vars(running = "heart" /\ Heart)
    /\ SF_telemetry_vars(running = "heart" /\ _build_heartbeat /\ heart'.pc = "send")
    /\ SF_telemetry_vars(/\ running = "heart" /\ HeartbeatAttempt
                         /\ heart'.pc = "answered" /\ heart'.with # "failed")

MCSpec ==
    MCInit /\ [][MCNext]_<<running, site_vars, service_vars>> /\ SiteFairness /\ ServiceFairness

(* PollingResumes, of the behaviours in which the claim runner runs: while   *)
(* the machine is available, the runner keeps coming back to ask for work.   *)
ClaimsResume == running = "claims" => PollingResumes

(* Both promises of the serving side of a Site Mode agent.                   *)
ServingGoesOn == ClaimsResume /\ NewestIsApplied

(* DesiredFollows, of the behaviours in which the heartbeat runs: what the   *)
(* coordinator wants last is what the agent holds in the end.                *)
DesiredFollowsWish == running = "heart" => DesiredFollows

=============================================================================
