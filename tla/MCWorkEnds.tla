----------------------------- MODULE MCWorkEnds -----------------------------
(* What has to end: the jobs of the queue, the claims of the site relay, the *)
(* calls that bring a model to an agent, and the runs of an experiment; and  *)
(* the transfer of a model in chunks, with its pacing, and the files of the  *)
(* coordinator.  A behaviour runs the one that `running` names.              *)
EXTENDS BatchWork, ModelCache, Experiment

CONSTANTS u1, m1, a1, a2, k1, k2, k3, t1, t2

VARIABLES running,
          fence, waiters, calls, works, streams, terminal_class, last_claim, relay_flags,
          uploads, readers, invalidated,
          bundle, export, store, held, mesh_call, partial, dest, damage, dropped,
          active, seconds, allowance, last, asleep, stretch,
          putting, blobs, lines, writing, scrape, shown, kills

(* One unit, submitted by an ingestion that reuses an active job.            *)
MCSubmitReuse ==
    {[request |-> [model |-> m1, priority |-> 0, params |-> 0],
      idx |-> [u \in {u1} |-> 0], reuse_active |-> TRUE]}

MCJobs1 == {1}

(* Two versions of a model that share a chunk.                               *)
MCContents == {<<k1, k2>>, <<k2, k3>>}

(* One claim, with a response of up to three chunks in a buffer of two.      *)
Relay == INSTANCE RelayBroker WITH
    Agents <- {1}, MaxCalls <- 1, MaxClaims <- 1, MaxGeneration <- 1, MaxChunks <- 3,
    BufferChunks <- 2, TerminalHistory <- 1, Modes <- {"buffered", "stream"}

(* A run with churn, then one without.                                       *)
MCPlan == <<TRUE, FALSE>>

(* Two versions of a file, the second with a repeated chunk, for a store     *)
(* that holds two chunks; it is empty, or has a chunk of the model and two   *)
(* others that came later.                                                   *)
Seeds == INSTANCE Seeding WITH
    Files <- {<<1, 2, 3>>, <<1, 2, 1, 2, 4>>}, ChunkSize <- 2, MaxBytes <- 4,
    Holdings <- {<<>>, <<<<1, 2>>, <<9>>, <<8>>>>}, Peers <- <<1, 2>>,
    MaxExports <- 2, MaxDamage <- 1, MaxDropped <- 1, call <- mesh_call

Pacing == INSTANCE Pacer WITH
    ActiveRate <- 1, IdleRate <- 3, Transfers <- {1, 2, 4}, MaxClock <- 5, clock <- seconds

(* A payload within the limit and one beyond it, brought by two calls, and    *)
(* two kinds of entries.  Bound: uploads and logging do not overlap.         *)
Files == INSTANCE Records WITH
    Payloads <- 1..2, Size <- <<1, 3>>, MaxPayload <- 2, Uploads <- 1..2,
    Entries <- {[status |-> "shed", retried |-> FALSE], [status |-> "cancelled", retried |-> TRUE]},
    MaxLogged <- 3, MaxKills <- 1, upload <- putting, log <- lines

relay_vars == <<fence, waiters, calls, works, streams, terminal_class, last_claim, relay_flags,
                uploads, readers, invalidated>>

seeding_vars == <<bundle, export, store, held, mesh_call, partial, dest, damage, dropped>>

pacer_vars == <<active, seconds, allowance, last, asleep, stretch>>

file_vars == <<putting, blobs, lines, writing, scrape, shown, kills>>

transfer_vars == <<seeding_vars, pacer_vars, file_vars>>

all_vars == <<running, batch_vars, relay_vars, cache_vars, experiment_vars, transfer_vars>>

MCInit ==
    /\ running \in {"queue", "relay", "cache", "experiment", "seeding", "pacing", "files"}
    /\ IF running = "seeding" THEN TRUE ELSE store = <<>> /\ held = [p \in 1..2 |-> {}]
    /\ IF running = "pacing" THEN TRUE ELSE active = FALSE
    /\ BatchInit /\ Relay!RelayInit /\ CacheInit /\ ExperimentInit
    /\ Seeds!SeedingInit /\ Pacing!PacerInit /\ Files!RecordsInit
    /\ running # "cache" => kind = "http"
    /\ kind # "mesh" => file.is = <<k1, k2>>

Queueing(A) ==
    /\ running = "queue" /\ A
    /\ UNCHANGED <<running, relay_vars, cache_vars, experiment_vars, transfer_vars>>

Relaying(A) ==
    /\ running = "relay" /\ A
    /\ UNCHANGED <<running, batch_vars, cache_vars, experiment_vars, transfer_vars>>

Fetching(A) ==
    /\ running = "cache" /\ A
    /\ UNCHANGED <<running, batch_vars, relay_vars, experiment_vars, transfer_vars>>

Measuring(A) ==
    /\ running = "experiment" /\ A
    /\ UNCHANGED <<running, batch_vars, relay_vars, cache_vars, transfer_vars>>

SeedingStep ==
    /\ running = "seeding" /\ Seeds!SeedingNext
    /\ UNCHANGED <<running, batch_vars, relay_vars, cache_vars, experiment_vars, pacer_vars, file_vars>>

PacingStep ==
    /\ running = "pacing" /\ Pacing!PacerNext
    /\ UNCHANGED <<running, batch_vars, relay_vars, cache_vars, experiment_vars, seeding_vars,
                   file_vars>>

FilesStep ==
    /\ running = "files" /\ Files!RecordsNext
    /\ (lines' # <<>> \/ scrape' # NULL) => \A u \in 1..2 : putting'[u] = Files!Idle
    /\ UNCHANGED <<running, batch_vars, relay_vars, cache_vars, experiment_vars, seeding_vars,
                   pacer_vars>>

MCNext ==
    \/ Queueing(BatchNext)
    \/ Relaying(Relay!RelayNext)
    \/ Fetching(CacheNext)
    \/ Measuring(ExperimentNext)
    \/ SeedingStep
    \/ PacingStep
    \/ FilesStep

(* The fairness of BatchWork, RelayBroker, ModelCache and Experiment.  Only  *)
(* one of them runs in a behaviour, so a condition on one step of each of    *)
(* them is the conjunction of the conditions on those steps.                 *)
Turn(q, r, c, e) == Queueing(q) \/ Relaying(r) \/ Fetching(c) \/ Measuring(e)

MCFairness ==
    /\ WF_all_vars(Turn(_poll(a1), Relay!DeadlinePasses(1), GoesOn(t1), RunStep))
    /\ WF_all_vars(Turn(_poll(a2), Relay!WriteResumes(1), GoesOn(t2), WorkloadStep))
    /\ WF_all_vars(Turn(GiveUp(a1), Relay!ReadChunk(1) \/ Relay!ReadEnd(1), FALSE, InteractiveStep))
    /\ WF_all_vars(Turn(GiveUp(a2), Relay!ReadTimeout(1), FALSE, ChurnStep))
    /\ WF_all_vars(Turn(LeaseLapses(u1) /\ UNCHANGED <<work, requests>>, Relay!AgentDeadline(1),
                        FALSE, InjectorStep))
    /\ WF_all_vars(Turn(requeue_expired /\ UNCHANGED <<work, requests>>, FALSE, FALSE, BatchStep))
    /\ WF_all_vars(Measuring(_sample_once))
    /\ WF_all_vars(Measuring(TimePasses))
    /\ WF_all_vars(Measuring(_fire(1)))
    /\ SF_all_vars(Turn(\E q \in requests : ServeLease(q), FALSE, Acquire(t1), FALSE))
    /\ SF_all_vars(Fetching(Acquire(t2)))

MCSpec == MCInit /\ [][MCNext]_all_vars /\ MCFairness

(* A response that the relay delivers as complete is all of it, and a file   *)
(* under a blob's name is one of the model's versions: what ends well is     *)
(* whole.                                                                    *)
EndsWhole == Relay!CompleteIsWhole /\ BlobIsWhole

(* A model in chunks: whatever a medium or a peer does, only signed versions *)
(* reach the disk, the store keeps what a call fetched, the root tells chunk *)
(* lists apart (fallow_modelmesh), and transfers leave the user their line   *)
(* (bandwidth.py).  A result's payload is stored whole (result_blobs.py), and *)
(* the requests that were logged are counted (metrics.py).                   *)
TransfersSound ==
    /\ running = "seeding" => Seeds!OnlySigned /\ Seeds!FetchedIsKept
    /\ Seeds!RootsDiffer
    /\ Pacing!StretchIsPaced
    /\ Files!BlobsAreWhole /\ Files!CountersCount

(* What is under way and has to end.  The two callers of the cache are alike *)
(* and the first one stands for both.                                        *)
Unfinished ==
    CASE running = "queue" -> \E j \in Jobs : jobs[j] # NULL /\ jobs[j].state # "done"
      [] running = "relay" -> \E c \in Relay!Claims : Relay!Live(c)
      [] running = "cache" -> ~ At(t1, "idle")
      [] running = "experiment" -> run.pc # "closed"
      [] OTHER -> FALSE

(* Everything ends.  A job finishes with each unit done or dead, although    *)
(* answers are lost, agents give up and leases run out; no work holds relay  *)
(* capacity for ever; a call that fetches a model returns, its retries being *)
(* bounded and the lock handed on, unless a download of the Go store, which  *)
(* has no timeout, stalls for ever under the lock (download.go               *)
(* streamChunks); and the experiment command returns, wherever it fails or   *)
(* is interrupted, even if a churn command hangs.                            *)
EverythingEnds == []<>(~Stalled) => (Unfinished ~> ~Unfinished)

=============================================================================
