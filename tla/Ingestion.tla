------------------------------ MODULE Ingestion ------------------------------
(***************************************************************************)
(* Document ingestion (coordinator app/rag_ingestion.py, app/chunker.py),  *)
(* the vector store (rag/store.py) and its queries (rag/query.py,          *)
(* rag/retrieval.py), over the queue as JobOutcomes describes it.          *)
(*                                                                         *)
(* Every task shares one connection to the queue's database, and job_status*)
(* and job_details read without the lock: they see the statements of a     *)
(* transaction that has not committed.  "view" is what they see; outcome   *)
(* and finished are what a restart finds.                                  *)
(*                                                                         *)
(* The id of a unit is a digest of its model and its texts, so both are    *)
(* functions of the unit.  A payload is what its digest names.             *)
(***************************************************************************)
EXTENDS JobOutcomes, FiniteSets, Integers, Sequences, Functions

CONSTANTS
    Corpora,        \* the corpora that are ingested: sets of units
    BatchCorpora,   \* the corpora that are submitted as batch jobs
    UnitTexts,      \* for each unit: its texts
    PayloadDims,    \* for each payload: the dimensions of its rows, 0 when it does not parse
    Collections,
    Tasks,          \* the requests
    Replicas,       \* the embedding replicas
    MaxRestarts     \* bound on the crashes

VARIABLES
    view,           \* [outcome, finished]: what an unlocked read sees
    settling,       \* the ends that a transaction is writing; NULL when the lock is free
    request,        \* for each job: [collection, corpus]; NULL when it is not submitted
    input,          \* for each unit: its input file: "absent", "torn", "whole"
    indexed_items,  \* job_finalizations: for each job its count, or NULL
    vector_store,   \* for each collection: [dims, chunks]; NULL when it does not exist
    task,           \* for each task: where it stands
    ready,          \* the jobs that were reported READY
    restarts

ingestion_vars == <<outcome, finished, view, settling, request, input, indexed_items, vector_store,
                    task, ready, restarts>>

queue_vars == <<outcome, finished, view, settling>>

MAX_EMBED_ATTEMPTS == 2

Idle == [pc |-> "idle"]

TextsOf(us) == UNION {UnitTexts[u] : u \in us}

IngestionInit ==
    /\ OutcomesInit
    /\ view = [outcome |-> outcome, finished |-> finished]
    /\ settling = NULL
    /\ request = [j \in Jobs |-> NULL]
    /\ input = [u \in Units |-> "absent"]
    /\ indexed_items = [j \in Jobs |-> NULL]
    /\ vector_store = [c \in Collections |-> NULL]
    /\ task = [t \in Tasks |-> Idle]
    /\ ready = {}
    /\ restarts = 0

Goes(t, to) == task' = [task EXCEPT ![t] = to]

(* Bound: after a crash the requests come one at a time.                     *)
Free(t) == /\ task[t].pc = "idle"
           /\ restarts > 0 => \A o \in Tasks : task[o].pc = "idle"

-----------------------------------------------------------------------------
(* The queue settles units: the outcomes, then the job's state, then commit. *)

SettleUnits(result) ==
    /\ settling = NULL
    /\ \A u \in DOMAIN result : Holders(outcome, {u}) # {}
    /\ settling' = result
    /\ view' = [view EXCEPT !.outcome = Settled(outcome, result)]
    /\ UNCHANGED <<outcome, finished, request, input, indexed_items, vector_store, task, ready, restarts>>

SetJobState ==
    /\ settling # NULL
    /\ view' = [view EXCEPT !.finished = Finished(outcome, settling)]
    /\ UNCHANGED <<outcome, finished, settling, request, input, indexed_items, vector_store, task,
                   ready, restarts>>

SettleCommits ==
    /\ settling # NULL
    /\ view.finished = Finished(outcome, settling)
    /\ Settle(settling)
    /\ settling' = NULL
    /\ UNCHANGED <<view, request, input, indexed_items, vector_store, task, ready, restarts>>

-----------------------------------------------------------------------------
(* Submission.                                                               *)

(* Writing a unit's input: a file that exists is taken to be the input.      *)
_store_unit(files, u) == IF files[u] = "absent" THEN "whole" ELSE files[u]

chunk_job(corpus) == [u \in Units |-> IF u \in corpus THEN _store_unit(input, u) ELSE input[u]]

(* A unit of a new job is open unless a succeeded result of it is kept.      *)
Known(u) == UNION {{outcome[j][u]} \cap Succeeded : j \in Jobs}

MembersOf(corpus) ==
    {m \in Members : \A u \in Units :
        IF u \notin corpus THEN m[u] = NULL
        ELSE IF Known(u) = {} THEN m[u] = Open ELSE m[u] \in Known(u)}

Active(corpus) == Holders(outcome, corpus)

NewJob(j) == /\ request[j] = NULL
             /\ \A i \in Jobs : request[i] = NULL => j <= i

SubmitJob(j, collection, corpus) ==
    /\ NewJob(j)
    /\ \E members \in MembersOf(corpus) : Submit(j, members)
    /\ view' = [outcome |-> outcome', finished |-> finished']
    /\ request' = [request EXCEPT ![j] = [collection |-> collection, corpus |-> corpus]]

(* The admin route for batch jobs: no collection, and open units are taken.  *)
admin_submit_job(j, corpus) ==
    /\ settling = NULL
    /\ SubmitJob(j, NULL, corpus)
    /\ input' = chunk_job(corpus)
    /\ UNCHANGED <<settling, indexed_items, vector_store, task, ready, restarts>>

(* The chunks are written at once; then the task waits for the queue's lock. *)
submit(t, collection, corpus) ==
    /\ Free(t)
    /\ input' = chunk_job(corpus)
    /\ Goes(t, [pc |-> "submit", collection |-> collection, corpus |-> corpus])
    /\ UNCHANGED <<queue_vars, request, indexed_items, vector_store, ready, restarts>>

_matching_active_job(j, collection, corpus) ==
    /\ Active(corpus) = {j}
    /\ request[j] = [collection |-> collection, corpus |-> corpus]

StatusOf(j, collection) == [pc |-> "state", job |-> j, collection |-> collection]

submit_job(t) ==
    LET c == task[t].collection
        corpus == task[t].corpus
    IN  /\ task[t].pc = "submit"
        /\ settling = NULL
        /\ \/ \E j \in Jobs : /\ Active(corpus) = {}
                              /\ SubmitJob(j, c, corpus)
                              /\ Goes(t, StatusOf(j, c))
                              /\ UNCHANGED settling
           \/ /\ Active(corpus) # {}
              /\ Goes(t, IF \E j \in Jobs : _matching_active_job(j, c, corpus)
                         THEN StatusOf(CHOOSE j \in Jobs : _matching_active_job(j, c, corpus), c)
                         ELSE Idle)
              /\ UNCHANGED <<queue_vars, request>>
        /\ UNCHANGED <<input, indexed_items, vector_store, ready, restarts>>

-----------------------------------------------------------------------------
(* Status: job_status and job_details statement by statement, then, once for *)
(* the first caller that finds none recorded, the finalization.              *)

status(t, j, collection) ==
    /\ Free(t)
    /\ request[j] # NULL
    /\ Goes(t, StatusOf(j, collection))
    /\ UNCHANGED <<queue_vars, request, input, indexed_items, vector_store, ready, restarts>>

(* The state and the counts are two reads.  A job that is not done is        *)
(* reported as running, and the reads that follow change nothing.            *)
job_status(t) ==
    LET s == task[t]
    IN  /\ \/ /\ s.pc = "state"
              /\ Goes(t, IF s.job \in view.finished THEN [s EXCEPT !.pc = "counts"] ELSE Idle)
           \/ /\ s.pc = "counts"
              /\ Goes(t, [pc |-> "details", job |-> s.job, collection |-> s.collection,
                          dead |-> \E u \in Units : view.outcome[s.job][u] # NULL
                                                      /\ view.outcome[s.job][u].is = "dead"])
        /\ UNCHANGED <<queue_vars, request, input, indexed_items, vector_store, ready, restarts>>

(* The row of a unit that another job took has no state to show: the read    *)
(* fails.  So does a status request that names another collection.           *)
job_details(t) ==
    LET s == task[t]
        units == view.outcome[s.job]
        members == {u \in Units : units[u] # NULL}
    IN  /\ s.pc = "details"
        /\ Goes(t, IF /\ \A u \in members : units[u] # Taken
                      /\ request[s.job].collection = s.collection
                   THEN [pc |-> "finalization", job |-> s.job, collection |-> s.collection,
                         units |-> units,
                         whole |-> ~s.dead /\ \A u \in members : units[u].is # "failed"]
                   ELSE Idle)
        /\ UNCHANGED <<queue_vars, request, input, indexed_items, vector_store, ready, restarts>>

(* Mutant: a unit that failed is not told from one that succeeded.           *)
ReadyUnlessDead(s) == \A u \in Units : s.units[u] = NULL \/ s.units[u].is # "dead"

Ready(s) == s.whole

Answer(t) ==
    /\ ready' = IF Ready(task[t]) THEN ready \cup {task[t].job} ELSE ready
    /\ Goes(t, Idle)

job_finalization(t) ==
    /\ task[t].pc = "finalization"
    /\ IF indexed_items[task[t].job] # NULL THEN Answer(t)
       ELSE Goes(t, [task[t] EXCEPT !.pc = "finalize"]) /\ UNCHANGED ready
    /\ UNCHANGED <<queue_vars, request, input, indexed_items, vector_store, restarts>>

DoneUnits(s) == {u \in Units : s.units[u] \in Succeeded}

_parse_payload(s, u) == PayloadDims[s.units[u].ref]

(* The inputs and payloads of all done units are read before anything is     *)
(* written: one that does not parse, or has other dimensions, fails it all.  *)
_finalize(t) ==
    LET s == task[t]
        dims == {_parse_payload(s, u) : u \in DoneUnits(s)}
    IN  /\ s.pc = "finalize"
        /\ Goes(t, IF \/ \E u \in Units : s.units[u] = Open
                      \/ \E u \in DoneUnits(s) : input[u] # "whole"
                      \/ 0 \in dims \/ Cardinality(dims) > 1
                   THEN Idle
                   ELSE [s EXCEPT !.pc = IF dims = {} THEN "mark" ELSE "create"])
        /\ UNCHANGED <<queue_vars, request, input, indexed_items, vector_store, ready, restarts>>

DimsOf(s) == CHOOSE d \in {_parse_payload(s, u) : u \in DoneUnits(s)} : TRUE

(* Mutant: a collection that exists is taken to be complete.                 *)
TakeExisting(t) ==
    LET s == task[t]
        c == s.collection
    IN  /\ s.pc = "create"
        /\ vector_store' = IF vector_store[c] # NULL THEN vector_store
                           ELSE [vector_store EXCEPT ![c] = [dims |-> DimsOf(s), chunks |-> {}]]
        /\ Goes(t, [s EXCEPT !.pc = IF vector_store[c] # NULL THEN "mark" ELSE "upsert"])
        /\ UNCHANGED <<queue_vars, request, input, indexed_items, ready, restarts>>

create_collection(t) ==
    LET s == task[t]
        c == s.collection
    IN  /\ s.pc = "create"
        /\ vector_store' = IF vector_store[c] # NULL THEN vector_store
                           ELSE [vector_store EXCEPT ![c] = [dims |-> DimsOf(s), chunks |-> {}]]
        /\ Goes(t, IF vector_store[c] # NULL /\ vector_store[c].dims # DimsOf(s) THEN Idle
                   ELSE [s EXCEPT !.pc = "upsert"])
        /\ UNCHANGED <<queue_vars, request, input, indexed_items, ready, restarts>>

upsert(t) ==
    LET s == task[t]
    IN  /\ s.pc = "upsert"
        /\ vector_store' = [vector_store EXCEPT ![s.collection].chunks = @ \cup TextsOf(DoneUnits(s))]
        /\ Goes(t, [s EXCEPT !.pc = "mark"])
        /\ UNCHANGED <<queue_vars, request, input, indexed_items, ready, restarts>>

(* The first count that is recorded stays.                                   *)
mark_job_finalized(t) ==
    LET s == task[t]
    IN  /\ s.pc = "mark"
        /\ settling = NULL
        /\ indexed_items' = [indexed_items EXCEPT ![s.job] =
                                IF @ = NULL THEN Cardinality(TextsOf(DoneUnits(s))) ELSE @]
        /\ Answer(t)
        /\ UNCHANGED <<queue_vars, request, input, vector_store, restarts>>

-----------------------------------------------------------------------------
(* A query: find the collection, embed the text, search.                     *)

(* The reply of the replica picked first or, where that one cannot be        *)
(* reached or refuses, of another one: the dimensions of a vector, 0 for one *)
(* that does not parse, Refused when every attempt failed.                   *)
Refused == -1

embed_query(reply, picks) ==
    LET tried == {i \in 1..MAX_EMBED_ATTEMPTS : i <= Len(picks)}
        answered == {i \in tried : reply[picks[i]] # Refused}
    IN  IF answered = {} THEN Refused
        ELSE reply[picks[CHOOSE i \in answered : \A k \in answered : i <= k]]

Dims == {PayloadDims[r] : r \in Refs} \cup {0}

(* The scheduler picks among the replicas that remain, in any order.         *)
Picks == {p \in UNION {[1..n -> Replicas] : n \in 0..MAX_EMBED_ATTEMPTS} : IsInjective(p)}

Embeddings == {embed_query(reply, picks) : reply \in [Replicas -> Dims \cup {Refused}], picks \in Picks}

find_collection(t, c) ==
    /\ Free(t)
    /\ vector_store[c] # NULL
    /\ \E dims \in Embeddings \ {0, Refused} :
          Goes(t, [pc |-> "search", collection |-> c, dims |-> dims,
                   known |-> {j \in ready : request[j].collection = c}])
    /\ UNCHANGED <<queue_vars, request, input, indexed_items, vector_store, ready, restarts>>

(* The rows that the search ranks; a vector of other dimensions is refused.  *)
search_collection(t) ==
    LET q == task[t]
    IN  /\ q.pc = "search"
        /\ Goes(t, IF q.dims # vector_store[q.collection].dims THEN Idle
                   ELSE [pc |-> "answer", known |-> q.known,
                         rows |-> vector_store[q.collection].chunks])
        /\ UNCHANGED <<queue_vars, request, input, indexed_items, vector_store, ready, restarts>>

QueryResponse(t) ==
    /\ task[t].pc = "answer"
    /\ Goes(t, Idle)
    /\ UNCHANGED <<queue_vars, request, input, indexed_items, vector_store, ready, restarts>>

-----------------------------------------------------------------------------
(* The coordinator is killed between two steps of which the first leaves its *)
(* mark, or while it writes the input of a unit.  At other times a crash     *)
(* only ends the requests.                                                   *)
HalfWay ==
    \/ settling # NULL
    \/ \E t \in Tasks : task[t].pc \in {"submit", "upsert", "mark"}

Relaunch ==
    /\ restarts < MaxRestarts
    /\ restarts' = restarts + 1
    /\ view' = [outcome |-> outcome, finished |-> finished]
    /\ settling' = NULL
    /\ task' = [t \in Tasks |-> Idle]
    /\ \/ HalfWay /\ input' = input
       \/ \E u \in Units : input[u] = "absent" /\ input' = [input EXCEPT ![u] = "torn"]
    /\ UNCHANGED <<outcome, finished, request, indexed_items, vector_store, ready>>

IngestionNext ==
    \/ \E result \in SettledUnits : result # <<>> /\ SettleUnits(result)
    \/ SetJobState \/ SettleCommits
    \/ \E j \in Jobs, corpus \in BatchCorpora : admin_submit_job(j, corpus)
    \/ \E t \in Tasks, c \in Collections :
          \/ \E corpus \in Corpora : submit(t, c, corpus)
          \/ \E j \in Jobs : status(t, j, c)
          \/ find_collection(t, c)
    \/ \E t \in Tasks :
          \/ submit_job(t)
          \/ job_status(t) \/ job_details(t) \/ job_finalization(t)
          \/ _finalize(t) \/ create_collection(t) \/ upsert(t) \/ mark_job_finalized(t)
          \/ search_collection(t) \/ QueryResponse(t)
    \/ Relaunch

IngestionSpec == IngestionInit /\ [][IngestionNext]_ingestion_vars

-----------------------------------------------------------------------------
(* A recorded finalization is true: the count is that of the texts of the    *)
(* job's succeeded units, and the collection has them all, though two        *)
(* requests may finalize at once, each from reads of its own, and a crash    *)
(* may come between the two databases.                                       *)
FinalizedIsIndexed ==
    \A j \in Jobs : indexed_items[j] # NULL =>
        LET texts == TextsOf({u \in Units : outcome[j][u] \in Succeeded})
        IN  /\ indexed_items[j] = Cardinality(texts)
            /\ texts # {} => texts \subseteq vector_store[request[j].collection].chunks

(* A query that begins after an ingestion was reported READY searches every  *)
(* text that was submitted with it.                                          *)
ReadyIsSearchable ==
    \A t \in Tasks : task[t].pc = "answer" =>
        \A j \in task[t].known : TextsOf(request[j].corpus) \subseteq task[t].rows

(* Both: what the two databases and the answers say of an ingestion is true  *)
(* (rag_ingestion.py _finalize, rag/store.py, rag/query.py).                 *)
IngestionSound == FinalizedIsIndexed /\ ReadyIsSearchable

=============================================================================
