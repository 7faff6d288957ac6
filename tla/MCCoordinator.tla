---------------------------- MODULE MCCoordinator ----------------------------
(* The parts of the coordinator beside the queue, the registry, the relay and *)
(* the routing of the gateway, and how an agent is brought to it: the join    *)
(* files, the dial, the start, what it senses of its user.  They run one at a *)
(* time: `part` names the one and the others rest, so that the states of the  *)
(* run are the sum of theirs.                                                 *)
EXTENDS Quota, Standby, Ingestion, Churn, ChatBody, SiteDial, JoinBundles, AgentCtl, IdleSense, TLC

CONSTANTS u1, u2, f1, f2, x, y, z

VARIABLES part,
          agent_row, last_seen, mem_free, catalogue, desired, enroll, call, happened,
          config, stored, process, open, tasks, counters, listening, record, deaths,
          policy, cursor, eligible, handed, reported, live, served, asked, placed

(* Assignments: two machines, the second with a GPU and not yet enrolled, and *)
(* two models, the second for a GPU and not yet registered.                   *)
Assigning == INSTANCE Assignments WITH
    Agents <- 1..2, Models <- 1..2, Enrolled <- {1}, Registered <- {1}, Requests <- {1},
    Manifests <- <<[ram |-> 1, vram |-> 0, size |-> 2], [ram |-> 1, vram |-> 1, size |-> 1]>>,
    DeviceCaps <- <<[ram |-> 1, gpus |-> {}], [ram |-> 1, gpus |-> {1}]>>,
    MaxEvents <- 3

assigning_vars == <<agent_row, last_seen, mem_free, catalogue, desired, enroll, call, happened>>

(* Ingestion: two units that share a text.                                    *)
MCJobs == 1..2
MCCorpora == {{u1, u2}}
MCBatchCorpora == {{u2}}
MCUnitTexts == (u1 :> {x, y}) @@ (u2 :> {y, z})
MCPayloadDims == (f1 :> 1) @@ (f2 :> 2)

(* The estimates: two hours; a machine without a history is just at the       *)
(* threshold.                                                                 *)
MCHourOf == [t \in Times |-> IF t = 0 THEN 0 ELSE 1]
MCPrior == <<9, 10>>
MCWeight == <<1, 10>>
MCThreshold == <<9, 10>>

(* The bodies: one that is sent on, one that asks for context, and one for    *)
(* each way to be refused or judged.                                          *)
User(text) == [role |-> "user", content |-> text]
Plain == [model |-> 1, messages |-> <<User(<<5>>)>>, n |-> NULL, max_tokens |-> NULL,
          temperature |-> NULL, rag |-> NULL]
Asks(k) == [Plain EXCEPT !.rag = [collection |-> 1, k |-> k]]
Long == <<5, 5, 5, 5>>

MCChatBodies ==
    {Plain, Asks(0), Asks(1), Asks(2), [Plain EXCEPT !.rag = Odd], [Asks(1) EXCEPT !.rag.collection = NULL]}
    \cup {[Plain EXCEPT !.model = m] : m \in {NULL, Odd, 2, 3, 4}}
    \cup {[b EXCEPT !.messages = ms] : b \in {Plain, Asks(1)},
              ms \in {<<>>, Odd, NULL, <<[role |-> NULL, content |-> <<5>>]>>, <<User(Odd)>>,
                      <<User(<<5, Fence>>), [role |-> "system", content |-> <<5>>]>>,
                      <<User(Long), User(Long), User(<<>>)>>}}
    \cup {[Plain EXCEPT !.n = v, !.max_tokens = w] : v \in {NULL, Odd, 1, 2}, w \in {NULL, Odd, 0, 1}}
    \cup {[Plain EXCEPT !.temperature = 3]}

(* The chunks: every short text, and markers torn apart by markers, twice.    *)
Torn(outer, inner) ==
    {SubSeq(outer, 1, i) \o inner \o SubSeq(outer, i + 1, Len(outer)) : i \in 0..Len(outer)}
Markers == {CONTEXT_BEGIN, CONTEXT_END}
Nested == UNION {Torn(m, k) : m, k \in Markers}
NestedTwice == UNION {Torn(m, k) : m \in Nested, k \in Markers}
ShortTexts(n) == BoundedSeq({OpenSign, 2, 3, CloseSign}, n)

MCRetrieved ==
    {<<>>} \cup {<<t>> : t \in ShortTexts(3) \cup Nested \cup NestedTwice}
           \cup {<<t, w>> : t, w \in ShortTexts(2)}

(* The join files: one that is accepted, two like it, and one for each way to *)
(* be refused; the profiles of a later start, also damaged ones.              *)
At(v6, n) == [v6 |-> v6, addr |-> n, port |-> 1]
Https(e) == [at |-> e, usable |-> TRUE]
Join ==
    [text |-> "utf8", lone_surrogate |-> FALSE, duplicate_key |-> FALSE, version |-> 1,
     keys |-> {"version", "site_id", "coordinator_urls", "coordinator_spki_sha256",
               "enrollment_token", "mdns_service"},
     site_id |-> Site, enrollment_token |-> 1, mdns_service |-> ServiceName,
     coordinator_urls |-> <<Https(At(0, 1)), Https(At(0, 2))>>,
     coordinator_spki_sha256 |-> <<[key |-> 1, canonical |-> TRUE]>>]

MCJoinFiles ==
    {Join, [Join EXCEPT !.text = "latin1"], [Join EXCEPT !.lone_surrogate = TRUE],
     [Join EXCEPT !.duplicate_key = TRUE], [Join EXCEPT !.keys = @ \cup {"extra"}],
     [Join EXCEPT !.keys = @ \ {"mdns_service"}], [Join EXCEPT !.version = 2],
     [Join EXCEPT !.site_id = NULL], [Join EXCEPT !.enrollment_token = NULL]}
    \cup {[Join EXCEPT !.mdns_service = v] : v \in {NULL, ServiceName + 1}}
    \cup {[Join EXCEPT !.coordinator_urls = v] :
              v \in {<<>>, <<Https(At(0, 2))>>, <<Https(At(0, 1)), Https(At(0, 1))>>,
                     <<Https(At(0, 1)), [at |-> At(0, 2), usable |-> FALSE]>>}}
    \cup {[Join EXCEPT !.coordinator_spki_sha256 = v] :
              v \in {<<>>, <<[key |-> 1, canonical |-> FALSE]>>}}

MCProfiles ==
    LET p == Profile(Join)
    IN  {p, [p EXCEPT !.urls = <<>>], [p EXCEPT !.urls[1].usable = FALSE],
         [p EXCEPT !.urls[2].usable = FALSE], [p EXCEPT !.pins[1].canonical = FALSE],
         [p EXCEPT !.site_id = NULL], [p EXCEPT !.mdns = ServiceName + 1]}

(* The invocations: two of up to two files each, or one of three with a      *)
(* careful one of one file, the third for a rollback that stops in the       *)
(* middle.                                                                   *)
Batches ==
    /\ flw[2].count < 3
    /\ flw[1].count = 3 => flw[2] = NewRun(FALSE, 1)
    /\ flw[1].count < 3 => joinfile[3] = NULL

(* The coordinator's addresses, and answers of this site, of none, of two.    *)
Ip(v6, n, kind) == [v6 |-> v6, addr |-> n, kind |-> kind]
Entry == [service |-> TRUE, sites |-> <<Site>>, port |-> 1, v4 |-> Ip(0, 2, "link4"),
          v6 |-> Ip(1, 4, "unicast")]
MCHosts ==
    {{Ip(0, 3, "unicast"), Ip(1, 1, "link6")}, {Ip(0, 0, "unspecified")},
     {Ip(0, 2, "unicast"), Ip(0, 3, "unicast")}}
MCNoise ==
    {<<>>, <<Entry>>,
     <<[Entry EXCEPT !.sites = <<Site, Site + 1>>], [Entry EXCEPT !.port = 0],
       [Entry EXCEPT !.service = FALSE], [Entry EXCEPT !.v4 = NULL]>>}

(* What a start may find beside the identity, and the configurations: a usual *)
(* one with any two of its keys set in another way.                           *)
MCConditions ==
    [config : BOOLEAN, readable : BOOLEAN, idle : {"seconds", "nan"}, assume_idle : BOOLEAN,
     pins : BOOLEAN, join_parses : BOOLEAN, llama : {"file", "missing"}, offset : {NULL, 120, -121}]

Key(file, env) == [file |-> file, env |-> env]

Usual ==
    [coordinator_url |-> Key("http", NULL), bind_host |-> Key("loopback", NULL),
     llama_server_binary |-> Key("set", NULL), state_path |-> Key(NULL, NULL), port |-> Key(NULL, NULL),
     work_poll_timeout_s |-> Key(NULL, NULL), site_join_bundle |-> Key(NULL, NULL),
     unknown_key |-> FALSE]

Settings ==
    [coordinator_url |-> [file : {NULL, "", "http", "ftp"}, env : {NULL, "", "http", "ftp"}],
     bind_host |-> [file : {NULL, "", "loopback", "tailnet", "any4", "wildcard"},
                    env : {NULL, "", "tailnet", "any4"}],
     llama_server_binary |-> [file : {NULL, "", "set"}, env : {NULL, "", "set"}],
     state_path |-> [file : {NULL, "", "set"}, env : {NULL, "", "set"}],
     port |-> [file : {NULL, "negative", "zero", "positive"},
               env : {NULL, "", "junk", "negative", "zero", "positive"}],
     work_poll_timeout_s |-> [file : {NULL, "negative", "zero", "positive"}, env : {NULL}],
     site_join_bundle |-> [file : {NULL, "", "set"}, env : {NULL, "", "set"}],
     unknown_key |-> BOOLEAN]

MCConfigurations ==
    LET Keys == DOMAIN Settings
    IN  UNION {{[Usual EXCEPT ![k] = v, ![l] = w] : v \in Settings[k], w \in Settings[l]} : k, l \in Keys}

MCSmoothing == <<1, 2>>

(* The process itself: an origin and a host for each way to be refused, a     *)
(* usual configuration with its entry, Site Mode or the record and one more   *)
(* key set in another way, and the databases of every earlier release.        *)
Url ==
    [control |-> FALSE, https |-> TRUE, plain_authority |-> TRUE, port |-> NULL, query |-> NULL,
     fragment |-> NULL, path |-> "root", host |-> [family |-> "name", address |-> "name"]]

UrlSettings ==
    [control |-> {TRUE}, https |-> {FALSE}, plain_authority |-> {FALSE},
     port |-> {"valid", "zero", "malformed"}, query |-> {"empty", "given"},
     fragment |-> {"empty", "given"}, path |-> {"params", "other"},
     host |-> {NULL} \cup [family : {"v4", "v6", "mapped"},
                           address : {"unicast", "unspecified", "loopback", "multicast", "link_local"}]]

Origins == {Url} \cup UNION {{[Url EXCEPT ![k] = v] : v \in UrlSettings[k]} : k \in DOMAIN Url}

Bound(spelling, literal, resolves) ==
    [spelling |-> spelling, literal |-> literal, resolves |-> resolves, ambiguous |-> FALSE]

BindHosts ==
    {Bound("empty", NULL, {"any"}), Bound("star", NULL, {}), Bound("zero", NULL, {"any"}),
     Bound("digits", "unicast", {"unicast"}), Bound("digits", "any", {"any"}),
     Bound("digits", NULL, {"any"}), Bound("digits", NULL, {}), Bound("padded", NULL, {}),
     Bound("literal", "mapped_any", {}), Bound("literal", "any", {"any"}),
     Bound("literal", "unicast", {"unicast"}), Bound("name", NULL, {"unicast", "mapped_any"}),
     Bound("name", NULL, {}), Bound("name", NULL, {"unicast"}),
     [Bound("name", NULL, {"unicast"}) EXCEPT !.ambiguous = TRUE]}

SiteConf ==
    [entry |-> "serve", fields_valid |-> TRUE, site |-> TRUE, site_id |-> "plain",
     public_urls |-> <<Url>>, tls |-> "valid", host |-> Bound("digits", "unicast", {"unicast"}),
     mdns |-> TRUE, standby |-> "apart"]

ConfSettings ==
    [entry |-> {"factory"}, fields_valid |-> {FALSE}, site |-> {FALSE},
     site_id |-> {NULL, "blank", "long"},
     public_urls |-> {<<>>, <<Url, Url>>} \cup {<<u>> : u \in Origins},
     tls |-> {"unset", "missing", "broken", "expired"}, host |-> BindHosts, mdns |-> {FALSE},
     standby |-> {NULL, "db_path", "partial_is_db_path"}]

MCConfs ==
    {SiteConf} \cup
    UNION {{[SiteConf EXCEPT ![k] = v, ![l] = w] : v \in ConfSettings[k], w \in ConfSettings[l]} :
               k \in {"entry", "site", "mdns"}, l \in DOMAIN SiteConf}

(* A database of each release, and a rag database of each kind, under the     *)
(* usual configuration; a usual database under each configuration.            *)
Disk(columns, rag) == [columns |-> columns, members |-> FALSE, rag |-> rag, counters |-> 1]

MCDisks ==
    {Disk(k, "none") : k \in {NULL, 0, 2, 3, 5, 9, 10}}
    \cup {Disk(12, r) : r \in {"none", "current", "newer", "unversioned", "damaged"}}

Life == INSTANCE CoordinatorStart WITH
    Configs <- MCConfs, Disks <- MCDisks, MaxCount <- 2, MaxDeaths <- 2

NewDisk == Disk(NULL, "none")

(* Handouts: two requests, three machines and two replicas.                   *)
Handing == INSTANCE Handouts WITH
    Machines <- 1..3, Ports <- 1..2, Requests <- 1..2, MaxCursor <- 4, MaxReported <- 1

-----------------------------------------------------------------------------
handing_vars == <<policy, cursor, eligible, handed, reported, live, served, asked, placed>>

life_vars == <<config, stored, process, open, tasks, counters, listening, record, deaths>>

joining_vars == <<dial_vars, join_vars, start_vars, ctl_vars, sense_vars>>

parts_vars == <<part, quota_vars, standby_vars, ingestion_vars, churn_vars, exchange,
                assigning_vars, joining_vars, life_vars, handing_vars>>

(* The variables of a part that rests are NULL where they are large.          *)
MCInit ==
    /\ part \in {"quota", "standby", "ingestion", "churn", "chat", "assignments", "dial", "join",
                "start", "config", "senses", "life", "handing"}
    /\ QuotaInit /\ StandbyInit /\ IngestionInit /\ ChurnInit /\ ChatInit
    /\ IF part = "start" THEN TRUE ELSE agent = "go" /\ siteMode = TRUE
    /\ StartInit
    /\ IF part = "config" THEN CtlInit
       ELSE conf = NULL
    /\ IF part = "join" THEN JoinInit /\ Batches
       ELSE joinfile = NULL /\ flw = NULL
    /\ IF part = "dial" THEN DialInit
       ELSE /\ peer = NULL /\ advert = NULL /\ boot = NULL /\ told = NULL
            /\ changes = NULL
    /\ IF part = "senses" THEN SenseInit
       ELSE /\ machine = NULL /\ now = NULL /\ last = NULL /\ longest = NULL
            /\ half = NULL /\ sample = NULL /\ predictor = NULL
    /\ IF part = "assignments" THEN Assigning!AssignInit
       ELSE /\ agent_row = NULL /\ last_seen = NULL /\ mem_free = NULL /\ catalogue = NULL
            /\ desired = NULL /\ enroll = NULL /\ call = NULL /\ happened = NULL
    /\ IF part = "life" THEN (config = SiteConf \/ stored = NewDisk) /\ Life!CoordinatorInit
       ELSE /\ config = NULL /\ stored = NULL /\ process = NULL /\ open = NULL
            /\ tasks = NULL /\ counters = NULL /\ listening = NULL /\ record = NULL
            /\ deaths = NULL
    /\ IF part = "handing" THEN Handing!HandoutInit
       ELSE /\ policy = NULL /\ cursor = NULL /\ eligible = NULL /\ handed = NULL
            /\ reported = NULL /\ live = NULL /\ served = NULL /\ asked = NULL
            /\ placed = NULL

QuotaStep ==
    /\ part = "quota"
    /\ QuotaNext
    /\ UNCHANGED <<part, standby_vars, ingestion_vars, churn_vars, exchange, assigning_vars,
                   joining_vars, life_vars, handing_vars>>

StandbyStep ==
    /\ part = "standby"
    /\ StandbyNext
    /\ UNCHANGED <<part, quota_vars, ingestion_vars, churn_vars, exchange, assigning_vars,
                   joining_vars, life_vars, handing_vars>>

IngestionStep ==
    /\ part = "ingestion"
    /\ IngestionNext
    /\ UNCHANGED <<part, quota_vars, standby_vars, churn_vars, exchange, assigning_vars,
                   joining_vars, life_vars, handing_vars>>

ChurnStep ==
    /\ part = "churn"
    /\ ChurnNext
    /\ UNCHANGED <<part, quota_vars, standby_vars, ingestion_vars, exchange, assigning_vars,
                   joining_vars, life_vars, handing_vars>>

ChatStep ==
    /\ part = "chat"
    /\ ChatNext
    /\ UNCHANGED <<part, quota_vars, standby_vars, ingestion_vars, churn_vars, assigning_vars,
                   joining_vars, life_vars, handing_vars>>

AssignmentsStep ==
    /\ part = "assignments"
    /\ Assigning!AssignNext
    /\ UNCHANGED <<part, quota_vars, standby_vars, ingestion_vars, churn_vars, exchange,
                   joining_vars, life_vars, handing_vars>>

DialStep ==
    /\ part = "dial"
    /\ DialNext
    /\ UNCHANGED <<part, quota_vars, standby_vars, ingestion_vars, churn_vars, exchange,
                   assigning_vars, join_vars, start_vars, ctl_vars, sense_vars, life_vars, handing_vars>>

JoinStep ==
    /\ part = "join"
    /\ JoinNext
    /\ UNCHANGED <<part, quota_vars, standby_vars, ingestion_vars, churn_vars, exchange,
                   assigning_vars, dial_vars, start_vars, ctl_vars, sense_vars, life_vars, handing_vars>>

StartStep ==
    /\ part = "start"
    /\ StartNext
    /\ UNCHANGED <<part, quota_vars, standby_vars, ingestion_vars, churn_vars, exchange,
                   assigning_vars, dial_vars, join_vars, ctl_vars, sense_vars, life_vars, handing_vars>>

SensesStep ==
    /\ part = "senses"
    /\ SenseNext
    /\ UNCHANGED <<part, quota_vars, standby_vars, ingestion_vars, churn_vars, exchange,
                   assigning_vars, dial_vars, join_vars, start_vars, ctl_vars, life_vars, handing_vars>>

LifeStep ==
    /\ part = "life"
    /\ Life!CoordinatorNext
    /\ UNCHANGED <<part, quota_vars, standby_vars, ingestion_vars, churn_vars, exchange,
                   assigning_vars, joining_vars, handing_vars>>

HandingStep ==
    /\ part = "handing"
    /\ Handing!HandoutNext
    /\ UNCHANGED <<part, quota_vars, standby_vars, ingestion_vars, churn_vars, exchange,
                   assigning_vars, joining_vars, life_vars>>

MCNext ==
    \/ QuotaStep
    \/ StandbyStep
    \/ IngestionStep
    \/ ChurnStep
    \/ ChatStep
    \/ AssignmentsStep
    \/ DialStep
    \/ JoinStep
    \/ StartStep
    \/ SensesStep
    \/ LifeStep
    \/ HandingStep

MCSpec == MCInit /\ [][MCNext]_parts_vars

(* The properties of Assignments on this instance: what the operator's calls  *)
(* answered is what the assignments say (admin_routes.py).                    *)
AssignmentsSound == part = "assignments" => Assigning!AssignIsExact /\ Assigning!SweepAccounts

(* How an agent is brought to its coordinator: the join files are written     *)
(* whole or not at all (join_bundles.py), and the agent that is given one     *)
(* talks to the coordinator it names (siteclient.go, site.go) with the        *)
(* configuration both loaders and the doctor read alike (config.go,           *)
(* settings.py, doctor.go).                                                   *)
JoiningSound ==
    /\ part = "join" => BatchIsWhole
    /\ part = "dial" => DialSound
    /\ part = "config" => LoadersAgree
    /\ part = "start" => DoctorForetells


(* The process of the coordinator, from its configuration to its end          *)
(* (config.py, factory.py and the stores it opens).                           *)
LifeSound ==
    part = "life" => /\ Life!ServingIsReady /\ Life!LifespanNests
                     /\ Life!CountsAreKept /\ Life!SiteIsExact

(* The requests of the ingestion are interchangeable.                         *)
PartsSymmetry == Permutations(Tasks)

=============================================================================
