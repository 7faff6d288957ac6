-------------------------- MODULE CoordinatorStart --------------------------
(* The coordinator's process from its configuration to its end: the loading  *)
(* and the checks of the configuration (app/config.py), the two entries      *)
(* (__main__.py, build_app), the building of the app, and the lifespan that  *)
(* opens and migrates the stores, starts the loops, publishes the mDNS       *)
(* record and takes it all down again (app/factory.py, registry, queue and   *)
(* rag stores).  The process may die between any two statements and be       *)
(* started again on what it left on disk.                                    *)
EXTENDS Null, Integers, Sequences, FiniteSets

CONSTANTS
    Configs,        \* the configurations
    Disks,          \* what a first start may find: [columns, members, rag, counters], the
                    \* columns as the number of those below that the writing release had
    MaxCount,       \* bound on the requests counted
    MaxDeaths       \* bound on the crashes and on the starts after a failed one

VARIABLES
    config,         \* the configuration
    stored,         \* on disk: the registry's columns, the memberships, the rag database
                    \* and the quota counters
    process,        \* where the process is, and whether its last start failed
    open,           \* the stores and clients that are open, and "connection": one to a
                    \* database that its store has not taken over
    tasks,          \* the loops that run
    counters,       \* the quota counters in memory: NULL before restore; they stand for
                    \* the daily count of one key, within a day
    listening,      \* how the listener is bound: NULL, or [tls, to]
    record,         \* whether the mDNS record is published
    deaths

life_vars == <<open, tasks, counters, listening, record>>

coordinator_vars == <<config, stored, process, life_vars, deaths>>

(* The columns that later releases added, in the order of the migrations.    *)
Columns ==
    <<"rpm_limit", "daily_limit", "serving_paused",
      "predicted_idle_remaining_s", "predicted_idle_confidence",
      "enrollment_mode", "transport", "presence_sequence", "presence_generation",
      "token_mode", "agent_revoked_at", "token_revoked_at">>

AllColumns == {Columns[i] : i \in DOMAIN Columns}

CoordinatorInit ==
    /\ config \in Configs
    /\ \E disk \in Disks :
          stored = [disk EXCEPT !.columns = IF @ = NULL THEN NULL ELSE {Columns[i] : i \in 1..@}]
    /\ process = [pc |-> "down", step |-> 1, failed |-> FALSE]
    /\ open = {} /\ tasks = {} /\ counters = NULL /\ listening = NULL /\ record = FALSE
    /\ deaths = 0

-----------------------------------------------------------------------------
(* The configuration.  A host is its spelling, the address it is if it is a  *)
(* literal, and what getaddrinfo makes of it.                                *)

_binds_wildcard(address) == address \in {"any", "mapped_any"}

ExactBind(host) ==
    /\ host.spelling \notin {"empty", "star", "zero"}
    /\ host.spelling = "digits" => host.resolves \notin {{}, {"any"}}
    /\ host.spelling = "padded" => host.resolves # {}
    /\ ~ _binds_wildcard(host.literal)
    /\ \A a \in host.resolves : ~ _binds_wildcard(a)

(* The addresses that no peer can dial, IPv4-mapped spellings included.  A   *)
(* link-local address is one only where it is a native IPv6 address.         *)
_undialable_ip_host(host) ==
    \/ host.address \in {"unspecified", "loopback", "multicast"}
    \/ host.address = "link_local" /\ host.family = "v6"

(* Mutated: loopback and wildcard origins are let through.                   *)
AnyRootOrigin(url) ==
    /\ ~ url.control /\ url.https /\ url.plain_authority
    /\ url.port \in {NULL, "valid"}
    /\ url.host # NULL
    /\ url.query # "given" /\ url.fragment # "given"
    /\ url.path \in {"root", "params"}

(* An HTTPS root origin.  urlparse drops an empty query and fragment, so the *)
(* question mark or the hash of one goes unseen, and splits ;parameters off  *)
(* the path, which nothing looks at.                                         *)
RootOrigin(url) ==
    /\ ~ url.control /\ url.https /\ url.plain_authority
    /\ url.port \in {NULL, "valid"}
    /\ url.host # NULL /\ ~ _undialable_ip_host(url.host)
    /\ url.query # "given" /\ url.fragment # "given"
    /\ url.path \in {"root", "params"}

_site_security(c) ==
    c.site =>
        /\ c.site_id # NULL /\ c.public_urls # <<>> /\ c.tls # "unset"
        /\ ExactBind(c.host)
        /\ \A i, j \in DOMAIN c.public_urls : i # j => c.public_urls[i] # c.public_urls[j]
        /\ \A i \in DOMAIN c.public_urls : RootOrigin(c.public_urls[i])
        /\ c.tls = "valid"

(* Neither the destination nor its partial file is the live database.        *)
_standby_path_is_distinct(c) == c.standby \notin {"db_path", "partial_is_db_path"}

(* The environment wins over the file; the fields are checked one by one and *)
(* then together.                                                            *)
load_config(c) == c.fields_valid /\ _site_security(c) /\ _standby_path_is_distinct(c)

(* build_advertisement: the record needs a site id that fits and leaves a    *)
(* label, and addresses, one of each family.                                 *)
_build_mdns(c) ==
    c.site /\ c.mdns =>
        /\ c.site_id = "plain"
        /\ c.host.resolves # {} /\ "any" \notin c.host.resolves
        /\ ~ c.host.ambiguous

Advertises == config.site /\ config.mdns

-----------------------------------------------------------------------------
(* The start.                                                                *)

At(pc) == process.pc = pc

Goto(pc) == process' = [process EXCEPT !.pc = pc, !.step = 1]

Refuse == process' = [pc |-> "down", step |-> 1, failed |-> TRUE]

(* Mutated: the factory serves whatever is configured.                       *)
FactoryAnyway ==
    /\ At("down") /\ ~ process.failed
    /\ IF load_config(config) THEN Goto("building") ELSE Refuse
    /\ UNCHANGED <<config, stored, life_vars, deaths>>

(* serve loads the configuration; build_app refuses Site Mode as well, which *)
(* it could not give its certificate.                                        *)
build_app ==
    /\ At("down") /\ ~ process.failed
    /\ IF load_config(config) /\ (config.entry = "factory" => ~ config.site)
         THEN Goto("building") ELSE Refuse
    /\ UNCHANGED <<config, stored, life_vars, deaths>>

(* create_app: directories, the histories, the record and the pin are made   *)
(* or raise; the HTTP client is made among them, and left to the end of the  *)
(* process if one after it raises.  Nothing else is open.                    *)
create_app ==
    /\ At("building")
    /\ \/ Refuse /\ open' \in {open, open \cup {"client"}}
       \/ _build_mdns(config) /\ Goto("schema") /\ open' = open \cup {"client"}
    /\ UNCHANGED <<config, stored, tasks, counters, listening, record, deaths>>

(* A statement of the lifespan raises: its finally is next.  The registry    *)
(* and the queue take over their connection as the last thing they do: the   *)
(* one of an open that raised stays open, and their close does nothing.      *)
Raises ==
    /\ process.pc \in {"schema", "migrate", "queue", "rag", "restore", "loops", "register", "bind"}
    /\ process' = [pc |-> "unregister", step |-> 1, failed |-> TRUE]
    /\ open' \in {open} \cup IF process.pc \in {"schema", "queue"} THEN {open \cup {"connection"}} ELSE {}
    /\ UNCHANGED <<config, stored, tasks, counters, listening, record, deaths>>

(* SqliteRegistry.open: the schema creates what is missing; a table that an  *)
(* earlier release made keeps the columns it has.                            *)
OpenSchema ==
    /\ At("schema")
    /\ stored' = [stored EXCEPT !.columns = IF @ = NULL THEN AllColumns ELSE @]
    /\ open' = open \cup {"connection"}
    /\ Goto("migrate")
    /\ UNCHANGED <<config, tasks, counters, listening, record, deaths>>

(* Mutated: the first column of a group speaks for all of it.                *)
MigrateGroups(columns, i) ==
    LET first == CASE i \in 1..2 -> 1 [] i = 3 -> 3 [] i \in 4..5 -> 4
                   [] i \in 6..9 -> 6 [] i = 10 -> 10 [] i \in 11..12 -> 11
    IN  IF Columns[first] \in columns /\ i # first THEN columns ELSE columns \cup {Columns[i]}

(* The _migrate_ methods: each column is looked for and added by itself, and *)
(* each ALTER TABLE is durable by itself.                                    *)
MigrateColumn(columns, i) == columns \cup {Columns[i]}

Migrate ==
    /\ At("migrate")
    /\ stored' = [stored EXCEPT !.columns = MigrateColumn(@, process.step)]
    /\ IF process.step < Len(Columns)
         THEN process' = [process EXCEPT !.step = @ + 1] /\ UNCHANGED open
         ELSE Goto("queue") /\ open' = (open \ {"connection"}) \cup {"registry"}
    /\ UNCHANGED <<config, tasks, counters, listening, record, deaths>>

(* SqliteQueueStore.init: the schema, and the memberships of the units that  *)
(* an earlier release wrote without them.                                    *)
QueueInit ==
    /\ At("queue")
    /\ stored' = [stored EXCEPT !.members = TRUE]
    /\ open' = open \cup {"queue"}
    /\ Goto("rag")
    /\ UNCHANGED <<config, tasks, counters, listening, record, deaths>>

(* A rag database of this version must be complete; one of a newer version,  *)
(* or with tables and no version, is refused and kept as it is; otherwise    *)
(* the schema and its version are written in one transaction.                *)
_migrate(rag) == IF rag = "none" THEN "current" ELSE rag

(* RagVectorStore.open: it is open when the migration did not raise, and     *)
(* closes its connection when it did.                                        *)
RagOpen ==
    /\ At("rag")
    /\ IF _migrate(stored.rag) = "current"
         THEN /\ stored' = [stored EXCEPT !.rag = "current"]
              /\ open' = open \cup {"rag"}
              /\ Goto("restore")
         ELSE /\ process' = [pc |-> "unregister", step |-> 1, failed |-> TRUE]
              /\ UNCHANGED <<stored, open>>
    /\ UNCHANGED <<config, tasks, counters, listening, record, deaths>>

(* The counters continue from the last snapshot.                             *)
Restore ==
    /\ At("restore")
    /\ counters' = stored.counters
    /\ Goto("loops")
    /\ UNCHANGED <<config, stored, open, tasks, listening, record, deaths>>

Loops == {"dispatch", "eviction", "quota"} \cup (IF config.standby = NULL THEN {} ELSE {"export"})

StartLoops ==
    /\ At("loops")
    /\ tasks' = Loops
    /\ Goto(IF Advertises THEN "register" ELSE "bind")
    /\ UNCHANGED <<config, stored, open, counters, listening, record, deaths>>

(* Advertised once the stores are open and the loops are running.            *)
Register ==
    /\ At("register")
    /\ record' = TRUE
    /\ Goto("bind")
    /\ UNCHANGED <<config, stored, open, tasks, counters, listening, deaths>>

(* uvicorn binds what serve passes to it; the factory's own options are not  *)
(* in the configuration.                                                     *)
Bind ==
    /\ At("bind")
    /\ config.host.resolves # {}
    /\ listening' = [tls |-> config.entry = "serve" /\ config.site, to |-> config.host.resolves]
    /\ Goto("serving")
    /\ UNCHANGED <<config, stored, open, tasks, counters, record, deaths>>

(* A request is admitted and counted.                                        *)
Count ==
    /\ At("serving") /\ counters < MaxCount
    /\ counters' = counters + 1
    /\ UNCHANGED <<config, stored, process, open, tasks, listening, record, deaths>>

(* quota_snapshot_loop; an error of a snapshot is passed over.               *)
QuotaSnapshot ==
    /\ "quota" \in tasks
    /\ stored' = [stored EXCEPT !.counters = counters]
    /\ UNCHANGED <<config, process, life_vars, deaths>>

-----------------------------------------------------------------------------
(* The end.                                                                  *)

Stop ==
    /\ At("serving")
    /\ listening' = NULL
    /\ Goto("unregister")
    /\ UNCHANGED <<config, stored, open, tasks, counters, record, deaths>>

(* The finally withdraws the record first.  If the goodbye cannot be sent    *)
(* that raises, and _shutdown is not reached.                                *)
Unregister ==
    /\ At("unregister")
    /\ record' = FALSE
    /\ \/ Goto("cancel")
       \/ record /\ process' = [pc |-> "cut_short", step |-> 1, failed |-> TRUE]
    /\ UNCHANGED <<config, stored, open, tasks, counters, listening, deaths>>

(* _shutdown: the loops are cancelled and waited for.                        *)
CancelLoops ==
    /\ At("cancel")
    /\ tasks' = {}
    /\ Goto("snapshot")
    /\ UNCHANGED <<config, stored, open, counters, listening, record, deaths>>

(* Mutated: keys that are not in memory are written as unused.               *)
SnapshotAll ==
    /\ At("snapshot")
    /\ stored' = IF "registry" \in open
                   THEN [stored EXCEPT !.counters = IF counters = NULL THEN 0 ELSE counters]
                   ELSE stored
    /\ Goto("close")
    /\ UNCHANGED <<config, life_vars, deaths>>

(* The last snapshot writes the keys that are in memory; it may fail, and    *)
(* does when the registry was never opened.                                  *)
LastSnapshot ==
    /\ At("snapshot")
    /\ stored' \in {stored} \cup
          IF "registry" \in open /\ counters # NULL
            THEN {[stored EXCEPT !.counters = counters]} ELSE {}
    /\ Goto("close")
    /\ UNCHANGED <<config, life_vars, deaths>>

(* Mutated: the client is forgotten.                                         *)
CloseStores ==
    /\ At("close")
    /\ LET order == <<"rag", "queue", "registry">>
       IN  /\ open' = open \ {order[process.step]}
           /\ IF process.step < Len(order)
                THEN process' = [process EXCEPT !.step = @ + 1] /\ UNCHANGED counters
                ELSE Goto("down") /\ counters' = NULL
    /\ UNCHANGED <<config, stored, tasks, listening, record, deaths>>

(* The client, the rag store, the queue and the registry, in this order.     *)
Close ==
    /\ At("close")
    /\ LET order == <<"client", "rag", "queue", "registry">>
       IN  /\ open' = open \ {order[process.step]}
           /\ IF process.step < Len(order)
                THEN process' = [process EXCEPT !.step = @ + 1] /\ UNCHANGED counters
                ELSE Goto("down") /\ counters' = NULL
    /\ UNCHANGED <<config, stored, tasks, listening, record, deaths>>

(* The process dies, or has come to an end without its cleanup.              *)
Dies ==
    /\ \/ process.pc \notin {"down", "cut_short"} /\ deaths < MaxDeaths /\ deaths' = deaths + 1
       \/ At("cut_short") /\ UNCHANGED deaths
    /\ process' = [pc |-> "down", step |-> 1, failed |-> FALSE]
    /\ open' = {} /\ tasks' = {} /\ counters' = NULL /\ listening' = NULL /\ record' = FALSE
    /\ UNCHANGED <<config, stored>>

(* The operator starts it again.                                             *)
Again ==
    /\ At("down") /\ process.failed /\ deaths < MaxDeaths
    /\ process' = [process EXCEPT !.failed = FALSE]
    /\ open' = {}
    /\ deaths' = deaths + 1
    /\ UNCHANGED <<config, stored, tasks, counters, listening, record>>

CoordinatorNext ==
    \/ build_app
    \/ create_app
    \/ Raises
    \/ OpenSchema
    \/ Migrate
    \/ QueueInit
    \/ RagOpen
    \/ Restore
    \/ StartLoops
    \/ Register
    \/ Bind
    \/ Count
    \/ QuotaSnapshot
    \/ Stop
    \/ Unregister
    \/ CancelLoops
    \/ LastSnapshot
    \/ Close
    \/ Dies
    \/ Again

CoordinatorSpec == CoordinatorInit /\ [][CoordinatorNext]_coordinator_vars

-----------------------------------------------------------------------------
Stores == {"registry", "queue", "rag"}

(* Whatever release wrote the databases and wherever an earlier start died   *)
(* in the middle of migrating them, a coordinator that serves has every      *)
(* column and table it uses, its counters restored and its loops running.    *)
ServingIsReady ==
    At("serving") =>
        /\ stored.columns = AllColumns /\ stored.members /\ stored.rag = "current"
        /\ counters # NULL /\ tasks = Loops /\ Stores \subseteq open

(* A loop never runs on a closed store, and the record never names a         *)
(* coordinator that cannot answer.  After an orderly end nothing is open; a  *)
(* start that failed leaves no store open, and at most one thing beside      *)
(* them: the HTTP client, or the connection of the store that raised.        *)
LifespanNests ==
    /\ tasks # {} => Stores \subseteq open
    /\ record => tasks = Loops
    /\ At("down") => /\ tasks = {} /\ ~ record
                     /\ open \cap Stores = {} /\ Cardinality(open) <= 1
                     /\ ~ process.failed => open = {}

(* What the disk says was counted is never lowered: the memory is never      *)
(* behind it once the counters are restored, so that no snapshot writes      *)
(* less, and a start that failed before it read them writes nothing over the *)
(* count that the first start found (quota_snapshot_loop, _shutdown).        *)
CountsAreKept == stored.counters >= 1 /\ (counters # NULL => counters >= stored.counters)

(* ParseJoin of the agent, for an origin of the join file.                   *)
TakenByAgent(url) ==
    /\ url.https /\ url.host # NULL /\ url.path = "root"
    /\ url.port \in {NULL, "valid"}
    /\ url.query = NULL /\ url.fragment = NULL

(* In Site Mode the coordinator never listens in clear or on every interface *)
(* and the origins in its join files are ones that an agent takes and can    *)
(* dial.  An origin that ends in a bare ? or #, or has ;parameters after its *)
(* slash, is the exception: _site_security lets it pass, and the agent       *)
(* refuses the join file.                                                    *)
SiteIsExact ==
    listening # NULL /\ config.site =>
        /\ listening.tls
        /\ listening.to \cap {"any", "mapped_any"} = {}
        /\ \A i \in DOMAIN config.public_urls :
              LET url == config.public_urls[i]
              IN  /\ url.host.address \notin {"unspecified", "loopback", "multicast"}
                  /\ (url.path = "root" /\ "empty" \notin {url.query, url.fragment}) => TakenByAgent(url)

=============================================================================
