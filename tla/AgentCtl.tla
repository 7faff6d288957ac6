------------------------------ MODULE AgentCtl ------------------------------
(***************************************************************************)
(* What a machine's configuration says, and what `agentctl doctor` says    *)
(* about the machine.  One TOML file and the environment serve either      *)
(* agent (go-agent/config, fallow_agent/main/settings.py); the doctor      *)
(* looks at the same files as a start does, by code of its own             *)
(* (go-agent/cmd/agentctl).                                                *)
(*                                                                         *)
(* A key of the configuration is [file, env], what each of the two says:   *)
(* NULL when it says nothing, else the kind of the value: "any4" is the    *)
(* address 0.0.0.0, "wildcard" any other name for all interfaces.  A port  *)
(* stands for the start and the count of port_range, work_poll_timeout_s   *)
(* for either duration, which the environment does not set.                *)
(***************************************************************************)
EXTENDS SiteStart, FiniteSets

CONSTANT Configurations \* the configurations to be loaded

VARIABLE conf

ctl_vars == <<conf>>

CtlInit == conf \in Configurations

Setting(value, from) == [is |-> value, from |-> from]

-----------------------------------------------------------------------------
(* The loader in Go.                                                         *)

(* An empty variable is no variable; a key that is missing is empty.         *)
override(key) ==
    IF key.env \notin {NULL, ""} THEN Setting(key.env, "env")
    ELSE Setting(IF key.file = NULL THEN "" ELSE key.file, "file")

orDefault(taken) == IF taken.is = "" THEN Setting("set", "default") ELSE taken

floatOrDefault(key) == IF key.file = NULL THEN Setting("positive", "default") ELSE Setting(key.file, "file")

(* Mutated: a number that is no port gives way to the default as well.       *)
PortOrDefault(key) ==
    IF key.file # "positive" THEN Setting("positive", "default") ELSE Setting(key.file, "file")

resolvePortRange(key) ==
    IF key.file \in {NULL, "zero"} THEN Setting("positive", "default") ELSE Setting(key.file, "file")

applyPortEnv(key) ==
    IF key.env \notin {NULL, ""} THEN Setting(key.env, "env") ELSE resolvePortRange(key)

resolve(c) ==
    [coordinator_url |-> override(c.coordinator_url), bind_host |-> override(c.bind_host),
     llama_server_binary |-> override(c.llama_server_binary),
     state_path |-> orDefault(override(c.state_path)),
     port |-> applyPortEnv(c.port), work_poll_timeout_s |-> floatOrDefault(c.work_poll_timeout_s)]

SiteMode(c) == override(c.site_join_bundle).is # ""

validate(c, s) ==
    /\ IF SiteMode(c) THEN s.bind_host.is = "loopback"
       ELSE s.coordinator_url.is = "http" /\ s.bind_host.is \notin {"", "any4"}
    /\ s.llama_server_binary.is # ""
    /\ s.port.is = "positive"
    /\ s.work_poll_timeout_s.is = "positive"

(* NULL: the configuration is refused.                                       *)
Load(c) == IF validate(c, resolve(c)) THEN resolve(c) ELSE NULL

-----------------------------------------------------------------------------
(* The loader in Python.                                                     *)

(* A key that is not known is an error.                                      *)
_read_toml(c) == c.site_join_bundle.file = NULL /\ ~c.unknown_key

(* A variable that is set counts, be it empty.                               *)
_override_scalar(key, default) ==
    IF key.env # NULL THEN Setting(key.env, "env")
    ELSE IF key.file # NULL THEN Setting(key.file, "file") ELSE default

Missing == Setting(NULL, "default")

(* What is not an integer is refused, whether here or below.                 *)
_override_port_range(key) == _override_scalar(key, Setting("positive", "default"))

_apply_env_overrides(c) ==
    [coordinator_url |-> _override_scalar(c.coordinator_url, Missing),
     bind_host |-> _override_scalar(c.bind_host, Missing),
     llama_server_binary |-> _override_scalar(c.llama_server_binary, Missing),
     state_path |-> _override_scalar(c.state_path, Setting("set", "default")),
     port |-> _override_port_range(c.port),
     work_poll_timeout_s |-> _override_scalar(c.work_poll_timeout_s, Setting("positive", "default"))]

validate_bind_host(host) == host \notin {"", "any4", "wildcard"}

AgentSettings(s) ==
    /\ s.coordinator_url.is = "http"
    /\ s.bind_host.is # NULL /\ validate_bind_host(s.bind_host.is)
    /\ s.llama_server_binary.is # NULL
    /\ s.port.is = "positive"
    /\ s.work_poll_timeout_s.is = "positive"

load_settings(c) ==
    IF _read_toml(c) /\ AgentSettings(_apply_env_overrides(c)) THEN _apply_env_overrides(c) ELSE NULL

-----------------------------------------------------------------------------
(* The doctor, of a machine in a condition c.                                *)

doctorIdentity(c) == flag = NULL /\ ~Unreadable(c)

doctorLlama(c) == c.llama = "file"

doctorIdle(c) == c.assume_idle \/ c.idle = "seconds"

(* The stored profile if it can be read, or else that of the join file.      *)
doctorProfile(c) ==
    IF identity # NULL /\ c.readable /\ identity.site THEN c.pins
    ELSE join # NULL /\ c.join_parses

doctorPinnedTLS(c) == siteMode => doctorProfile(c)

(* Only an offset that could be measured, and is too large, is a failure.    *)
doctorClock(c) == (siteMode /\ doctorProfile(c) /\ c.offset # NULL) => c.offset \in (-120)..120

runDoctor(c) ==
    /\ c.config
    /\ doctorIdentity(c) /\ doctorLlama(c) /\ doctorIdle(c) /\ doctorPinnedTLS(c) /\ doctorClock(c)

-----------------------------------------------------------------------------
(* Properties.                                                               *)

(* A file of the keys both agents know, without empty values, a zero for a   *)
(* port or an address that only one of them takes for a wildcard.            *)
PlainFile(c) ==
    /\ c.site_join_bundle = [file |-> NULL, env |-> NULL] /\ ~c.unknown_key
    /\ \A k \in DOMAIN c \ {"unknown_key"} : c[k].file # "" /\ c[k].env # ""
    /\ c.port.file # "zero"
    /\ "wildcard" \notin {c.bind_host.file, c.bind_host.env}

(* One file serves either agent: of a plain configuration, either both       *)
(* loaders refuse it or both take the same value of every key from the same  *)
(* place (config.go Load, settings.py load_settings).                        *)
LoadersAgree == PlainFile(conf) => Load(conf) = load_settings(conf)

(* The doctor foretells the start: on a machine it passes, a start is not    *)
(* refused for anything it looks at; what it does not look at is whether the *)
(* stored identity is of the configured mode and whether there is a token to *)
(* enrol with.  On a machine it fails, a start that would be accepted lacks  *)
(* only the binary or a correct clock, or finds a marker that enrolment will *)
(* clear.                                                                    *)
DoctorForetells ==
    agent = "go" => \A c \in Conditions :
        /\ runDoctor(c) => RefusedFor(c) \in {NULL, "mode", "enrolment"}
        /\ (~runDoctor(c) /\ RefusedFor(c) = NULL) =>
              ~doctorLlama(c) \/ ~doctorClock(c) \/ (flag # NULL /\ identity = NULL)

=============================================================================
