----------------------------- MODULE SiteStart -----------------------------
(***************************************************************************)
(* How an agent comes by its identity and loses it: the one registration   *)
(* that a token allows, the identity file, the marker that keeps a revoked *)
(* machine down, direct and Site Mode (go-agent/runtime/runtime.go,        *)
(* site.go, identity.go and state/), and the agent in Python, which has    *)
(* neither Site Mode nor marker (fallow_agent/main/enroll.py, identity.py).*)
(* Identity n is the one that token n yields.  The process may die between *)
(* any two of its writes.                                                  *)
(***************************************************************************)
EXTENDS Null, Integers

CONSTANTS
    Conditions, \* what else a start may find: the configuration, the detector ...
    MaxTokens   \* bound on the tokens handed out

ASSUME StartAssumption == MaxTokens \in Nat /\ NULL \notin Nat

VARIABLES
    identity,   \* the identity file: NULL or [id, site]
    join,       \* the join file (Site Mode) or configured token: NULL or the token
    flag,       \* revoked.flag: NULL or the identity it was written for
    siteMode,   \* the configuration: whether site_join_bundle is set
    agent,      \* which agent is installed, "go" or "python"
    tokens,     \* tokens handed out so far
    spent,      \* the tokens the coordinator has taken
    revoked,    \* the identities the coordinator has revoked
    proc        \* the daemon: where it is, the identity it holds

files == <<identity, join, flag, siteMode, agent>>

coordinator == <<tokens, spent, revoked>>

start_vars == <<files, coordinator, proc>>

Down == [pc |-> "down", id |-> NULL, site |-> FALSE]

ProcAt(pc, id) == [pc |-> pc, id |-> id, site |-> siteMode]

StartInit ==
    /\ identity = NULL /\ join = NULL /\ flag = NULL
    /\ agent \in {"go", "python"}
    /\ siteMode \in IF agent = "go" THEN BOOLEAN ELSE {FALSE}
    /\ tokens = 0 /\ spent = {} /\ revoked = {}
    /\ proc = Down

(* The operator installs the machine with a fresh token, in either mode, and *)
(* without the identity it may have had.                                     *)
Reinstall ==
    /\ proc = Down
    /\ tokens < MaxTokens
    /\ tokens' = tokens + 1
    /\ join' = tokens'
    /\ identity' = NULL
    /\ siteMode' \in IF agent = "go" THEN BOOLEAN ELSE {FALSE}
    /\ UNCHANGED <<flag, agent, spent, revoked, proc>>

(* The operator sets or unsets site_join_bundle on an installed machine.     *)
Reconfigure ==
    /\ proc = Down /\ agent = "go"
    /\ siteMode' = ~siteMode
    /\ UNCHANGED <<identity, join, flag, agent, coordinator, proc>>

revoke_agent(n) ==
    /\ n \in spent
    /\ revoked' = revoked \cup {n}
    /\ UNCHANGED <<files, tokens, spent, proc>>

(* What state.Load makes of an identity file that cannot be read or parsed.  *)
Unreadable(c) == identity # NULL /\ ~c.readable

(* A marker counts as long as there is an identity beside it, readable or    *)
(* not.                                                                      *)
Revoked == agent = "go" /\ flag # NULL /\ identity # NULL

(* The daemon in Go does not start where it cannot see the user, unless it   *)
(* is told that there is none.                                               *)
checkIdleDetection(c) == c.idle = "seconds" \/ c.assume_idle \/ agent = "python"

(* Site Mode wants a profile it can pin to: the stored one, or that of a     *)
(* join file it can parse.                                                   *)
siteIdentity(c) == IF identity # NULL THEN c.pins ELSE c.join_parses

(* The reasons a start may be refused for, in the order they are met.        *)
Refusals(c) ==
    << [why |-> "config",    is |-> ~c.config],
       [why |-> "revoked",   is |-> Revoked],
       [why |-> "idle",      is |-> ~checkIdleDetection(c)],
       [why |-> "identity",  is |-> Unreadable(c)],
       [why |-> "mode",      is |-> identity # NULL /\ identity.site # siteMode],
       [why |-> "enrolment", is |-> identity = NULL /\ join = NULL],
       [why |-> "profile",   is |-> siteMode /\ ~siteIdentity(c)] >>

Met(c) == {i \in 1..7 : Refusals(c)[i].is}

RefusedFor(c) ==
    IF Met(c) = {} THEN NULL ELSE Refusals(c)[CHOOSE i \in Met(c) : \A k \in Met(c) : i <= k].why

(* An identity is resumed; without one the machine enrols.                   *)
resolveIdentity ==
    IF identity # NULL THEN ProcAt("running", identity.id) ELSE ProcAt("registering", join)

(* Mutated: a marker is no reason not to start.                              *)
RunAnyway(c) ==
    /\ proc = Down /\ agent = "go"
    /\ Met(c) \ {2} = {}
    /\ proc' = resolveIdentity
    /\ UNCHANGED <<files, coordinator>>

(* A start that is refused leaves everything as it is.                       *)
Run(c) ==
    /\ proc = Down /\ agent = "go"
    /\ Met(c) = {}
    /\ proc' = resolveIdentity
    /\ UNCHANGED <<files, coordinator>>

(* The agent in Python.                                                      *)
resolve_identity(c) ==
    /\ proc = Down /\ agent = "python"
    /\ Met(c) = {}
    /\ proc' = resolveIdentity
    /\ UNCHANGED <<files, coordinator>>

(* Registration is never tried again: it succeeds, it is refused, or it may  *)
(* have succeeded without an answer.                                         *)
Register ==
    /\ proc.pc = "registering"
    /\ \/ /\ proc.id \notin spent
          /\ spent' = spent \cup {proc.id}
          /\ proc' \in {ProcAt("saving", proc.id), Down}
       \/ proc' = Down /\ UNCHANGED spent
    /\ UNCHANGED <<files, tokens, revoked>>

(* Save: a temporary file and a rename; it happens or it fails.              *)
Save ==
    /\ proc.pc = "saving" /\ agent = "go"
    /\ \/ identity' = [id |-> proc.id, site |-> siteMode] /\ proc' = ProcAt("removing", proc.id)
       \/ proc' = Down /\ UNCHANGED identity
    /\ UNCHANGED <<join, flag, siteMode, agent, coordinator>>

(* The same in Python, where nothing more is to be done.                     *)
save_identity ==
    /\ proc.pc = "saving" /\ agent = "python"
    /\ \/ identity' = [id |-> proc.id, site |-> FALSE] /\ proc' = ProcAt("running", proc.id)
       \/ proc' = Down /\ UNCHANGED identity
    /\ UNCHANGED <<join, flag, siteMode, agent, coordinator>>

(* Site Mode removes the join file; that it cannot be removed is only        *)
(* logged.  A configured token stays where it is.                            *)
RemoveJoin ==
    /\ proc.pc = "removing"
    /\ join' \in IF siteMode THEN {NULL, join} ELSE {join}
    /\ proc' = ProcAt("clearing", proc.id)
    /\ UNCHANGED <<identity, flag, siteMode, agent, coordinator>>

(* A marker that cannot be removed is only logged.                           *)
ClearRevoked ==
    /\ proc.pc = "clearing"
    /\ flag' \in {NULL, flag}
    /\ proc' = ProcAt("running", proc.id)
    /\ UNCHANGED <<identity, join, siteMode, agent, coordinator>>

(* fatal: a rejection that names the identity as revoked is written down, if *)
(* it can be, before the daemon stops; any other rejection is not.           *)
fatal ==
    /\ proc.pc = "running"
    /\ flag' \in IF agent = "go" /\ proc.id \in revoked THEN {proc.id, flag} ELSE {flag}
    /\ proc' = Down
    /\ UNCHANGED <<identity, join, siteMode, agent, coordinator>>

(* The process ends, or is killed, where it is.                              *)
DaemonDies ==
    /\ proc # Down
    /\ proc' = Down
    /\ UNCHANGED <<files, coordinator>>

StartNext ==
    \/ Reinstall \/ Reconfigure
    \/ \E c \in Conditions : Run(c) \/ resolve_identity(c)
    \/ Register \/ Save \/ save_identity \/ RemoveJoin \/ ClearRevoked \/ fatal \/ DaemonDies
    \/ \E n \in 1..MaxTokens : revoke_agent(n)

StartSpec == StartInit /\ [][StartNext]_start_vars

----------------------------------------------------------------------------

(* An identity that the coordinator has named as revoked is not used again   *)
(* on this machine, through any restarts, reinstallations and crashes.       *)
RevokedStaysDown == proc.pc = "running" => flag # proc.id

(* The identity that a daemon runs with is the one on disk, and it runs in   *)
(* the mode in which that identity was enrolled: no restart, change of the   *)
(* configuration or crash converts a Site identity or a direct one.          *)
NotConverted == proc.pc = "running" => identity = [id |-> proc.id, site |-> proc.site]

(* Both: whatever restarts, reinstallations, changes of the configuration    *)
(* and crashes come, a daemon runs with an identity that is not marked       *)
(* revoked, in the mode it was enrolled in (runtime.go Run, identity.go,     *)
(* enroll.py).                                                               *)
IdentitySound == RevokedStaysDown /\ NotConverted
============================================================================
