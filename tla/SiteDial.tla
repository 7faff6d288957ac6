------------------------------ MODULE SiteDial ------------------------------
(***************************************************************************)
(* Which coordinator a Site Mode agent talks to: the join file it accepts, *)
(* the static origins of the profile, the fallback to mDNS, and the pinned *)
(* client every exchange goes through (go-agent/siteclient, discovery,     *)
(* runtime/site.go; the coordinator's side in fallow_coordinator/          *)
(* discovery).  An endpoint is [v6, addr, port]; what listens there may    *)
(* change at any time.  A URL is an endpoint and whether it is a usable    *)
(* https origin; a pin is a certificate key and whether it is spelled      *)
(* canonically.                                                            *)
(***************************************************************************)
EXTENDS Null, Integers, Sequences, FiniteSets, SequencesExt

CONSTANTS
    JoinFiles,      \* the join files an agent may be given
    Profiles,       \* the profiles a restarted agent may find in its state file
    Hosts,          \* what the coordinator may be configured to listen on
    Noise,          \* sequences of answers of other responders
    MaxCandidates,  \* the origins that one query may yield
    MaxChanges      \* bound on the changes of the network and on restarts

VARIABLES
    peer,       \* at every endpoint: the certificate shown there, or NULL
    advert,     \* the record the coordinator publishes, or NULL
    boot,       \* the agent's start
    told,       \* the certificates of the peers that were sent a credential
    changes

dial_vars == <<peer, advert, boot, told, changes>>

(* The coordinator's certificate, the same outside its validity, another's.  *)
Genuine == [key |-> 1, valid |-> TRUE]

Certificates == {Genuine, [key |-> 1, valid |-> FALSE], [key |-> 2, valid |-> TRUE]}

Site == 1

ServiceName == 1

-----------------------------------------------------------------------------
(* The join file.                                                            *)

(* A pin in any other spelling than the canonical one is no pin.             *)
decodePin(p) == p.canonical

(* What a join file must be: text, one JSON object with every key once, no   *)
(* half of a surrogate pair, no key that is not known.                       *)
WellFormed(file) ==
    /\ file.text = "utf8"
    /\ ~file.lone_surrogate
    /\ ~file.duplicate_key
    /\ file.keys \subseteq {"version", "site_id", "coordinator_urls", "coordinator_spki_sha256",
                            "enrollment_token", "mdns_service"}
    /\ "mdns_service" \in file.keys

ParseJoin(file) ==
    /\ WellFormed(file)
    /\ file.version = 1
    /\ file.site_id # NULL /\ file.enrollment_token # NULL
    /\ file.coordinator_urls # <<>> /\ file.coordinator_spki_sha256 # <<>>
    /\ IsInjective(file.coordinator_urls)
    /\ \A i \in DOMAIN file.coordinator_urls : file.coordinator_urls[i].usable
    /\ file.mdns_service \in {NULL, ServiceName}
    /\ IsInjective(file.coordinator_spki_sha256)
    /\ \A i \in DOMAIN file.coordinator_spki_sha256 : decodePin(file.coordinator_spki_sha256[i])

Profile(file) ==
    [site_id |-> file.site_id, urls |-> file.coordinator_urls,
     pins |-> file.coordinator_spki_sha256, mdns |-> file.mdns_service]

-----------------------------------------------------------------------------
(* The pinned client.                                                        *)

NewPinnedClient(p) == p.pins # <<>> /\ \A i \in DOMAIN p.pins : decodePin(p.pins[i])

(* Mutated: the key is not compared with the pins.                           *)
AnyValid(pins, cert) == cert.valid

VerifyConnection(pins, cert) == cert.valid /\ cert.key \in {pins[i].key : i \in DOMAIN pins}

(* A request reaches the peer only over https and on a pinned certificate.   *)
RoundTrip(p, url) ==
    /\ url.usable
    /\ peer[url.at] # NULL
    /\ VerifyConnection(p.pins, peer[url.at])

-----------------------------------------------------------------------------
(* Discovery.                                                                *)

(* An answer of the service that names exactly this site.                    *)
servesSite(entry, site) == entry.service /\ entry.sites = <<site>>

usableAddress(ip) == ip # NULL /\ ip.kind \in {"unicast", "link4"}

(* IPv4 before IPv6, then by address, then by port.                          *)
less(a, b) ==
    \/ a.v6 < b.v6
    \/ a.v6 = b.v6 /\ a.addr < b.addr
    \/ a.v6 = b.v6 /\ a.addr = b.addr /\ a.port < b.port

EndpointsOf(entry) ==
    {[v6 |-> ip.v6, addr |-> ip.addr, port |-> entry.port] :
        ip \in {a \in {entry.v4, entry.v6} : usableAddress(a) /\ entry.port \in 1..65535}}

selectOrigins(entries, site) ==
    LET eps == UNION {EndpointsOf(e) : e \in {f \in ToSet(entries) : servesSite(f, site)}}
        sorted == SetToSortSeq(eps, less)
    IN  [i \in 1..(IF Len(sorted) < MaxCandidates THEN Len(sorted) ELSE MaxCandidates) |->
            [at |-> sorted[i], usable |-> TRUE]]

(* Another service, or nothing to filter the answers by, is refused before a *)
(* query; a query that fails yields nothing either.                          *)
Candidates(p, entries) ==
    IF p.mdns = ServiceName /\ p.site_id # NULL THEN selectOrigins(entries, p.site_id) ELSE <<>>

-----------------------------------------------------------------------------
(* The coordinator's record.                                                 *)

(* One address of each family at most, none of them unspecified.             *)
_interface_addresses(host) ==
    /\ host # {}
    /\ \A ip \in host : ip.kind # "unspecified"
    /\ \A ip, other \in host : ip.v6 = other.v6 => ip = other

AddressOf(host, v6) ==
    IF \E ip \in host : ip.v6 = v6 THEN CHOOSE ip \in host : ip.v6 = v6 ELSE NULL

build_advertisement(host) ==
    [service |-> TRUE, sites |-> <<Site>>, port |-> 1, v4 |-> AddressOf(host, 0), v6 |-> AddressOf(host, 1)]

(* A coordinator whose record cannot be built or registered does not start.  *)
register(host) ==
    /\ advert = NULL
    /\ changes < MaxChanges
    /\ _interface_addresses(host)
    /\ advert' = build_advertisement(host)
    /\ peer' = [e \in DOMAIN peer |->
                   IF e \in EndpointsOf(advert') THEN Genuine ELSE peer[e]]
    /\ changes' = changes + 1
    /\ UNCHANGED <<boot, told>>

(* The record goes, and then the listener.                                   *)
unregister ==
    /\ advert # NULL
    /\ changes < MaxChanges
    /\ advert' = NULL
    /\ peer' = [e \in DOMAIN peer |->
                   IF e \in EndpointsOf(advert) THEN NULL ELSE peer[e]]
    /\ changes' = changes + 1
    /\ UNCHANGED <<boot, told>>

-----------------------------------------------------------------------------
(* The start of the agent.                                                   *)

Off == [pc |-> "off", profile |-> NULL, stage |-> "static", left |-> <<>>, tried |-> {},
        base |-> NULL, probed |-> FALSE, fresh |-> TRUE, enrolled |-> NULL]

Endpoints ==
    {u.at : u \in UNION {ToSet(f.coordinator_urls) : f \in JoinFiles}}
    \cup UNION {EndpointsOf(e) : e \in UNION {ToSet(n) : n \in Noise}}
    \cup UNION {EndpointsOf(build_advertisement(h)) : h \in Hosts}

DialInit ==
    /\ peer \in [Endpoints -> Certificates \cup {NULL}]
    /\ advert = NULL
    /\ boot = Off
    /\ told = {}
    /\ changes = 0

(* firstCoordinatorURL: a profile without a usable first origin is an error. *)
firstCoordinatorURL(p) == p.urls # <<>> /\ p.urls[1].usable

Chosen(b, url, probed) == [b EXCEPT !.pc = "chosen", !.base = url, !.probed = probed]

(* A profile that did not opt into mDNS takes its first origin unprobed.     *)
siteBaseURL(b, p) ==
    IF p.mdns = NULL THEN Chosen(b, p.urls[1], FALSE) ELSE [b EXCEPT !.pc = "probe", !.left = p.urls]

dialSite(p, fresh) ==
    LET b == [Off EXCEPT !.profile = p, !.fresh = fresh]
    IN  boot' = IF NewPinnedClient(p) /\ firstCoordinatorURL(p) THEN siteBaseURL(b, p)
                ELSE [b EXCEPT !.pc = "error"]

(* The first start, from a join file that parses, and a later one.           *)
enrollSite(file) ==
    /\ boot.pc = "off"
    /\ IF ParseJoin(file) THEN dialSite(Profile(file), TRUE) ELSE boot' = [Off EXCEPT !.pc = "refused"]
    /\ UNCHANGED <<peer, advert, told, changes>>

Resume(p) ==
    /\ boot.pc = "off"
    /\ dialSite(p, FALSE)
    /\ UNCHANGED <<peer, advert, told, changes>>

(* Any answer over the pinned client will do; no credential is sent.         *)
probeOrigin(url) == RoundTrip(boot.profile, url)

(* The next origin of the list.                                              *)
firstReachable ==
    /\ boot.pc = "probe" /\ boot.left # <<>>
    /\ LET url == Head(boot.left)
       IN  boot' = IF probeOrigin(url) THEN Chosen(boot, url, TRUE)
                   ELSE [boot EXCEPT !.left = Tail(@), !.tried = @ \cup {url}]
    /\ UNCHANGED <<peer, advert, told, changes>>

(* One bounded query, over IPv4 alone when the first cannot be sent: the     *)
(* answers of other responders, with the coordinator's if it is heard, or    *)
(* none.                                                                     *)
multicastLookup(noise) ==
    {<<>>, noise} \cup IF advert = NULL THEN {} ELSE {Append(noise, advert)}

(* None of the static origins answered.                                      *)
QueryMulticast(noise) ==
    /\ boot.pc = "probe" /\ boot.left = <<>> /\ boot.stage = "static"
    /\ \E entries \in multicastLookup(noise) :
          LET found == Candidates(boot.profile, entries)
          IN  boot' = IF found = <<>> THEN Chosen(boot, boot.profile.urls[1], FALSE)
                      ELSE [boot EXCEPT !.stage = "discovered", !.left = found]
    /\ UNCHANGED <<peer, advert, told, changes>>

(* No candidate answered on a pinned certificate: the static profile stays.  *)
KeepStatic ==
    /\ boot.pc = "probe" /\ boot.left = <<>> /\ boot.stage = "discovered"
    /\ boot' = Chosen(boot, boot.profile.urls[1], FALSE)
    /\ UNCHANGED <<peer, advert, told, changes>>

(* The enrolment token and later the device token go to the chosen origin.   *)
Send(arrived, lost) ==
    IF RoundTrip(boot.profile, boot.base)
    THEN boot' = arrived /\ told' = told \cup {peer[boot.base.at]}
    ELSE boot' = lost /\ UNCHANGED told

(* An enrolment that fails, is refused or yields no identity is not tried    *)
(* again; the client that enrolled is the one that goes on.                  *)
NewSiteCoordinator ==
    /\ boot.pc = "chosen"
    /\ IF boot.fresh
       THEN \E pc \in {"running", "error"} :
               Send([boot EXCEPT !.pc = pc, !.enrolled = boot.base], [boot EXCEPT !.pc = "error"])
       ELSE boot' = [boot EXCEPT !.pc = "running"] /\ UNCHANGED told
    /\ UNCHANGED <<peer, advert, changes>>

Heartbeat ==
    /\ boot.pc = "running"
    /\ Send(boot, boot)
    /\ UNCHANGED <<peer, advert, changes>>

NetworkChanges(e, cert) ==
    /\ changes < MaxChanges
    /\ advert # NULL => e \notin EndpointsOf(advert)
    /\ peer' = [peer EXCEPT ![e] = cert]
    /\ changes' = changes + 1
    /\ UNCHANGED <<advert, boot, told>>

DialNext ==
    \/ \E file \in JoinFiles : enrollSite(file)
    \/ \E p \in Profiles : Resume(p)
    \/ firstReachable \/ KeepStatic \/ NewSiteCoordinator \/ Heartbeat \/ unregister
    \/ \E noise \in Noise : QueryMulticast(noise)
    \/ \E host \in Hosts : register(host)
    \/ \E e \in DOMAIN peer, cert \in Certificates \cup {NULL} : NetworkChanges(e, cert)

DialSpec == DialInit /\ [][DialNext]_dial_vars

-----------------------------------------------------------------------------

(* A credential only ever reached a peer that showed a valid certificate of  *)
(* a pinned key, whatever answered at its address before.                    *)
PinnedOnly ==
    \A cert \in told :
        cert.valid /\ \E i \in DOMAIN boot.profile.pins : boot.profile.pins[i].key = cert.key

(* An agent goes on with the coordinator that enrolled it.                   *)
EnrolledThere == boot.pc = "running" /\ boot.fresh => boot.base = boot.enrolled

(* An origin is used ahead of another only as the order says: static before  *)
(* discovered, and one that was passed over did not answer.  Without mDNS    *)
(* nothing is asked; with it, nothing found leaves the first static origin.  *)
OrderKept ==
    boot.base # NULL =>
        LET urls == boot.profile.urls
            static == {i \in DOMAIN urls : boot.stage = "static" /\ urls[i] = boot.base}
        IN  IF boot.profile.mdns = NULL THEN boot.tried = {} /\ boot.base = urls[1]
            ELSE IF boot.probed /\ static # {}
            THEN \E i \in static : boot.tried = {urls[k] : k \in 1..(i - 1)}
            ELSE ToSet(urls) \subseteq boot.tried /\ (boot.probed \/ boot.base = urls[1])

(* A join file that was accepted leads to a dial: a token is not spent on a  *)
(* profile that the next step calls misconfigured.                           *)
AcceptedIsUsable == boot.pc = "error" /\ boot.fresh => boot.base # NULL

(* The coordinator that an agent talks to (siteclient.go, site.go            *)
(* siteBaseURL): the preferred one that answered, on a pinned certificate,   *)
(* the same after the enrolment as during it.                                *)
DialSound == PinnedOnly /\ EnrolledThere /\ OrderKept /\ AcceptedIsUsable
=============================================================================
