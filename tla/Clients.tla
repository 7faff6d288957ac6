------------------------------ MODULE Clients ------------------------------
(***************************************************************************)
(* The two HTTP clients of the agent API, fallow_agent/heartbeat/client.py *)
(* and go-agent/heartbeat/client.go, making one call in step: each attempt *)
(* of both meets the same answer.                                          *)
(***************************************************************************)
EXTENDS Null, Integers

CONSTANTS
    Codes,          \* the status codes of answers
    MaxClientTries  \* max_retries

ASSUME ClientsAssumption == Codes \subseteq Nat /\ MaxClientTries \in Nat

VARIABLES
    method,         \* the call
    py, go,         \* each client: what is known of its identity, what it sent and how the call ended
    complete        \* every answer so far came whole, with the fields its schema requires

client_vars == <<method, py, go, complete>>

Methods == {"register", "heartbeat", "poll_work", "push_event", "complete_unit"}

Lacking == {"no identity", "identity only"}

(* Bodies: as the schema wants it; without fields it requires, the identity  *)
(* among them or not; of no use; the detail of a revocation; one that breaks *)
(* off on the way.                                                           *)
Bodies == Lacking \cup {"good", "malformed", "revoked", "broken"}

Answers == {NULL} \cup {a \in [code : Codes, body : Bodies] : a.code = 204 => a.body # "broken"}

ClientsInit ==
    /\ method \in Methods
    /\ \E enrolled \in BOOLEAN : py = [enrolled |-> enrolled, sent |-> 0, result |-> NULL]
    /\ go = [enrolled |-> py.enrolled, sent |-> 0, result |-> NULL, revoked |-> FALSE]
    /\ complete = TRUE

Ends(c, result) == [c EXCEPT !.result = result]

----------------------------------------------------------------------------
(* client.py                                                                 *)

OK_CODES == {200, 201}

ACCEPT_CODES == {200, 201, 202, 204}

_classify_failure(code) ==
    IF code \in {401, 403} THEN "auth" ELSE IF code >= 500 THEN "transient" ELSE "protocol"

(* An answer to a heartbeat requires no field.                               *)
_parse_ok(a) ==
    IF a.code \in OK_CODES
    THEN IF a.body = "good" \/ (a.body \in Lacking /\ method = "heartbeat") THEN "ok" ELSE "protocol"
    ELSE _classify_failure(a.code)

(* register is sent once, without a bearer, and keeps the identity.          *)
register(c, a) ==
    IF a = NULL THEN Ends(c, "transient")
    ELSE [Ends(c, _parse_ok(a)) EXCEPT !.enrolled = @ \/ _parse_ok(a) = "ok"]

(* 204 says that there is no work.                                           *)
_parsed(a) == IF method = "poll_work" /\ a.code = 204 THEN "none" ELSE _parse_ok(a)

(* Mutated: one attempt more.                                                *)
SendOnceMore(c, a) ==
    IF a = NULL THEN IF c.sent > MaxClientTries + 1 THEN Ends(c, "transient") ELSE c
    ELSE Ends(c, _parsed(a))

(* Errors of the transport are tried again.                                  *)
_send_idempotent(c, a) ==
    IF a = NULL THEN IF c.sent > MaxClientTries THEN Ends(c, "transient") ELSE c
    ELSE Ends(c, _parsed(a))

_post_expect_accept(c, a) ==
    Ends(c, IF a = NULL THEN "transient" ELSE IF a.code \in ACCEPT_CODES THEN "ok" ELSE _classify_failure(a.code))

(* httpx reads the body within the request: one that breaks off is an error  *)
(* of the transport like any other.                                          *)
Received(answer) == IF answer # NULL /\ answer.body = "broken" THEN NULL ELSE answer

PyAttempt(answer) ==
    LET c == [py EXCEPT !.sent = @ + 1]
        a == Received(answer)
    IN  IF py.result # NULL THEN py
        ELSE IF method = "register" THEN register(c, a)
        ELSE IF ~py.enrolled THEN Ends(py, "protocol")
        ELSE IF method \in {"heartbeat", "poll_work"} THEN _send_idempotent(c, a)
        ELSE _post_expect_accept(c, a)

----------------------------------------------------------------------------
(* client.go                                                                 *)

isAcceptCode(code) == code \in {200, 201, 202, 204}

authDetail(a) == IF a.body = "broken" THEN "" ELSE a.body

(* Only the rejection that names the revocation is a permanent one.          *)
classifyFailure(c, a) ==
    IF a.code \in {401, 403} THEN [Ends(c, "auth") EXCEPT !.revoked = authDetail(a) = "revoked"]
    ELSE Ends(c, IF a.code >= 500 THEN "transient" ELSE "protocol")

(* The body is read after the retries are over.  A field that is not there   *)
(* is left at its zero value.                                                *)
parseOK(c, a) ==
    CASE a.code \notin {200, 201}          -> classifyFailure(c, a)
      [] a.body = "broken"                -> Ends(c, "transient")
      [] a.body \in {"good"} \cup Lacking -> Ends(c, "ok")
      [] OTHER                            -> Ends(c, "protocol")

(* An identity that is the empty string counts as none.                      *)
EnrolAnswer(c, a) ==
    IF a = NULL THEN Ends(c, "transient")
    ELSE LET d == parseOK(c, a)
         IN  [d EXCEPT !.enrolled = IF d.result = "ok" THEN a.body # "no identity" ELSE @]

PollWork(c, a) == IF a.code = 204 THEN Ends(c, "none") ELSE parseOK(c, a)

sendIdempotent(c, a) ==
    IF a = NULL THEN IF c.sent > MaxClientTries THEN Ends(c, "transient") ELSE c
    ELSE IF method = "poll_work" THEN PollWork(c, a) ELSE parseOK(c, a)

postExpectAccept(c, a) ==
    IF a = NULL THEN Ends(c, "transient")
    ELSE IF isAcceptCode(a.code) THEN Ends(c, "ok") ELSE classifyFailure(c, a)

GoAttempt(a) ==
    LET c == [go EXCEPT !.sent = @ + 1]
    IN  IF go.result # NULL THEN go
        ELSE IF method = "register" THEN EnrolAnswer(c, a)
        ELSE IF ~go.enrolled THEN Ends(go, "protocol")
        ELSE IF method \in {"heartbeat", "poll_work"} THEN sendIdempotent(c, a)
        ELSE postExpectAccept(c, a)

Attempt ==
    /\ py.result = NULL \/ go.result = NULL
    /\ \E a \in Answers :
          /\ py' = PyAttempt(a) /\ go' = GoAttempt(a)
          /\ complete' = (complete /\ (a = NULL \/ a.body \notin {"broken"} \cup Lacking))
    /\ UNCHANGED method

----------------------------------------------------------------------------

(* What client.go says of itself, its handling of answers is the Python      *)
(* client's, as far as it is true.  While answers come whole and with their  *)
(* required fields, whatever the coordinator answers and however often it    *)
(* cannot be reached, both send the same requests, end at the same attempt   *)
(* with the same class of error, and know the same of their identity.  After *)
(* a body that broke off Python asks again and Go does not (client.go        *)
(* parseOK), and a field that is missing is an error only in Python; even    *)
(* then Go never sends more than Python, and an enrolment, an event or a     *)
(* result is sent once at most.                                              *)
ClientsAgree ==
    /\ complete => py.result = go.result /\ py.sent = go.sent /\ py.enrolled = go.enrolled
    /\ go.sent <= py.sent
    /\ py.sent <= IF method \in {"heartbeat", "poll_work"} THEN MaxClientTries + 1 ELSE 1
=============================================================================
