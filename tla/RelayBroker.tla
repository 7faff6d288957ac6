---------------------------- MODULE RelayBroker ----------------------------
(***************************************************************************)
(* The in-memory relay of Site Mode (site_relay/broker.py), with the       *)
(* routes that upload a response (app/agent_routes.py) and the gateway's   *)
(* transport that reads it (gateway/proxy.py).                             *)
(*                                                                         *)
(* An agent waits in claim; offer hands the first waiter a piece of work;  *)
(* the agent uploads a response in chunks; the gateway reads them.  No     *)
(* body of the broker's lock or of a stream's condition suspends, so a     *)
(* method runs without interruption up to its first wait: on the future of *)
(* a claim, for room in a stream, or for something to read.                *)
(***************************************************************************)
EXTENDS Integers, Sequences

CONSTANTS
    Agents,             \* agent ids
    MaxCalls,           \* bound on the calls of claim
    MaxClaims,          \* bound on the works that offer makes
    MaxGeneration,      \* bound on the presence generations
    MaxChunks,          \* bound on the chunks of one response
    BufferChunks,       \* max_response_buffer, in chunks
    TerminalHistory,    \* _TERMINAL_HISTORY
    Modes,              \* how the gateway reads: "buffered", "stream" or both
    NULL

ASSUME RelayAssumption ==
    /\ MaxCalls \in Nat
    /\ MaxClaims \in Nat
    /\ MaxGeneration \in Nat
    /\ MaxChunks \in Nat
    /\ BufferChunks \in Nat \ {0}
    /\ TerminalHistory \in Nat \ {0}
    /\ Modes \subseteq {"buffered", "stream"}

VARIABLES
    fence,          \* _generation
    waiters,        \* _waiters: per agent, its calls; they are numbered in their order
    calls,          \* the claim calls with their futures
    works,          \* every _Work made; the live ones are those of _works
    streams,        \* the response stream of each work
    terminal_class, \* _terminal_class, oldest first
    last_claim,     \* _last_claim
    relay_flags,    \* RelayFailureFlags: claims failed with retryable false
    uploads,        \* the route that uploads the response of a work
    readers,        \* the transport that reads it
    invalidated     \* history: the newest generation given to invalidate_agent

relay_vars == <<fence, waiters, calls, works, streams, terminal_class, last_claim, relay_flags,
                uploads, readers, invalidated>>

Calls == 1..MaxCalls

(* Claim ids, numbered in the order of their offers.                         *)
Claims == 1..MaxClaims

NoClaim == 0

Generations == 0..MaxGeneration

Terminated == {"finished", "failed", "invalid"}

(* "final" is a failure that the agent reports with retryable false.         *)
Reasons == {"reported", "final", "cancelled", "deadline_expired", "fenced", "client_disconnect"}

CallRow == [agent : Agents, generation : Generations, work : Claims \cup {NoClaim},
            fut : {"pending", "cancelled", "set"}, pc : {"waiting", "returned", "none"}]

WorkRow == [agent : Agents, generation : Generations, late : BOOLEAN,
            mode : Modes, status : {"ok", "error"},
            state : {"claimed", "responding"} \cup Terminated,
            reason : Reasons \cup {NULL}]

(* NULL stands for Python's None, which is none of these.                    *)
ASSUME NoneIsNoRow == NULL \notin CallRow /\ NULL \notin WorkRow /\ NULL # "eof"

(* Where the transport is: wait_response and the first byte; the body under  *)
(* a timeout; the body of a streamed 5xx, under none; and the outcomes.      *)
Reading == {"waiting", "first", "body", "draining"}

Outcomes == {"complete", "truncated", "retry", "refused"}

RelayInit ==
    /\ fence = [a \in Agents |-> 0]
    /\ waiters = [a \in Agents |-> {}]
    /\ calls = [w \in Calls |-> NULL]
    /\ works = [c \in Claims |-> NULL]
    /\ streams = [c \in Claims |-> [buffered |-> 0, first_byte |-> FALSE, terminal |-> NULL]]
    /\ terminal_class = <<>>
    /\ last_claim = [a \in Agents |-> NULL]
    /\ relay_flags = {}
    /\ uploads = [c \in Claims |-> [pc |-> "none", sent |-> 0]]
    /\ readers = [c \in Claims |-> [pc |-> "waiting", got |-> 0]]
    /\ invalidated = [a \in Agents |-> 0]

Live(c) == works[c] # NULL /\ works[c].state \notin Terminated

Larger(g, h) == IF g > h THEN g ELSE h

(* The entries that the bounded history keeps.                               *)
Newest(history) ==
    SubSeq(history, Larger(1, Len(history) - TerminalHistory + 1), Len(history))

(* Mutant: a work that already ended is ended again.                         *)
TerminateAgain(cs, state, reason) ==
    LET ended == cs
        inOrder == SelectSeq([c \in Claims |-> c], LAMBDA c : c \in ended)
        class == IF state = "finished" THEN "duplicate" ELSE "gone"
    IN  /\ works' = [c \in Claims |->
              IF c \in ended THEN [works[c] EXCEPT !.state = state, !.reason = reason]
              ELSE works[c]]
        /\ streams' = [c \in Claims |->
              IF c \in ended /\ streams[c].terminal = NULL
              THEN [streams[c] EXCEPT !.terminal = IF state = "finished" THEN "eof" ELSE reason]
              ELSE streams[c]]
        /\ terminal_class' = Newest(terminal_class \o
              [i \in DOMAIN inOrder |-> [claim |-> inOrder[i], class |-> class]])
        /\ last_claim' = [a \in Agents |->
              IF \E c \in ended : works[c].agent = a
              THEN [outcome |-> state, code |-> reason] ELSE last_claim[a]]

(* _terminate, and the close of the stream that follows it, for the live     *)
(* works in cs.                                                              *)
_terminate(cs, state, reason) ==
    LET ended == {c \in cs : Live(c)}
        inOrder == SelectSeq([c \in Claims |-> c], LAMBDA c : c \in ended)
        class == IF state = "finished" THEN "duplicate" ELSE "gone"
    IN  /\ works' = [c \in Claims |->
              IF c \in ended THEN [works[c] EXCEPT !.state = state, !.reason = reason]
              ELSE works[c]]
        /\ streams' = [c \in Claims |->
              IF c \in ended /\ streams[c].terminal = NULL
              THEN [streams[c] EXCEPT !.terminal = IF state = "finished" THEN "eof" ELSE reason]
              ELSE streams[c]]
        /\ terminal_class' = Newest(terminal_class \o
              [i \in DOMAIN inOrder |-> [claim |-> inOrder[i], class |-> class]])
        /\ last_claim' = [a \in Agents |->
              IF \E c \in ended : works[c].agent = a
              THEN [outcome |-> state, code |-> reason] ELSE last_claim[a]]

KeepHistory == UNCHANGED <<terminal_class, last_claim>>

KeepWorks == UNCHANGED <<works, streams>> /\ KeepHistory

_expire_if_late(c) == _terminate({c}, "failed", "deadline_expired")

-----------------------------------------------------------------------------
(* The agent's claim.                                                        *)

RestOfClaim == UNCHANGED <<relay_flags, uploads, readers, invalidated>>

NewCall(w, a, g) ==
    /\ calls[w] = NULL
    /\ \A v \in 1..(w - 1) : calls[v] # NULL
    /\ fence' = [fence EXCEPT ![a] = Larger(@, g)]
    /\ waiters' = [waiters EXCEPT ![a] = @ \cup {w}]
    /\ calls' = [calls EXCEPT ![w] = [agent |-> a, generation |-> g, work |-> NoClaim,
                                      fut |-> "pending", pc |-> "waiting"]]
    /\ KeepWorks
    /\ RestOfClaim

claim(w, a, g) == g >= fence[a] /\ NewCall(w, a, g)

Waiting(w) == calls[w] # NULL /\ calls[w].pc = "waiting"

(* claim resumes with the work that its future holds.                        *)
ClaimReturns(w) ==
    /\ Waiting(w) /\ calls[w].fut = "set"
    /\ calls' = [calls EXCEPT ![w].pc = "returned"]
    /\ KeepWorks
    /\ UNCHANGED <<fence, waiters>>
    /\ RestOfClaim

(* The wait times out or its request is cancelled: the future is cancelled   *)
(* at once, the coroutine resumes later.                                     *)
WaitCancelled(w) ==
    /\ Waiting(w) /\ calls[w].fut = "pending"
    /\ calls' = [calls EXCEPT ![w].fut = "cancelled"]
    /\ KeepWorks
    /\ UNCHANGED <<fence, waiters>>
    /\ RestOfClaim

Abandoned(w) ==
    /\ Waiting(w) /\ calls[w].fut # "pending"
    /\ calls' = [calls EXCEPT ![w].pc = "none"]
    /\ waiters' = [waiters EXCEPT ![calls[w].agent] = @ \ {w}]
    /\ UNCHANGED fence
    /\ RestOfClaim

(* Mutant: an abandoned wait forgets the work that offer had assigned to it. *)
AbandonKeepsWork(w) == Abandoned(w) /\ KeepWorks

(* The coroutine resumes with the cancellation; work that offer assigned     *)
(* meanwhile is ended.                                                       *)
_abandon_waiter(w) ==
    /\ Abandoned(w)
    /\ IF calls[w].fut = "set" THEN _terminate({calls[w].work}, "failed", "cancelled")
       ELSE KeepWorks

-----------------------------------------------------------------------------
(* The gateway's offer.  Finished waits at the head of the list are dropped  *)
(* even when the offer then finds no claimant.                               *)
offer(c, a, mode) ==
    LET pending == {v \in waiters[a] : calls[v].fut = "pending"}
        w == CHOOSE v \in pending : \A u \in pending : v <= u
    IN  /\ works[c] = NULL
        /\ \A d \in 1..(c - 1) : works[d] # NULL
        /\ waiters[a] # {}
        /\ UNCHANGED <<fence, streams, terminal_class, last_claim>>
        /\ RestOfClaim
        /\ \/ /\ pending = {}
              /\ waiters' = [waiters EXCEPT ![a] = {}]
              /\ UNCHANGED <<calls, works>>
           \/ /\ pending # {}
              /\ waiters' = [waiters EXCEPT ![a] = {v \in @ : v > w}]
              /\ IF calls[w].generation < fence[a]
                 THEN /\ calls' = [calls EXCEPT ![w].fut = "cancelled"]
                      /\ UNCHANGED works
                 ELSE /\ calls' = [calls EXCEPT ![w].fut = "set", ![w].work = c]
                      /\ works' = [works EXCEPT ![c] =
                            [agent |-> a, generation |-> calls[w].generation, late |-> FALSE,
                             mode |-> mode, status |-> "ok", state |-> "claimed",
                             reason |-> NULL]]

(* Time reaches the deadline that the gateway gave the work.                 *)
DeadlinePasses(c) ==
    /\ works[c] # NULL /\ ~works[c].late
    /\ works' = [works EXCEPT ![c].late = TRUE]
    /\ UNCHANGED <<fence, waiters, calls, streams>>
    /\ KeepHistory
    /\ RestOfClaim

-----------------------------------------------------------------------------
(* The upload of a response.  The route starts the response, writes chunk    *)
(* after chunk, then finishes; any refusal ends it.                          *)

Delivered(c) ==
    \E w \in Calls : calls[w] # NULL /\ calls[w].pc = "returned" /\ calls[w].work = c

Upload(c, from, to) ==
    /\ uploads[c].pc = from
    /\ uploads' = [uploads EXCEPT ![c].pc = to]

RestOfUpload == UNCHANGED <<fence, waiters, calls, relay_flags, readers, invalidated>>

(* What every call on a claim does first: it is refused when the work is not *)
(* live, and ends the work when its deadline has passed.                     *)
Refused(c, from) ==
    /\ Upload(c, from, "ended")
    /\ \/ ~Live(c) /\ KeepWorks
       \/ Live(c) /\ works[c].late /\ _expire_if_late(c)
    /\ RestOfUpload

Accepted(c) == Live(c) /\ ~works[c].late

start_response(c, status) ==
    /\ Delivered(c)
    /\ \/ /\ Accepted(c)
          /\ Upload(c, "none", "open")
          /\ works' = [works EXCEPT ![c].state = "responding", ![c].status = status]
          /\ UNCHANGED streams
          /\ KeepHistory
          /\ RestOfUpload
       \/ Refused(c, "none")

Full(c) == streams[c].buffered >= BufferChunks

AppendChunk(c, from) ==
    /\ uploads[c].pc = from
    /\ uploads' = [uploads EXCEPT ![c] = [pc |-> "open", sent |-> @.sent + 1]]
    /\ streams' = [streams EXCEPT ![c].buffered = @ + 1, ![c].first_byte = TRUE]
    /\ UNCHANGED works
    /\ KeepHistory
    /\ RestOfUpload

(* A write that finds the buffer full waits for room.                        *)
write(c) ==
    \/ /\ Accepted(c)
       /\ uploads[c].sent < MaxChunks
       /\ \/ ~Full(c) /\ AppendChunk(c, "open")
          \/ Full(c) /\ Upload(c, "open", "writing") /\ KeepWorks /\ RestOfUpload
    \/ Refused(c, "open")

StreamEnded(c) ==
    /\ streams[c].terminal # NULL
    /\ Upload(c, "writing", "ended")
    /\ KeepWorks
    /\ RestOfUpload

(* The waiting write resumes: there is room, the stream ended, or the        *)
(* deadline passed.                                                          *)
WriteResumes(c) ==
    \/ /\ streams[c].terminal = NULL /\ ~Full(c)
       /\ AppendChunk(c, "writing")
       /\ ~works[c].late
    \/ StreamEnded(c)
    \/ /\ streams[c].terminal = NULL
       /\ Upload(c, "writing", "ended")
       /\ works[c].late
       /\ _terminate({c}, "failed", "deadline_expired")
       /\ RestOfUpload

finish(c) ==
    \/ /\ Accepted(c)
       /\ Upload(c, "open", "accepted")
       /\ _terminate({c}, "finished", NULL)
       /\ RestOfUpload
    \/ Refused(c, "open")

(* Mutant: the end of the body is taken for the end of the response, however *)
(* the body ended.                                                           *)
AbortFinishes(c) ==
    /\ uploads[c].pc \in {"open", "writing"}
    /\ uploads' = [uploads EXCEPT ![c].pc = "ended"]
    /\ _terminate({c}, "finished", NULL)
    /\ RestOfUpload

(* The upload breaks off: its handler fails the claim as cancelled.          *)
UploadAborted(c) ==
    /\ uploads[c].pc \in {"open", "writing"}
    /\ uploads' = [uploads EXCEPT ![c].pc = "ended"]
    /\ IF Accepted(c) THEN _terminate({c}, "failed", "cancelled") ELSE _expire_if_late(c)
    /\ RestOfUpload

(* The failure route: the agent gives up, before its upload or after it      *)
(* broke off.                                                                *)
fail(c, retryable) ==
    /\ Delivered(c)
    /\ Live(c) \/ (~retryable /\ c \notin relay_flags)
    /\ relay_flags' = IF retryable THEN relay_flags ELSE relay_flags \cup {c}
    /\ IF Accepted(c)
       THEN _terminate({c}, "failed", IF retryable THEN "reported" ELSE "final")
       ELSE _expire_if_late(c)
    /\ UNCHANGED <<fence, waiters, calls, uploads, readers, invalidated>>

-----------------------------------------------------------------------------
DropStale(a, g) ==
    LET stale == {w \in Calls : calls[w] # NULL /\ calls[w].generation < g}
    IN  /\ invalidated' = [invalidated EXCEPT ![a] = Larger(@, g)]
        /\ _terminate({c \in Claims : Live(c) /\ works[c].agent = a /\ works[c].generation < g},
                      "invalid", "fenced")
        /\ calls' = [w \in Calls |-> IF w \in stale \cap waiters[a] /\ calls[w].fut = "pending"
                                     THEN [calls[w] EXCEPT !.fut = "cancelled"] ELSE calls[w]]
        /\ waiters' = [waiters EXCEPT ![a] = @ \ stale]
        /\ UNCHANGED <<relay_flags, uploads, readers>>

(* Mutant: the work is dropped and the fence stays where it was.             *)
InvalidateUnfenced(a, g) == DropStale(a, g) /\ UNCHANGED fence

invalidate_agent(a, g) ==
    /\ DropStale(a, g)
    /\ fence' = [fence EXCEPT ![a] = Larger(@, g)]

-----------------------------------------------------------------------------
(* The gateway's transport: try_buffered, and try_stream with the body that  *)
(* relay_stream_body reads after it.                                         *)

RestOfRead == UNCHANGED <<fence, waiters, calls, uploads, invalidated>>

Reader(c, from, to) ==
    /\ works[c] # NULL
    /\ readers[c].pc = from
    /\ readers' = [readers EXCEPT ![c].pc = to]

(* Mutant: a reader that gives up leaves the work as it is.                  *)
CloseNothing(c) == KeepWorks

aclose(c) == _terminate({c}, "invalid", "client_disconnect")

(* An attempt that fails before a byte reached the client ends the work, and *)
(* is retried unless the agent ruled that out.                               *)
_on_failure(c, from) ==
    /\ Reader(c, from, IF c \in relay_flags THEN "refused" ELSE "retry")
    /\ relay_flags' = relay_flags \ {c}
    /\ aclose(c)
    /\ RestOfRead

wait_response(c) ==
    /\ works[c] # NULL /\ works[c].state # "claimed"
    /\ IF works[c].state \in {"failed", "invalid"} /\ ~streams[c].first_byte
       THEN _on_failure(c, "waiting")
       ELSE /\ Reader(c, "waiting", IF works[c].mode = "buffered" THEN "body" ELSE "first")
            /\ KeepWorks
            /\ RestOfRead
            /\ UNCHANGED relay_flags

(* Where the first byte of a streamed response, or its end, takes the        *)
(* transport.                                                                *)
AfterFirst(c) == IF works[c].status = "error" THEN "draining" ELSE "body"

ReadChunk(c) ==
    /\ readers[c].pc \in {"first", "body", "draining"}
    /\ streams[c].buffered > 0
    /\ streams' = [streams EXCEPT ![c].buffered = @ - 1]
    /\ readers' = [readers EXCEPT ![c] =
          [pc |-> IF @.pc = "first" THEN AfterFirst(c) ELSE @.pc, got |-> @.got + 1]]
    /\ UNCHANGED <<works, relay_flags>>
    /\ KeepHistory
    /\ RestOfRead

(* What a reader makes of the end of the stream, eof or a failure.           *)
ReadEnd(c) ==
    LET eof == streams[c].terminal = "eof"
        retried == works[c].status = "error"
    IN  /\ streams[c].buffered = 0 /\ streams[c].terminal # NULL
        /\ \/ /\ works[c].mode = "buffered" \/ readers[c].pc = "first"
              /\ ~eof
              /\ _on_failure(c, readers[c].pc)
           \/ /\ eof \/ (works[c].mode = "stream" /\ readers[c].pc # "first")
              /\ Reader(c, readers[c].pc,
                        IF retried THEN "retry" ELSE IF eof THEN "complete" ELSE "truncated")
              /\ aclose(c)
              /\ UNCHANGED relay_flags
              /\ RestOfRead
        /\ readers[c].pc \in {"first", "body", "draining"}

(* The transport's own timeouts: the deadline of a buffered attempt, the     *)
(* first byte and the gap between chunks of a streamed one.  A client that   *)
(* leaves a streamed response ends it in the same way.                       *)
ReadTimeout(c) ==
    \/ /\ works[c] # NULL
       /\ readers[c].pc \in {"waiting", "first"} \/ works[c].mode = "buffered"
       /\ readers[c].pc \in {"waiting", "first", "body"}
       /\ _on_failure(c, readers[c].pc)
    \/ /\ works[c] # NULL /\ works[c].mode = "stream"
       /\ Reader(c, "body", "truncated")
       /\ aclose(c)
       /\ UNCHANGED relay_flags
       /\ RestOfRead

-----------------------------------------------------------------------------
ClaimStep ==
    \/ \E w \in Calls, a \in Agents, g \in Generations : claim(w, a, g)
    \/ \E w \in Calls : ClaimReturns(w) \/ WaitCancelled(w) \/ _abandon_waiter(w)

UploadStep(c) ==
    \/ \E status \in {"ok", "error"} : start_response(c, status)
    \/ write(c) \/ WriteResumes(c) \/ finish(c) \/ UploadAborted(c)
    \/ \E retryable \in BOOLEAN : fail(c, retryable)

ReadStep(c) == wait_response(c) \/ ReadChunk(c) \/ ReadEnd(c) \/ ReadTimeout(c)

RelayNext ==
    \/ ClaimStep
    \/ \E c \in Claims, a \in Agents, mode \in Modes : offer(c, a, mode)
    \/ \E c \in Claims : DeadlinePasses(c) \/ UploadStep(c) \/ ReadStep(c)
    \/ \E a \in Agents, g \in Generations : invalidate_agent(a, g)

RelaySpec == RelayInit /\ [][RelayNext]_relay_vars

(* The agent's own deadline for the exchange (inference/runner.go) breaks    *)
(* off the upload, which the route notices while it waits for the body.      *)
AgentDeadline(c) == uploads[c].pc = "open" /\ works[c].late /\ UploadAborted(c)

(* Time passes, ready coroutines run, the transport's timeouts fire and the  *)
(* agent's deadline does.  Nothing is assumed of the agent's progress.       *)
RelayFairness ==
    \A c \in Claims :
        /\ WF_relay_vars(DeadlinePasses(c))
        /\ WF_relay_vars(WriteResumes(c))
        /\ WF_relay_vars(ReadChunk(c) \/ ReadEnd(c))
        /\ WF_relay_vars(ReadTimeout(c))
        /\ WF_relay_vars(AgentDeadline(c))

FairRelaySpec == RelaySpec /\ RelayFairness

-----------------------------------------------------------------------------
(* A response that the gateway delivers as complete is all of it: the agent  *)
(* finished it, and every chunk that it uploaded was read.  A broken, fenced *)
(* or late upload never passes for a complete one.                           *)
CompleteIsWhole ==
    \A c \in Claims : readers[c].pc = "complete" =>
        uploads[c].pc = "accepted" /\ readers[c].got = uploads[c].sent

(* Live work always has somebody to end it: a claim that is about to resume  *)
(* with it, or an agent that was given it.                                   *)
NoOrphanedWork ==
    \A c \in Claims : Live(c) =>
        \E w \in Calls : /\ calls[w] # NULL /\ calls[w].work = c
                         /\ calls[w].pc \in {"waiting", "returned"}

(* After invalidate_agent with some generation, no work of an older one is   *)
(* live, or ever becomes so.                                                 *)
FencedWorkIsDead ==
    \A c \in Claims : Live(c) => works[c].generation >= invalidated[works[c].agent]

(* The first end of a work is the one that counts: whichever of finish,      *)
(* fail, deadline, invalidation, cancellation and disconnect comes first, no *)
(* later one changes the outcome, or makes the work live again.              *)
FirstEndWins ==
    [][\A c \in Claims : works[c] # NULL /\ ~Live(c) =>
          works'[c].state = works[c].state /\ works'[c].reason = works[c].reason]_relay_vars

=============================================================================
