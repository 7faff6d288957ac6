----------------------------- MODULE ModelCache -----------------------------
(***************************************************************************)
(* A model on its way from the operator's pull to an agent's disk: flw     *)
(* models pull and the registration (fallow_cli), the blob and mesh        *)
(* endpoints (coordinator modelserve), and the agent's cache, which        *)
(* fetches over the mesh or resumes a download and publishes what it       *)
(* verified (fallow_agent modelcache and mesh, go-agent/modelcache).       *)
(*                                                                         *)
(* One model under one file name, in several versions.  A version is the   *)
(* sequence of its chunks; a digest is the content it is the digest of.    *)
(* The Python and the Go store follow the same steps; they differ in which *)
(* failures of an attempt are tried again.                                 *)
(***************************************************************************)
EXTENDS Null, Integers, Sequences, SequencesExt, FiniteSets

CONSTANTS
    Contents,       \* the versions: sequences of chunks
    Callers,        \* the tasks that may ask for the model at once
    MaxRetries,     \* max_retries
    StoreCapacity,  \* chunks that the mesh store holds
    MaxPulls        \* bound on the pulls

ASSUME CacheAssumption == MaxRetries \in Nat /\ StoreCapacity \in Nat \ {0} /\ MaxPulls \in Nat

VARIABLES
    file,           \* the blob on the coordinator: its content, and which file it is
    registered,     \* the manifest: the content it promises
    pull,           \* the operator's pull: where it is, what it brings, what it set aside
    signed,         \* MeshManifestBuilder's cache: which file, and the manifest
    part, blob, marker, \* the agent's disk
    call,           \* for each caller of ensure: where it is
    lock,           \* the caller that has the model's lock
    kind            \* the agent's store: HttpModelStore, MeshModelStore or the Go Store

origin == <<file, registered, pull>>

disk == <<part, blob, marker>>

cache_vars == <<origin, signed, disk, call, lock, kind>>

Chunks == UNION {Range(s) : s \in Contents}

NoCall == [pc |-> "idle"]

CacheInit ==
    /\ \E s \in Contents : file = [is |-> s, gen |-> 0] /\ registered = s
    /\ pull = [pc |-> "idle", n |-> 0]
    /\ signed = NULL
    /\ part = NULL /\ blob = NULL /\ marker = NULL
    /\ call = [c \in Callers |-> NoCall] /\ lock = NULL
    /\ kind \in {"http", "mesh", "go"}

----------------------------------------------------------------------------
(* The pull.                                                                 *)

(* The download lands in a part of its own.                                  *)
download_to ==
    /\ pull.pc = "idle" /\ pull.n < MaxPulls
    /\ \E s \in Contents : pull' = [pc |-> "part", n |-> pull.n + 1, is |-> s]
    /\ UNCHANGED <<file, registered, signed, disk, call, lock, kind>>

(* resolve_fields_or_discard: a file that yields no manifest is deleted.     *)
resolve_fields_or_discard ==
    /\ pull.pc = "part"
    /\ pull' \in {[pull EXCEPT !.pc = "manifest"], [pc |-> "idle", n |-> pull.n]}
    /\ UNCHANGED <<file, registered, signed, disk, call, lock, kind>>

(* verify: so is one whose digest is not the catalog's; the old blob is set  *)
(* aside.                                                                    *)
verify ==
    /\ pull.pc = "manifest"
    /\ \/ pull' = [pc |-> "idle", n |-> pull.n] /\ UNCHANGED file
       \/ pull' = [pc |-> "aside", n |-> pull.n, is |-> pull.is, prev |-> file] /\ file' = NULL
    /\ UNCHANGED <<registered, signed, disk, call, lock, kind>>

(* The new blob takes the name.                                              *)
Promote ==
    /\ pull.pc = "aside"
    /\ file' = [is |-> pull.is, gen |-> pull.n]
    /\ pull' = [pull EXCEPT !.pc = "registering"]
    /\ UNCHANGED <<registered, signed, disk, call, lock, kind>>

(* put_model, and what the client hears of it.  Where it hears of no         *)
(* success it puts the old bytes back.                                       *)
register_model ==
    /\ pull.pc = "registering"
    /\ \E done, heard \in BOOLEAN :
          /\ heard => done
          /\ registered' = IF done THEN pull.is ELSE registered
          /\ file' = IF heard THEN file ELSE pull.prev
    /\ pull' = [pc |-> "idle", n |-> pull.n]
    /\ UNCHANGED <<signed, disk, call, lock, kind>>

----------------------------------------------------------------------------
(* The agent's cache.                                                        *)

path_if_present(m) == blob # NULL /\ marker = m

At(c, pc) == call[c].pc = pc

Goes(c, next) == call' = [call EXCEPT ![c] = next]

(* A caller that does not find the model waits for the lock.                 *)
ensure(c) ==
    /\ At(c, "idle")
    /\ ~path_if_present(registered)
    /\ Goes(c, [pc |-> "waiting", want |-> registered])
    /\ UNCHANGED <<origin, signed, disk, lock, kind>>

(* Under the lock the caller looks again.                                    *)
Acquire(c) ==
    /\ At(c, "waiting") /\ lock = NULL
    /\ IF path_if_present(call[c].want)
       THEN Goes(c, NoCall) /\ UNCHANGED lock
       ELSE /\ lock' = c
            /\ Goes(c, [pc |-> IF kind = "mesh" THEN "manifest" ELSE "download", want |-> call[c].want, tries |-> 0])
    /\ UNCHANGED <<origin, signed, disk, kind>>

Returns(c) == Goes(c, NoCall) /\ lock' = NULL

FallBack(c) == Goes(c, [pc |-> "download", want |-> call[c].want, tries |-> 0]) /\ UNCHANGED lock

----------------------------------------------------------------------------
(* Over the mesh.                                                            *)

(* ChunkStore.put: the chunk is the newest; the oldest make room.            *)
put(store, chunk) ==
    LET others == SelectSeq(store, LAMBDA x : x # chunk)
        kept   == IF Len(others) >= StoreCapacity THEN Tail(others) ELSE others
    IN  Append(kept, chunk)

(* The blob of an earlier version gives the store its first chunks.          *)
seed_store_from_dir == IF blob = NULL THEN <<>> ELSE FoldLeft(put, <<>>, blob)

missing_chunks(manifest, store) ==
    LET distinct == FoldLeft(LAMBDA seen, x : IF x \in Range(seen) THEN seen ELSE Append(seen, x), <<>>, manifest)
    IN  SelectSeq(distinct, LAMBDA x : x \notin Range(store))

(* MeshManifestBuilder.signed: built again for another file.                 *)
signedFor == IF signed # NULL /\ signed.gen = file.gen THEN signed ELSE file

(* The manifest must verify and must be of the content that is wanted.  The  *)
(* mesh's own errors and those of its requests are reasons to fall back; an  *)
(* error of the disk or a chunk larger than the whole store (ValueError)     *)
(* ends the call, here and in the next two steps.                            *)
verified_mesh_manifest(c) ==
    /\ At(c, "manifest")
    /\ \/ /\ file # NULL
          /\ signed' = signedFor
          /\ IF signed'.is = call[c].want
             THEN LET store == seed_store_from_dir
                  IN  /\ Goes(c, [pc |-> "fetching", want |-> call[c].want,
                                  store |-> store, todo |-> missing_chunks(call[c].want, store)])
                      /\ UNCHANGED lock
             ELSE FallBack(c)
       \/ FallBack(c) /\ UNCHANGED signed
       \/ Returns(c) /\ UNCHANGED signed
    /\ UNCHANGED <<origin, disk, kind>>

(* chunk_bytes reads at the chunk's place in the manifest, from the file as  *)
(* it is by then: a pull may have replaced it.                               *)
chunk_bytes(h) == {s[CHOOSE i \in DOMAIN signedFor.is : signedFor.is[i] = h] : s \in Contents}

(* fetch_delta: peers are trusted for bytes only, and only the chunk that    *)
(* was asked for is stored.                                                  *)
fetch_delta(c) ==
    /\ At(c, "fetching") /\ call[c].todo # <<>>
    /\ LET h == Head(call[c].todo)
       IN  \/ /\ file # NULL
              /\ signed' = signedFor
              /\ IF h \in Range(signedFor.is)
                 THEN \E data \in chunk_bytes(h) :
                         IF data = h
                         THEN /\ Goes(c, [call[c] EXCEPT !.todo = Tail(@), !.store = put(@, data)])
                              /\ UNCHANGED lock
                         ELSE FallBack(c)
                 ELSE FallBack(c)
           \/ FallBack(c) /\ UNCHANGED signed
           \/ Returns(c) /\ UNCHANGED signed
    /\ UNCHANGED <<origin, disk, kind>>

(* verified_reconstruct writes beside the blob and renames.  A chunk that    *)
(* the store has dropped again is a reason to fall back.                     *)
verified_reconstruct(c) ==
    /\ At(c, "fetching") /\ call[c].todo = <<>>
    /\ \/ IF Range(call[c].want) \subseteq Range(call[c].store)
          THEN blob' = call[c].want /\ Goes(c, [pc |-> "marking", want |-> call[c].want]) /\ UNCHANGED lock
          ELSE FallBack(c) /\ UNCHANGED blob
       \/ Returns(c) /\ UNCHANGED blob
    /\ UNCHANGED <<origin, signed, part, marker, kind>>

write_marker_atomic(c) ==
    /\ At(c, "marking")
    /\ marker' = call[c].want
    /\ Returns(c)
    /\ UNCHANGED <<origin, signed, part, blob, kind>>

----------------------------------------------------------------------------
(* By download.                                                              *)

existing == IF part = NULL THEN <<>> ELSE part

TryAgain(c) ==
    IF call[c].tries >= MaxRetries THEN Returns(c)
    ELSE Goes(c, [pc |-> "download", want |-> call[c].want, tries |-> call[c].tries + 1]) /\ UNCHANGED lock

(* Mutated: the attempts are not counted.                                    *)
RetryForEver(c) == Goes(c, [pc |-> "download", want |-> call[c].want, tries |-> 0]) /\ UNCHANGED lock

(* _fetch_with_retries: every error of the transport and every other status  *)
(* is tried again.                                                           *)
_fetch_with_retries(c) == TryAgain(c)

(* isRetryable: an error that net/http reports for the request, but none     *)
(* that comes from reading the body, and no cancellation.                    *)
isRetryable(error) == error \in {"status", "request"}

fetchWithRetries(c, error) == IF isRetryable(error) THEN TryAgain(c) ELSE Returns(c)

AttemptFails(c, error) == IF kind = "go" THEN fetchWithRetries(c, error) ELSE _fetch_with_retries(c)

(* parse_range for the request "from n on" to a file of this size.           *)
parse_range(n, size) == IF n = 0 THEN 200 ELSE IF n >= size THEN 416 ELSE 206

(* _resolve_disposition: 206 goes on from the prefix, 200 starts again.      *)
_resolve_disposition(status) == status = 206

(* get_blob: what a request from n on is answered.  A file that is not there *)
(* is a 404; a server may also ignore the range.                             *)
get_blob(n) == IF file = NULL THEN {404} ELSE {parse_range(n, Len(file.is)), 200}

(* stream_to_part, up to the answer: the prefix seeds the digest, and the    *)
(* size is the file's at this time.  Any other status, or an error of the    *)
(* transport, ends the attempt.                                              *)
stream_to_part(c) ==
    /\ At(c, "download")
    /\ \/ \E status \in get_blob(Len(existing)) :
             IF status \notin {200, 206}
             THEN AttemptFails(c, "status") /\ UNCHANGED part
             ELSE LET prefix == IF _resolve_disposition(status) THEN existing ELSE <<>>
                  IN  /\ Goes(c, [pc |-> "streaming", want |-> call[c].want, tries |-> call[c].tries,
                                  hashed |-> prefix, from |-> Len(prefix),
                                  left |-> Len(file.is) - Len(prefix), source |-> NULL])
                      /\ part' = prefix
                      /\ UNCHANGED lock
       \/ AttemptFails(c, "request") /\ UNCHANGED part
    /\ UNCHANGED <<origin, signed, blob, marker, kind>>

(* stream_file opens the file when the body begins, and goes on with that    *)
(* one.                                                                      *)
stream_file(c) == IF call[c].source = NULL /\ file # NULL THEN file.is ELSE call[c].source

(* The next chunk; or the body breaks off.                                   *)
ReceiveChunk(c) ==
    /\ At(c, "streaming") /\ call[c].left > 0
    /\ LET source == stream_file(c)
           i      == call[c].from + 1
       IN  \/ /\ source # NULL /\ i <= Len(source)
              /\ part' = Append(existing, source[i])
              /\ Goes(c, [call[c] EXCEPT !.hashed = Append(@, source[i]), !.from = i, !.left = @ - 1, !.source = source])
              /\ UNCHANGED lock
           \/ AttemptFails(c, "body") /\ UNCHANGED part
    /\ UNCHANGED <<origin, signed, blob, marker, kind>>

(* Mutated: only the sizes are compared.                                     *)
VerifySize(c) ==
    /\ At(c, "streaming") /\ call[c].left = 0
    /\ IF Len(call[c].hashed) = Len(call[c].want)
       THEN Goes(c, [pc |-> "publishing", want |-> call[c].want]) /\ UNCHANGED <<part, lock>>
       ELSE Returns(c) /\ part' = NULL
    /\ UNCHANGED <<origin, signed, blob, marker, kind>>

(* _verify_or_raise: a mismatch deletes the part and is not tried again.     *)
_verify_or_raise(c) ==
    /\ At(c, "streaming") /\ call[c].left = 0
    /\ IF call[c].hashed = call[c].want
       THEN Goes(c, [pc |-> "publishing", want |-> call[c].want]) /\ UNCHANGED <<part, lock>>
       ELSE Returns(c) /\ part' = NULL
    /\ UNCHANGED <<origin, signed, blob, marker, kind>>

(* The marker is written, and then the part takes the blob's name.           *)
WriteMarker(c) ==
    /\ At(c, "publishing")
    /\ marker' = call[c].want
    /\ Goes(c, [call[c] EXCEPT !.pc = "replacing"])
    /\ UNCHANGED <<origin, signed, part, blob, lock, kind>>

Replace(c) ==
    /\ At(c, "replacing")
    /\ blob' = part /\ part' = NULL
    /\ Returns(c)
    /\ UNCHANGED <<origin, signed, marker, kind>>

(* The agent dies: what is on disk stays.                                    *)
Dies ==
    /\ lock # NULL
    /\ call' = [c \in Callers |-> NoCall] /\ lock' = NULL
    /\ UNCHANGED <<origin, signed, disk, kind>>

MeshStep(c) == verified_mesh_manifest(c) \/ fetch_delta(c) \/ verified_reconstruct(c) \/ write_marker_atomic(c)

DownloadStep(c) == stream_to_part(c) \/ ReceiveChunk(c) \/ _verify_or_raise(c) \/ WriteMarker(c) \/ Replace(c)

CacheNext ==
    \/ download_to \/ resolve_fields_or_discard \/ verify \/ Promote \/ register_model \/ Dies
    \/ \E c \in Callers : ensure(c) \/ Acquire(c) \/ MeshStep(c) \/ DownloadStep(c)

(* A caller of the Go store waits for the network.  Its client has no        *)
(* timeout and its context no deadline, so that the wait may last until the  *)
(* agent stops.                                                              *)
Stalled == kind = "go" /\ lock # NULL /\ (At(lock, "download") \/ (At(lock, "streaming") /\ call[lock].left > 0))

GoesOn(c) == ~Stalled /\ (MeshStep(c) \/ DownloadStep(c))

(* Tasks run, the requests of the Python stores have httpx's timeouts, and a *)
(* lock is handed on.                                                        *)
CacheFairness == \A c \in Callers : WF_cache_vars(GoesOn(c)) /\ SF_cache_vars(Acquire(c))

CacheSpec == CacheInit /\ [][CacheNext]_cache_vars /\ CacheFairness

----------------------------------------------------------------------------

(* The blob is whole: whatever was resumed, restarted, fetched from peers,   *)
(* replaced on the coordinator meanwhile or cut off by a crash, a file under *)
(* the blob's name is one of the versions and not a mixture or a prefix.     *)
BlobIsWhole == blob # NULL => blob \in Contents

=============================================================================
