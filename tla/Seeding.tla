------------------------------- MODULE Seeding -------------------------------
(***************************************************************************)
(* fallow_modelmesh: a model cut into chunks named by their digests, its   *)
(* signed manifest, the bundle that carries it to a machine without a      *)
(* network (offline.py, bundle.py), the exchange with peers (peer.py,      *)
(* exchange.py), the chunk store (store.py) and the file rebuilt from it   *)
(* (reconstruct.py, safe.py).                                              *)
(*                                                                         *)
(* A digest is the content it is the digest of; a signature under the      *)
(* site's key is the manifest it was made for.  The medium may lose or     *)
(* change what it carries, an export or an import may be interrupted, and  *)
(* peers drop chunks after they were asked what they hold.                 *)
(***************************************************************************)
EXTENDS Null, Integers, Sequences, SequencesExt, FiniteSetsExt

CONSTANTS
    Files,          \* the versions of the model: sequences of bytes
    ChunkSize,      \* chunk_size
    MaxBytes,       \* max_bytes of the importing machine's store
    Holdings,       \* what that store may hold at first: chunks, oldest first
    Peers,          \* the peers, in the order they are asked
    MaxExports,     \* bound on the exports
    MaxDamage,      \* bound on the damages to the medium
    MaxDropped      \* bound on the chunks that peers drop

VARIABLES
    bundle,         \* the directory: [manifest, signature, chunks]
    export,         \* the export: [n, pc, manifest]
    store,          \* ChunkStore: its chunks, the oldest first
    held,           \* for each peer: the chunks it holds
    call,           \* the importing machine's call
    partial,        \* the temporary file beside the destination; NULL when absent
    dest,           \* the file at the destination; NULL when absent
    damage, dropped

medium_vars == <<bundle, export, damage>>

target_vars == <<store, call, partial, dest>>

seeding_vars == <<medium_vars, target_vars, held, dropped>>

-----------------------------------------------------------------------------
(* chunk.py, merkle.py, manifest.py, signing.py                              *)

iter_file_chunks(file) ==
    [i \in 1..((Len(file) + ChunkSize - 1) \div ChunkSize) |->
        SubSeq(file, (i - 1) * ChunkSize + 1, Min({i * ChunkSize, Len(file)}))]

(* Mutated: an odd node is paired with itself.                               *)
DuplicateOdd(level) ==
    [i \in 1..((Len(level) + 1) \div 2) |->
        <<"node", level[2 * i - 1], level[IF 2 * i <= Len(level) THEN 2 * i ELSE 2 * i - 1]>>]

(* One level of the tree from the one below: an odd node is promoted.        *)
NextLevel(level) ==
    [i \in 1..((Len(level) + 1) \div 2) |->
        IF 2 * i <= Len(level) THEN <<"node", level[2 * i - 1], level[2 * i]>> ELSE level[2 * i - 1]]

merkle_root(chunks) ==
    LET leaves == [i \in DOMAIN chunks |-> <<"leaf", chunks[i]>>]
        level[n \in 0..Len(chunks)] ==
            IF n = 0 THEN leaves ELSE IF Len(level[n - 1]) > 1 THEN NextLevel(level[n - 1]) ELSE level[n - 1]
    IN  IF chunks = <<>> THEN <<"leaf">> ELSE level[Len(chunks)][1]

build_manifest(file) ==
    LET chunks == iter_file_chunks(file)
    IN  [total_size |-> Len(file), whole_file_sha256 |-> file, chunks |-> chunks,
         merkle_root |-> merkle_root(chunks)]

sign_manifest(manifest) == [over |-> manifest]

verify_manifest(manifest, signature) == signature = sign_manifest(manifest)

Manifests == {build_manifest(f) : f \in Files}

Distinct(chunks) ==
    FoldLeft(LAMBDA seen, c : IF c \in Range(seen) THEN seen ELSE Append(seen, c), <<>>, chunks)

Bytes(chunks) == FoldLeft(LAMBDA n, c : n + Len(c), 0, chunks)

AllChunks == UNION {Range(m.chunks) : m \in Manifests}

-----------------------------------------------------------------------------
(* The store.                                                                *)

Touch(chunks, c) == Append(SelectSeq(chunks, LAMBDA d : d # c), c)

(* The oldest go until the rest and the new chunk fit.                       *)
_evict_until_fits(chunks, incoming) ==
    LET n == CHOOSE k \in 0..Len(chunks) :
                /\ Bytes(SubSeq(chunks, k + 1, Len(chunks))) + incoming <= MaxBytes
                /\ \A j \in 0..(k - 1) : Bytes(SubSeq(chunks, j + 1, Len(chunks))) + incoming > MaxBytes
    IN  SubSeq(chunks, n + 1, Len(chunks))

(* Mutated: a chunk enters as the oldest.                                    *)
PutOldest(chunks, c) ==
    IF c \in Range(chunks) THEN Touch(chunks, c) ELSE <<c>> \o _evict_until_fits(chunks, Len(c))

put(chunks, c) ==
    IF c \in Range(chunks) THEN Touch(chunks, c) ELSE Append(_evict_until_fits(chunks, Len(c)), c)

missing_chunks(manifest) == SelectSeq(Distinct(manifest.chunks), LAMBDA c : c \notin Range(store))

-----------------------------------------------------------------------------
SeedingInit ==
    /\ bundle = [manifest |-> NULL, signature |-> NULL, chunks |-> << >>]
    /\ export = [n |-> 0, pc |-> 0, manifest |-> NULL]
    /\ store \in Holdings
    /\ held \in [Range(Peers) -> {{}, AllChunks}]
    /\ call = [pc |-> "idle"]
    /\ partial = NULL /\ dest = NULL
    /\ damage = 0 /\ dropped = 0

(* The export: the manifest, the signature, and one file for each distinct   *)
(* chunk, over whatever the directory holds.  `pc` is the file to be written *)
(* next; the chunks' files are a function from their names.                  *)
(* Bound: a machine has peers or is sent a bundle.                           *)
ExportBegins ==
    /\ export.pc = 0 /\ export.n < MaxExports
    /\ \A p \in Range(Peers) : held[p] = {} /\ dropped = 0
    /\ \E m \in Manifests : export' = [n |-> export.n + 1, pc |-> 1, manifest |-> m]
    /\ UNCHANGED <<bundle, damage, target_vars, held, dropped>>

ChunkFile(name, data) == [n \in DOMAIN bundle.chunks \cup {name} |->
                            IF n = name THEN data ELSE bundle.chunks[n]]

Written(k, whole) ==
    LET m == export.manifest
        names == Distinct(m.chunks)
    IN  CASE k = 1 -> [bundle EXCEPT !.manifest = IF whole THEN m ELSE NULL]
          [] k = 2 -> [bundle EXCEPT !.signature = IF whole THEN sign_manifest(m) ELSE NULL]
          [] OTHER -> [bundle EXCEPT !.chunks = ChunkFile(names[k - 2], IF whole THEN names[k - 2] ELSE <<>>)]

export_bundle ==
    /\ export.pc > 0
    /\ bundle' = Written(export.pc, TRUE)
    /\ export' = [export EXCEPT !.pc = IF @ = 2 + Len(Distinct(export.manifest.chunks)) THEN 0 ELSE @ + 1]
    /\ UNCHANGED <<damage, target_vars, held, dropped>>

(* It ends early: a chunk that the store has not, or a stick pulled out in   *)
(* the middle of a file.                                                     *)
ExportStops ==
    /\ export.pc > 0
    /\ bundle' \in {bundle, Written(export.pc, FALSE)}
    /\ export' = [export EXCEPT !.pc = 0]
    /\ UNCHANGED <<damage, target_vars, held, dropped>>

(* The medium loses a file, or a part of one.                                *)
MediumFails ==
    /\ damage < MaxDamage /\ damage' = damage + 1
    /\ \/ bundle.manifest # NULL
          /\ bundle' \in {[bundle EXCEPT !.manifest = NULL], [bundle EXCEPT !.manifest.chunks = <<>>]}
       \/ bundle' = [bundle EXCEPT !.signature = NULL]
       \/ \E h \in DOMAIN bundle.chunks :
             \/ bundle' = [bundle EXCEPT !.chunks[h] = Tail(h)]
             \/ bundle' = [bundle EXCEPT !.chunks = [n \in DOMAIN @ \ {h} |-> @[n]]]
    /\ UNCHANGED <<export, target_vars, held, dropped>>

-----------------------------------------------------------------------------
(* The importing machine.                                                    *)

Goes(next) == call' = next

Fails == Goes([pc |-> "idle"])

Loads(from, manifest, index) ==
    [pc |-> from, manifest |-> manifest, todo |-> missing_chunks(manifest), got |-> {}, index |-> index]

(* What a damaged or torn file holds is not a manifest.                      *)
parse_manifest(text) == text # NULL

(* The manifest must parse, and its signature verify, before anything is     *)
(* taken from the bundle.                                                    *)
import_bundle ==
    /\ call.pc = "idle"
    /\ IF parse_manifest(bundle.manifest) /\ verify_manifest(bundle.manifest, bundle.signature)
         THEN Goes(Loads("import", bundle.manifest, NULL))
         ELSE Fails
    /\ UNCHANGED <<medium_vars, store, partial, dest, held, dropped>>

(* The peers are asked once what they hold; for each chunk the index has     *)
(* those that hold it, in the order they were asked.                         *)
discover == [c \in AllChunks |-> SelectSeq(Peers, LAMBDA p : c \in held[p])]

fetch_delta ==
    /\ call.pc = "idle"
    /\ \E m \in Manifests : Goes(Loads("fetch", m, discover))
    /\ UNCHANGED <<medium_vars, store, partial, dest, held, dropped>>

(* The next chunk that is missing, checked before it enters the store.       *)
Accept(data) ==
    LET c == Head(call.todo)
    IN  IF data # c THEN Fails /\ UNCHANGED store
        ELSE /\ store' = put(store, c)
             /\ Goes([call EXCEPT !.todo = Tail(@), !.got = @ \cup {c}])

ImportChunk ==
    /\ call.pc = "import" /\ call.todo # <<>>
    /\ LET c == Head(call.todo)
       IN  IF c \in DOMAIN bundle.chunks THEN Accept(bundle.chunks[c]) ELSE Fails /\ UNCHANGED store
    /\ UNCHANGED <<medium_vars, partial, dest, held, dropped>>

(* The first holder of the index is asked, and no other.                     *)
FetchChunk ==
    /\ call.pc = "fetch" /\ call.todo # <<>>
    /\ LET c == Head(call.todo)
           holders == call.index[c]
       IN  IF holders # <<>> /\ c \in held[holders[1]] THEN \E data \in {c, Tail(c)} : Accept(data)
           ELSE Fails /\ UNCHANGED store
    /\ UNCHANGED <<medium_vars, partial, dest, held, dropped>>

(* The call returns, and the caller goes on to rebuild the file.             *)
verified_reconstruct ==
    /\ call.pc \in {"import", "fetch"} /\ call.todo = <<>>
    /\ partial' = <<>>
    /\ Goes([pc |-> "rebuild", manifest |-> call.manifest, got |-> call.got, at |-> 1])
    /\ UNCHANGED <<medium_vars, store, dest, held, dropped>>

(* The chunks in their order; on any failure the temporary file goes, and    *)
(* after the checks of size and digest it takes the destination's name.      *)
reconstruct ==
    /\ call.pc = "rebuild"
    /\ LET m == call.manifest
       IN  IF call.at <= Len(m.chunks)
             THEN IF m.chunks[call.at] \in Range(store)
                    THEN /\ partial' = partial \o m.chunks[call.at]
                         /\ store' = Touch(store, m.chunks[call.at])
                         /\ Goes([call EXCEPT !.at = @ + 1])
                         /\ UNCHANGED dest
                    ELSE partial' = NULL /\ Fails /\ UNCHANGED <<store, dest>>
             ELSE /\ dest' = IF Len(partial) = m.total_size /\ partial = m.whole_file_sha256
                               THEN partial ELSE dest
                  /\ partial' = NULL
                  /\ Fails
                  /\ UNCHANGED store
    /\ UNCHANGED <<medium_vars, held, dropped>>

(* The machine stops: the store was in memory.                               *)
MachineStops ==
    /\ call.pc # "idle" /\ damage < MaxDamage /\ damage' = damage + 1
    /\ store' = <<>>
    /\ Fails
    /\ UNCHANGED <<bundle, export, partial, dest, held, dropped>>

(* A peer makes room.                                                        *)
PeerDrops ==
    /\ dropped < MaxDropped /\ dropped' = dropped + 1
    /\ \E p \in Range(Peers) : \E c \in held[p] : held' = [held EXCEPT ![p] = @ \ {c}]
    /\ UNCHANGED <<medium_vars, target_vars>>

SeedingNext ==
    \/ ExportBegins
    \/ export_bundle
    \/ ExportStops
    \/ MediumFails
    \/ import_bundle
    \/ fetch_delta
    \/ ImportChunk
    \/ FetchChunk
    \/ verified_reconstruct
    \/ reconstruct
    \/ MachineStops
    \/ PeerDrops

SeedingSpec == SeedingInit /\ [][SeedingNext]_seeding_vars

-----------------------------------------------------------------------------
(* Whatever the medium and the peers did, the destination is a version that  *)
(* was signed, and only chunks of signed versions entered the store, within  *)
(* its bound.                                                                *)
OnlySigned ==
    /\ dest # NULL => dest \in Files
    /\ Range(store) \subseteq AllChunks \cup UNION {Range(h) : h \in Holdings}
    /\ Bytes(store) <= MaxBytes

(* A call that has fetched what was missing of a model that fits has not     *)
(* pushed out again what it fetched.  (What the store held before may be     *)
(* gone: missing_chunks does not mark it used, and it is the oldest; the     *)
(* rebuild then fails and the next call fetches it.)                         *)
FetchedIsKept ==
    call.pc # "idle" /\ Bytes(Distinct(call.manifest.chunks)) <= MaxBytes => call.got \subseteq Range(store)

(* The root commits to the chunks and to their order.                        *)
RootsDiffer ==
    \A s, t \in BoundedSeq({1, 2}, 4) : merkle_root(s) = merkle_root(t) => s = t

=============================================================================
