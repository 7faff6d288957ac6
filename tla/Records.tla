------------------------------- MODULE Records --------------------------------
(***************************************************************************)
(* What the coordinator keeps in plain files: the payloads of results,     *)
(* each under the digest of its content (result_blobs.py), and the log of  *)
(* the gateway's requests (jsonl_log.py), which the metrics count in a     *)
(* thread of their own while requests are logged (metrics.py).             *)
(***************************************************************************)
EXTENDS FiniteSets, Integers, Null, Sequences

CONSTANTS Payloads,      \* contents, told apart by their digest
          Size,          \* payload -> its chunks
          MaxPayload,    \* max_payload_bytes, in chunks
          Uploads,       \* the calls of put
          Entries,       \* the entries a request may be logged with
          MaxLogged,     \* bound: entries
          MaxKills       \* bound: deaths of the process

VARIABLES upload,        \* call -> where it is
          blobs,         \* payload -> chunks of the file named by its digest, or NULL
          log,           \* the pieces of the log file, in order
          writing,       \* the entry whose line is half written, or NULL
          scrape,        \* a count that is under way: next piece, counters, floor; or NULL
          shown,         \* the counters of the last metrics answer and of the one before
          kills

record_vars == <<upload, blobs, log, writing, scrape, shown, kills>>

(***************************************************************************)
(* ResultBlobStore.put.                                                    *)
(***************************************************************************)
Idle == [at |-> "idle", payload |-> NULL, received |-> 0]

Begin(u, p) ==
    /\ upload[u].at = "idle"
    /\ upload' = [upload EXCEPT ![u] = [at |-> "receiving", payload |-> p, received |-> 0]]
    /\ UNCHANGED <<blobs, log, writing, scrape, shown, kills>>

(* Mutant: the limit is compared before the chunk is added.                *)
CheckFirst(u) ==
    /\ upload[u].at = "receiving"
    /\ upload[u].received < Size[upload[u].payload]
    /\ upload' = IF upload[u].received > MaxPayload THEN [upload EXCEPT ![u].at = "too_large"]
                 ELSE [upload EXCEPT ![u].received = @ + 1]
    /\ UNCHANGED <<blobs, log, writing, scrape, shown, kills>>

(* A chunk is counted, then compared, then written.                        *)
Receive(u) ==
    /\ upload[u].at = "receiving"
    /\ upload[u].received < Size[upload[u].payload]
    /\ upload' = IF upload[u].received + 1 > MaxPayload THEN [upload EXCEPT ![u].at = "too_large"]
                 ELSE [upload EXCEPT ![u].received = @ + 1]
    /\ UNCHANGED <<blobs, log, writing, scrape, shown, kills>>

(* The sender leaves: the temporary file is unlinked.                      *)
Broken(u) ==
    /\ upload[u].at = "receiving"
    /\ upload' = [upload EXCEPT ![u].at = "failed"]
    /\ UNCHANGED <<blobs, log, writing, scrape, shown, kills>>

(* After the last chunk the file is named, unless another call was first.  *)
put(u) ==
    LET p == upload[u].payload
    IN  /\ upload[u].at = "receiving"
        /\ upload[u].received = Size[p]
        /\ blobs' = IF blobs[p] # NULL THEN blobs ELSE [blobs EXCEPT ![p] = upload[u].received]
        /\ upload' = [upload EXCEPT ![u].at = "stored"]
        /\ UNCHANGED <<log, writing, scrape, shown, kills>>

(***************************************************************************)
(* The request log and its count.                                          *)
(***************************************************************************)
Piece(part, e) == [part |-> part, entry |-> e]

(* A line goes to the file in one write or, when it exceeds the buffer, in *)
(* two; requests are logged on the one event loop, so lines of a process   *)
(* do not mix.                                                             *)
Log(e) ==
    /\ writing = NULL
    /\ Len(log) < MaxLogged
    /\ \/ log' = Append(log, Piece("whole", e)) /\ UNCHANGED writing
       \/ log' = Append(log, Piece("head", e)) /\ writing' = e
    /\ UNCHANGED <<upload, blobs, scrape, shown, kills>>

LogRest ==
    /\ writing # NULL
    /\ log' = Append(log, Piece("rest", writing))
    /\ writing' = NULL
    /\ UNCHANGED <<upload, blobs, scrape, shown, kills>>

Zero == [served |-> 0, shed |-> 0, error |-> 0, retried |-> 0]

(* The pieces that end a line, and those of the line that begins at i: up  *)
(* to its end, or to the end of the file.                                  *)
Line(i) ==
    LET ends == {j \in i..Len(log) : log[j].part # "head"}
    IN  SubSeq(log, i, IF ends = {} THEN Len(log) ELSE CHOOSE j \in ends : \A k \in ends : j <= k)

(* The entry of a line, or NULL for one that is no JSON object: a half, or *)
(* what a killed process left together with the line written next.         *)
_decode_entry(line) ==
    IF Len(line) = 1 /\ line[1].part = "whole" THEN line[1].entry
    ELSE IF Len(line) = 2 /\ line[2].part = "rest" THEN line[2].entry
    ELSE NULL

(* Mutant: a request is counted as retried only if it was served.          *)
CountServed(counts, e) ==
    IF e = NULL \/ e.status # "served" THEN counts
    ELSE [counts EXCEPT !.served = @ + 1, !.retried = IF e.retried THEN @ + 1 ELSE @]

Count(counts, e) ==
    LET tallied == IF e.status = "cancelled" THEN counts ELSE [counts EXCEPT ![e.status] = @ + 1]
    IN  IF e = NULL THEN counts
        ELSE IF e.retried THEN [tallied EXCEPT !.retried = @ + 1] ELSE tallied

(* What is to be counted: the entries that are in the file to their end.   *)
Logged ==
    LET Of(k) == {i \in DOMAIN log : log[i].part # "head" /\ (IF k = "retried" THEN log[i].entry.retried
                                                             ELSE log[i].entry.status = k)}
    IN  [k \in DOMAIN Zero |-> Cardinality(Of(k))]

Scrape ==
    /\ scrape = NULL
    /\ scrape' = [next |-> 1, counts |-> Zero, floor |-> Logged]
    /\ UNCHANGED <<upload, blobs, log, writing, shown, kills>>

read_gateway_counters ==
    /\ scrape # NULL
    /\ LET i == scrape.next
       IN  IF i > Len(log)
           THEN /\ shown' = [last |-> scrape.counts, before |-> shown.last, floor |-> scrape.floor]
                /\ scrape' = NULL
           ELSE /\ scrape' = [scrape EXCEPT !.next = i + Len(Line(i)),
                                            !.counts = Count(@, _decode_entry(Line(i)))]
                /\ UNCHANGED shown
    /\ UNCHANGED <<upload, blobs, log, writing, kills>>

(* The process dies: uploads under way leave their temporary files, which  *)
(* nothing reads, and a line half written stays without its end.           *)
Kill ==
    /\ kills < MaxKills
    /\ kills' = kills + 1
    /\ upload' = [u \in Uploads |-> IF upload[u].at = "receiving" THEN Idle ELSE upload[u]]
    /\ writing' = NULL
    /\ scrape' = NULL
    /\ UNCHANGED <<blobs, log, shown>>

RecordsInit ==
    /\ upload = [u \in Uploads |-> Idle]
    /\ blobs = [p \in Payloads |-> NULL]
    /\ log = <<>>
    /\ writing = NULL
    /\ scrape = NULL
    /\ shown = [last |-> Zero, before |-> Zero, floor |-> Zero]
    /\ kills = 0

RecordsNext ==
    \/ \E u \in Uploads : Receive(u) \/ Broken(u) \/ put(u) \/ \E p \in Payloads : Begin(u, p)
    \/ \E e \in Entries : Log(e)
    \/ LogRest
    \/ Scrape
    \/ read_gateway_counters
    \/ Kill

(***************************************************************************)
(* Properties.                                                             *)
(***************************************************************************)
(* Calls that bring the same content at once, break off or are killed do   *)
(* no harm: the file of a digest is the whole content and within the       *)
(* limit, it is there once a call has answered with the digest, and only a *)
(* content beyond the limit is refused as too large (ResultBlobStore.put). *)
BlobsAreWhole ==
    /\ \A p \in Payloads : blobs[p] # NULL => blobs[p] = Size[p] /\ Size[p] <= MaxPayload
    /\ \A u \in Uploads :
        /\ upload[u].at = "stored" => blobs[upload[u].payload] # NULL
        /\ upload[u].at = "too_large" => Size[upload[u].payload] > MaxPayload

(* The counters are counters, whatever is logged while they are counted:   *)
(* an answer never shows more than was logged, and never less than the     *)
(* answer before it or than all that was logged when the count began, but  *)
(* for one entry each time the process was killed within a line: the line  *)
(* written next is joined to the half one (read_gateway_counters).         *)
CountersCount ==
    \A k \in DOMAIN Zero :
        /\ shown.last[k] >= shown.before[k] - kills
        /\ shown.last[k] <= Logged[k]
        /\ shown.last[k] >= shown.floor[k] - kills

=============================================================================
