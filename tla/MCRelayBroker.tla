--------------------------- MODULE MCRelayBroker ---------------------------
(* Small instances of RelayBroker.                                           *)
EXTENDS RelayBroker

Made(c) == works[c] # NULL

(* A work whose response has a body, is streamed or reports an error.        *)
Rich(c) ==
    uploads[c].sent > 0 \/ (Made(c) /\ (works[c].mode = "stream" \/ works[c].status = "error"))

(* Two works race each other with plain responses; one work alone, on one    *)
(* claim, has every kind of response.                                        *)
RichAlone ==
    (\E c \in Claims : Rich(c)) =>
        \A c, d \in Claims : Made(c) /\ Made(d) => c = d

=============================================================================
