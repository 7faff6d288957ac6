------------------------------ MODULE ChatBody ------------------------------
(***************************************************************************)
(* What the gateway does with a request before it waits for a replica:     *)
(* the checks of its body, the retrieved context that is put before its    *)
(* messages when it asks for it, and the verdict that is logged with it.   *)
(* A text is a sequence of symbols; the two markers of the context share   *)
(* their beginning and their end, as the real ones do.                     *)
(***************************************************************************)
EXTENDS Integers, Null, SequencesExt

CONSTANTS ChatBodies,     \* the bodies sent: records of the fields below
          Retrieved,      \* what the retriever may find: sequences of texts
          Allowlist,      \* the models the key may use
          Served,         \* the models registered
          LargeModels,    \* the models whose id names 30b parameters or more
          MaxK,           \* _MAX_K
          Small, Large, Coding,  \* the limits of the verdict, in symbols
          Few, Many,             \* and in messages
          Odd             \* a value of a type the field does not have

VARIABLE exchange   \* NULL, or the body sent and what became of it

OpenSign == 1
CloseSign == 4
Newline == 0
Fence == 9    \* the code fence

CONTEXT_BEGIN == <<OpenSign, 2, CloseSign>>
CONTEXT_END == <<OpenSign, 3, CloseSign>>

(***************************************************************************)
(* Texts.                                                                  *)
(***************************************************************************)
(* The places where the marker begins.                                     *)
Found(marker, text) ==
    {j \in 1..(Len(text) - Len(marker) + 1) : SubSeq(text, j, j + Len(marker) - 1) = marker}

(* A marker does not overlap itself, so replacing it from left to right    *)
(* removes every symbol of every occurrence.                               *)
Deleted(marker, text) ==
    LET covered == UNION {j..(j + Len(marker) - 1) : j \in Found(marker, text)}
    IN  FoldLeftDomain(LAMBDA kept, i : IF i \in covered THEN kept ELSE Append(kept, text[i]),
                       <<>>, text)

(* One pass; the mutant of the whole stops after it.                       *)
StripOnce(text) == Deleted(CONTEXT_END, Deleted(CONTEXT_BEGIN, text))

(* Deleting a marker may join what is around it to another one, so the     *)
(* passes go on until none is left.                                        *)
RECURSIVE StripAll(_)
StripAll(text) ==
    IF Found(CONTEXT_BEGIN, text) \cup Found(CONTEXT_END, text) = {} THEN text
    ELSE StripAll(StripOnce(text))

_strip_markers(text) == StripAll(text)

_context_message(chunks) ==
    LET numbered == FlattenSeq([i \in DOMAIN chunks |-> _strip_markers(chunks[i]) \o <<Newline>>])
    IN  [role |-> "system", content |-> CONTEXT_BEGIN \o <<Newline>> \o numbered \o CONTEXT_END]

(***************************************************************************)
(* The fields of a body.  NULL is an absent field, Odd a value of a wrong  *)
(* type; a content that is Odd is no text.                                 *)
(***************************************************************************)
IsText(content) == content # Odd

_check_messages(messages) ==
    messages \notin {NULL, Odd, <<>>} /\ \A i \in DOMAIN messages : messages[i].role # NULL

_check_n(n) == n = NULL \/ n = 1
_check_min_int(v) == v = NULL \/ (v # Odd /\ v >= 1)
_check_range(v, high) == v = NULL \/ (v # Odd /\ v \in 0..high)

validate_chat_body(path, b) ==
    path = "chat" => /\ _check_messages(b.messages)
                     /\ _check_n(b.n)
                     /\ _check_min_int(b.max_tokens)
                     /\ _check_range(b.temperature, 2)

MessagesOf(b) == IF b.messages \in {NULL, Odd} THEN <<>> ELSE b.messages

(* The texts of a body, and how long they are together.                    *)
_iter_contents(messages) ==
    SelectSeq([i \in DOMAIN messages |-> messages[i].content], IsText)

_prompt_chars(messages) == Len(FlattenSeq(_iter_contents(messages)))

_last_user_message(messages) ==
    {i \in DOMAIN messages : messages[i].role = "user" /\ messages[i].content \notin {Odd, <<>>}}

classify_eligibility(model, messages) ==
    LET tokens   == _prompt_chars(messages)
        has_code == \E text \in Range(_iter_contents(messages)) : Contains(text, Fence)
    IN  IF model \in LargeModels \/ tokens >= Large \/ (has_code /\ tokens >= Coding)
           \/ Len(messages) >= Many
        THEN "escalate"
        ELSE IF /\ _iter_contents(messages) # <<>>
                /\ tokens <= Small
                /\ ~has_code
                /\ Len(messages) <= Few
        THEN "local_ok"
        ELSE "unknown"

(***************************************************************************)
(* Retrieval into the chat.                                                *)
(***************************************************************************)
_parse_spec(rag) == rag # Odd /\ rag.collection # NULL /\ rag.k \in 1..MaxK

(* The status of the request's refusal, or 0; `found` is what the          *)
(* retriever answers, NULL when there is no retriever.                     *)
RagRefusal(b, found) ==
    IF found = NULL THEN 400
    ELSE IF ~_parse_spec(b.rag) THEN 422
    ELSE IF _last_user_message(MessagesOf(b)) = {} THEN 400
    ELSE 0

(* The chunks are put before the messages; the request loses its rag field. *)
apply_rag(b, found) ==
    [b EXCEPT !.rag = NULL,
              !.messages = IF found = <<>> THEN @ ELSE <<_context_message(found)>> \o @]

(***************************************************************************)
(* GatewayService.proxy, up to the routing.                                *)
(***************************************************************************)
Refusal(path, b, found) ==
    IF b.model \in {NULL, Odd} THEN 400
    ELSE IF b.model \notin Allowlist THEN 403
    ELSE IF b.model \notin Served THEN 404
    ELSE IF ~validate_chat_body(path, b) THEN 400
    ELSE IF path = "chat" /\ b.rag # NULL THEN RagRefusal(b, found)
    ELSE 0

proxy(path, b, found) ==
    LET sent == IF path = "chat" /\ b.rag # NULL THEN apply_rag(b, found) ELSE b
        code == Refusal(path, b, found)
    IN  /\ exchange = NULL
        /\ exchange' =
             IF code # 0 THEN [path |-> path, body |-> b, found |-> found, status |-> code]
             ELSE [path |-> path, body |-> b, found |-> found, status |-> 0, sent |-> sent,
                   prompt_chars |-> _prompt_chars(MessagesOf(b)),
                   eligibility |-> classify_eligibility(b.model, MessagesOf(sent))]

ChatInit == exchange = NULL

ChatNext ==
    exchange = NULL /\ \E path \in {"chat", "embeddings"}, b \in ChatBodies :
        \E found \in (IF b.rag = NULL THEN {} ELSE Retrieved) \cup {NULL} : proxy(path, b, found)

(***************************************************************************)
(* A request that goes on to a replica with retrieved context carries it   *)
(* in one message of its own, first, between one pair of markers that      *)
(* nothing in the chunks can forge, whatever the chunks are joined from;   *)
(* the client's messages follow untouched and the rag field is gone.       *)
(***************************************************************************)
ContextIsFenced ==
    exchange # NULL /\ exchange.status = 0 /\ exchange.path = "chat" /\ exchange.body.rag # NULL =>
        LET sent  == exchange.sent.messages
            text  == sent[1].content
            inner == SubSeq(text, 2, Len(text) - 1)
        IN  /\ exchange.sent.rag = NULL
            /\ exchange.found = <<>> => sent = exchange.body.messages
            /\ exchange.found # <<>> =>
                /\ Tail(sent) = exchange.body.messages
                /\ IsPrefix(CONTEXT_BEGIN, text) /\ IsSuffix(CONTEXT_END, text)
                /\ Found(CONTEXT_BEGIN, inner) = {} /\ Found(CONTEXT_END, inner) = {}

=============================================================================
