--------------------------- MODULE ProviderAdapters ---------------------------
(***************************************************************************)
(* The adapters of providers.py: what the client library of a vendor raised *)
(* or returned becomes a response or one of a few codes.  A raw outcome     *)
(* names the class that was raised (or "none"), the HTTP status, why the    *)
(* answer stopped, the kinds of its blocks and whether its usage counts are *)
(* whole numbers.                                                           *)
(***************************************************************************)
EXTENDS Integers, Sequences

CONSTANT Vendor  \* "openai" or "anthropic"
VendorAssumption == Vendor \in {"openai", "anthropic"}

(* A response without content. *)
NoBody == [shape |-> FALSE, findings |-> <<>>]

(* The class hierarchy of both libraries: a class and those above it. *)
APIError == {"APIError"}
APIStatusError == APIError \cup {"APIStatusError"}
APIConnectionError == APIError \cup {"APIConnectionError"}
Superclasses ==
  [AuthenticationError |-> APIStatusError \cup {"AuthenticationError"},
   PermissionDeniedError |-> APIStatusError \cup {"PermissionDeniedError"},
   RateLimitError |-> APIStatusError \cup {"RateLimitError"},
   APIStatusError |-> APIStatusError,
   APIConnectionError |-> APIConnectionError,
   APITimeoutError |-> APIConnectionError \cup {"APITimeoutError"},
   APIResponseValidationError |-> APIError \cup {"APIResponseValidationError"},
   ContentFilterFinishReasonError |-> {"ContentFilterFinishReasonError"},
   APIError |-> APIError,
   OtherError |-> {"OtherError"}]

(* The except clauses, in the order of the source. *)
Clauses ==
  <<[class |-> "AuthenticationError", code |-> "authentication_failed"],
    [class |-> "PermissionDeniedError", code |-> "authentication_failed"],
    [class |-> "RateLimitError", code |-> "rate_limited"],
    [class |-> "APITimeoutError", code |-> "timeout"],
    [class |-> "APIConnectionError", code |-> "unavailable"],
    [class |-> "APIResponseValidationError", code |-> "invalid_response"]>>
  \o (IF Vendor = "openai"
        THEN <<[class |-> "ContentFilterFinishReasonError", code |-> "refused"]>>
        ELSE <<>>)
  \o <<[class |-> "APIStatusError", code |-> "by_status"],
       [class |-> "APIError", code |-> "request_failed"]>>

Catching(raised) == {i \in DOMAIN Clauses : Clauses[i].class \in Superclasses[raised]}

(* Python takes the first clause that matches. *)
Chosen(catching) == CHOOSE i \in catching : \A j \in catching : i <= j

StatusCode(status) ==
  IF status = 408 THEN "timeout"
  ELSE IF status = 409 \/ status >= 500 THEN "unavailable"
  ELSE "request_failed"

Caught(raw) ==
  LET clause == Clauses[Chosen(Catching(raw.raised))]
  IN  IF clause.code = "by_status" THEN StatusCode(raw.status) ELSE clause.code

(* The status of an answer of OpenAI, the stop reason of one of Anthropic,  *)
(* when it is not complete.                                                 *)
Complete == IF Vendor = "openai" THEN {"completed"} ELSE {"end_turn", "stop_sequence"}

Incomplete(stop) ==
  CASE stop \in {"content_filter", "refusal", "failed_policy"} -> "refused"
    [] stop = "failed_server_error" -> "unavailable"
    [] stop = "failed_rate_limit_exceeded" -> "rate_limited"
    [] stop = "failed_vector_store_timeout" -> "timeout"
    [] stop = "failed_request" -> "request_failed"
    [] OTHER -> "invalid_response"

(* The blocks are read in order up to the first that is not text.  What is  *)
(* not a message in an answer of OpenAI is passed over.                     *)
Readable == {"text"} \cup (IF Vendor = "openai" THEN {"reasoning"} ELSE {})
Bad(blocks) == {i \in DOMAIN blocks : blocks[i] \notin Readable}
FirstBad(blocks) == blocks[CHOOSE i \in Bad(blocks) : \A j \in Bad(blocks) : i <= j]

Returned(raw) ==
  IF raw.stop \notin Complete THEN Incomplete(raw.stop)
  ELSE IF Bad(raw.blocks) # {}
    THEN IF FirstBad(raw.blocks) = "refusal" /\ Vendor = "openai"
           THEN "refused" ELSE "invalid_response"
  ELSE IF raw.usage THEN "none" ELSE "invalid_response"

Failed(code) == [kind |-> "error", code |-> code, body |-> NoBody]

(* What complete() returns or raises. *)
Adapted(raw) ==
  IF raw.raised # "none"
    THEN IF Catching(raw.raised) = {}
           THEN [kind |-> "raise", code |-> "none", body |-> NoBody]
           ELSE Failed(Caught(raw))
  ELSE IF Returned(raw) # "none"
    THEN Failed(Returned(raw))
  ELSE [kind |-> "response", code |-> "none", body |-> raw.body]
=============================================================================
