----------------------------- MODULE RequestAPI -----------------------------
(***************************************************************************)
(* The response half of requestAPIWithIdempotency and its error values     *)
(* (src/ibs/client.go:198-282, 354-404), shared by every component that    *)
(* calls the API.  An error is the Go value's kind; its text is left out.  *)
(* A response body is what the code can tell apart:                        *)
(*   unreadable   io.ReadAll fails half way                                *)
(*   nonJSON      not JSON, e.g. an HTML page from a proxy                 *)
(*   notEnvelope  JSON that does not decode into apiStatusEnvelope         *)
(*   statusFalse  an envelope whose status is false or absent (also null)  *)
(*   badData      status true, but the caller's struct rejects the rest    *)
(*   goodData     status true and decodable                                *)
(***************************************************************************)
EXTENDS Integers

Bodies == {"unreadable", "nonJSON", "notEnvelope", "statusFalse", "badData", "goodData"}

NoError == "nil"

Sentinels == {"ErrDuplicateIdempotencyKey", "ErrPayloadTooLarge", "ErrRateLimited"}

Errors == Sentinels \cup {NoError, "APIError", "DecodeError", "ReadError",
                          "TransportError", "LocalError", "InvalidArgument"}

\* Faulty variant: every 4xx that means "not now" is taken for a duplicate.
ClassifyBusyAsDuplicate(code) ==
    CASE code \in {409, 429} -> "ErrDuplicateIdempotencyKey"
      [] code = 413          -> "ErrPayloadTooLarge"
      [] OTHER               -> NoError

ClassifyStatus(code) ==
    CASE code = 409 -> "ErrDuplicateIdempotencyKey"
      [] code = 413 -> "ErrPayloadTooLarge"
      [] code = 429 -> "ErrRateLimited"
      [] OTHER      -> NoError

\* Faulty variant: the envelope's status field is not looked at.
EnvelopeErrorIgnored(body) ==
    CASE body = "nonJSON"     -> "APIError"
      [] body = "notEnvelope" -> "DecodeError"
      [] OTHER                -> NoError

EnvelopeError(body) ==
    CASE body \in {"nonJSON", "statusFalse"} -> "APIError"
      [] body = "notEnvelope"                -> "DecodeError"
      [] OTHER                               -> NoError

\* requestAPIWithIdempotency once httpClient.Do has returned a response: the
\* HTTP status is classified before the envelope is looked at.
RequestAPIError(code, body) ==
    IF body = "unreadable" THEN "ReadError"
    ELSE IF ClassifyStatus(code) # NoError THEN ClassifyStatus(code)
    ELSE EnvelopeError(body)

\* A caller that goes on to decode its own struct from the body.
CallError(code, body) ==
    IF RequestAPIError(code, body) = NoError /\ body = "badData" THEN "DecodeError"
    ELSE RequestAPIError(code, body)

\* What can arrive in place of response r: r itself, r cut off, a body that
\* the SDK cannot decode, or an error page of a gateway.
Arrivals(r) == {r, [r EXCEPT !.body = "unreadable"], [r EXCEPT !.code = 502, !.body = "nonJSON"]}
               \cup IF r.body = "goodData" THEN {[r EXCEPT !.body = "badData"]} ELSE {}

IsAPIError(err) == err = "APIError"

IsDuplicateIdempotencyKey(err) == err = "ErrDuplicateIdempotencyKey"

=============================================================================
