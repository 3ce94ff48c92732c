---------------------------- MODULE CallbackVerify ----------------------------
(***************************************************************************)
(* Verification and routing of signed callbacks                            *)
(* (src/ibs/callback_verify.go) inside the HTTP handlers of a service.     *)
(* IBS fires a callback once, signed with the current time; the network    *)
(* may delay it, deliver it any number of times, and damage it on the way. *)
(* The service's clock is within MaxDrift of the clock of IBS, in either   *)
(* direction and not necessarily monotonic.                                *)
(*                                                                         *)
(* A string is a text with or without white space around it; TrimSpace     *)
(* takes the white space off.  A field of a signed message is one piece,   *)
(* and HMAC-SHA256 under a key is an injective function of the message.    *)
(* IBS, the network and the clocks are external.                           *)
(***************************************************************************)
EXTENDS SignedMessage, Integers, FiniteSets

CONSTANTS Handlers,        \* HTTP handlers running in the service
          Callbacks,       \* callbacks that IBS fires, one nonce each
          PayloadOf,       \* PayloadOf[c]: the body of callback c
          NonceLength,     \* NonceLength[c]: length of its nonce
          Configs,         \* the credentials the service may be configured with
          Empty,           \* the empty string
          Junk,            \* a text that is no decimal number
          Unreadable,      \* a body whose connection breaks while it is read
          NotJSON,         \* a body that json.Unmarshal rejects
          NotFired,        \* no time: the callback has not been fired
          MaxSkew,         \* callbackMaxTimestampSkewSeconds
          MaxNonceLength,  \* callbackMaxNonceLength
          MaxDrift,        \* bound on the difference of the two clocks
          MaxTime,         \* bound on time
          MaxFired         \* bound on the callbacks fired

Kinds == {"pending_transaction_reverse", "pending_card_reverse"}

\* What the parsers can tell of a JSON body: the event name after TrimSpace
\* ("other" for any event they do not know) and which ids are not blank.
Payloads == [event : Kinds \cup {"other", "blank"}, transactionID : BOOLEAN, orderID : BOOLEAN]

CallbackBodies == Payloads \cup {NotJSON, Unreadable}

String(text)    == [text |-> text, padded |-> FALSE]
Padded(string)  == [text |-> string.text, padded |-> TRUE]
TrimSpace(string) == string.text

IbsKey == "ibsKey"
IbsSecret == "ibsSecret"

\* A configured secret may be no base64 string at all.
Secrets == {IbsSecret, "otherSecret", "notBase64"}

\* signCallbackBody with a secret that decodes.
Signature(secret, message) == [secret |-> secret, message |-> message]

\* The signature of callback c when IBS fires it at this time.
SignatureOf(c, time) == Signature(IbsSecret, Message(<<PayloadOf[c]>>, <<IbsKey>>, <<time>>, <<c>>))

ASSUME CallbackAssumption ==
    /\ PayloadOf \in [Callbacks -> Payloads \cup {NotJSON}]
    /\ NonceLength \in [Callbacks -> Nat]
    /\ \A cfg \in Configs :
          /\ DOMAIN cfg = {"apiKey", "secretKey"}
          /\ cfg.apiKey \in [text : {IbsKey, "otherKey", Empty}, padded : BOOLEAN]
          /\ cfg.secretKey \in [text : Secrets \cup {Empty}, padded : BOOLEAN]
    /\ MaxSkew \in Nat /\ MaxNonceLength \in Nat /\ MaxDrift \in Nat /\ MaxTime \in Nat
    /\ MaxFired \in Nat
    /\ Junk \notin Int /\ Empty \notin Int /\ NotFired \notin Int
    /\ Empty \notin {IbsKey, IbsSecret} \cup Callbacks
    /\ \A c \in Callbacks, time \in 0..MaxTime : SignatureOf(c, time) # Empty
    /\ Unreadable # NotJSON /\ {Unreadable, NotJSON} \cap Payloads = {}

VARIABLES config,   \* the service's Config, set once before it serves
          clock,    \* the time at IBS
          fired,    \* when each callback was signed
          handler   \* what each handler is doing

vars == <<config, clock, fired, handler>>

IdleHandler == [pc |-> "idle"]

Init == /\ config \in Configs
        /\ clock = 0
        /\ fired = [c \in Callbacks |-> NotFired]
        /\ handler = [h \in Handlers |-> IdleHandler]

-----------------------------------------------------------------------------
(* IBS and the network.                                                    *)

Genuine(c) ==
    [apiKey    |-> String(IbsKey),
     signature |-> String(SignatureOf(c, fired[c])),
     timestamp |-> String(fired[c]),
     nonce     |-> String(c),
     body      |-> PayloadOf[c]]

Headers == {"apiKey", "signature", "timestamp", "nonce"}

\* Proxies may add white space to the headers or drop one; a body may be cut,
\* replaced or fail to arrive.
Damaged(c) ==
    LET g == Genuine(c)
    IN  {[f \in DOMAIN g |-> IF f \in Headers THEN Padded(g[f]) ELSE g[f]]}
        \cup {[g EXCEPT ![f] = String(Empty)] : f \in Headers}
        \cup {[g EXCEPT !.timestamp = String(ts)] : ts \in {Junk, clock}}
        \cup {[g EXCEPT !.body = b] : b \in {PayloadOf[d] : d \in Callbacks} \cup {NotJSON, Unreadable}}

Tick == /\ clock < MaxTime
        /\ clock' = clock + 1
        /\ UNCHANGED <<config, fired, handler>>

Fire(c) == /\ fired[c] = NotFired
           /\ Cardinality({d \in Callbacks : fired[d] # NotFired}) < MaxFired
           /\ fired' = [fired EXCEPT ![c] = clock]
           /\ UNCHANGED <<config, clock, handler>>

\* One more delivery of a callback that was fired, now or earlier.
Deliver(h, c) ==
    /\ handler[h].pc = "idle" /\ fired[c] # NotFired
    /\ \E r \in {Genuine(c)} \cup Damaged(c) :
          handler' = [handler EXCEPT ![h] =
                         [pc |-> "arrived", of |-> c, request |-> r, rest |-> r.body, now |-> 0,
                          at |-> clock, err |-> "nil", result |-> "none"]]
    /\ UNCHANGED <<config, clock, fired>>

-----------------------------------------------------------------------------
(* VerifyCallbackRequest.                                                  *)

Do(h, pc, err) == handler' = [handler EXCEPT ![h] = [@ EXCEPT !.pc = pc, !.err = err]]

\* Faulty variant: r.Body stays drained.
Drained(body) == NotJSON

\* r.Body is replaced by a reader over the bytes that were read.
Restored(body) == body

ReadBody(h) ==
    LET r == handler[h].request
    IN  /\ handler[h].pc = "arrived"
        /\ IF r.body = Unreadable
           THEN Do(h, "done", "ReadError")
           ELSE handler' = [handler EXCEPT ![h] = [@ EXCEPT !.pc = "read", !.rest = Restored(r.body)]]
        /\ UNCHANGED <<config, clock, fired>>

HeadersMissing(r) == \/ \E f \in Headers : TrimSpace(r[f]) = Empty
                     \/ TrimSpace(r.nonce) \in Callbacks /\ NonceLength[TrimSpace(r.nonce)] > MaxNonceLength

NotConfigured == TrimSpace(config.apiKey) = Empty \/ TrimSpace(config.secretKey) = Empty

\* Faulty variant: only timestamps from the future are refused.
FutureOnly(ts, now) == ts > now + MaxSkew

Stale(ts, now) == ts < now - MaxSkew \/ ts > now + MaxSkew

ExpectedSignature(r) ==
    Signature(TrimSpace(config.secretKey),
              Message(<<r.body>>, <<TrimSpace(config.apiKey)>>, <<TrimSpace(r.timestamp)>>, <<TrimSpace(r.nonce)>>))

\* VerifyCallbackSignature: the first check that fails decides the error.
VerifyError(r, now) ==
    IF HeadersMissing(r) THEN "ErrMissingCallbackHeaders"
    ELSE IF NotConfigured THEN "NotConfigured"
    ELSE IF TrimSpace(r.apiKey) # TrimSpace(config.apiKey) THEN "ErrInvalidCallbackAPIKey"
    ELSE IF TrimSpace(r.timestamp) \notin Int THEN "ErrInvalidCallbackTimestamp"
    ELSE IF Stale(TrimSpace(r.timestamp), now) THEN "ErrStaleCallbackTimestamp"
    ELSE IF TrimSpace(config.secretKey) = "notBase64" THEN "DecodeError"
    ELSE IF TrimSpace(r.signature) # ExpectedSignature(r) THEN "ErrInvalidCallbackSignature"
    ELSE "nil"

Verify(h) ==
    /\ handler[h].pc = "read"
    /\ \E now \in (clock - MaxDrift)..(clock + MaxDrift) :
          LET err == VerifyError(handler[h].request, now)
          IN  handler' = [handler EXCEPT ![h] =
                             [@ EXCEPT !.pc = IF err = "nil" THEN "verified" ELSE "done",
                                       !.err = err, !.now = now, !.at = clock]]
    /\ UNCHANGED <<config, clock, fired>>

-----------------------------------------------------------------------------
(* Parsing.  The handler works on the bytes VerifyCallbackRequest returned *)
(* or reads r.Body again, and either routes by ParseReverseCallbackEvent   *)
(* or tries the typed parsers.                                             *)

\* Faulty variant: a blank event is an event.
BlankEventPasses(body) == IF body = NotJSON THEN "SyntaxError" ELSE "nil"

\* ParseReverseCallbackEvent.
EventError(body) == IF body = NotJSON THEN "SyntaxError"
                    ELSE IF body.event = "blank" THEN "ErrInvalidCallbackPayload"
                    ELSE "nil"

HasId(body, kind) == IF kind = "pending_transaction_reverse" THEN body.transactionID ELSE body.orderID

\* Faulty variant: the typed parsers do not look at the event.
EventNotChecked(body, kind) ==
    IF body = NotJSON THEN "SyntaxError"
    ELSE IF ~HasId(body, kind) THEN "ErrInvalidCallbackPayload" ELSE "nil"

\* ParsePendingTransactionReverseCallback and ParsePendingCardReverseCallback.
ParseError(body, kind) ==
    IF body = NotJSON THEN "SyntaxError"
    ELSE IF body.event # kind \/ ~HasId(body, kind) THEN "ErrInvalidCallbackPayload"
    ELSE "nil"

Available(h) == {handler[h].request.body, handler[h].rest}

Finish(h, err, result) ==
    handler' = [handler EXCEPT ![h] = [@ EXCEPT !.pc = "done", !.err = err, !.result = result]]

\* Route by the event name; events with no typed parser are only acknowledged.
Route(h) ==
    /\ handler[h].pc = "verified"
    /\ \E body \in Available(h) :
          IF EventError(body) # "nil" THEN Finish(h, EventError(body), "none")
          ELSE IF body.event \notin Kinds THEN Finish(h, "nil", body.event)
          ELSE Finish(h, ParseError(body, body.event),
                      IF ParseError(body, body.event) = "nil" THEN body.event ELSE "none")
    /\ UNCHANGED <<config, clock, fired>>

\* Try one typed parser on the body, whatever its event.
ParseAs(h, kind) ==
    /\ handler[h].pc = "verified"
    /\ \E body \in Available(h) :
          Finish(h, ParseError(body, kind), IF ParseError(body, kind) = "nil" THEN kind ELSE "none")
    /\ UNCHANGED <<config, clock, fired>>

Respond(h) == /\ handler[h].pc = "done"
              /\ handler' = [handler EXCEPT ![h] = IdleHandler]
              /\ UNCHANGED <<config, clock, fired>>

-----------------------------------------------------------------------------

Next == \/ Tick
        \/ \E c \in Callbacks : Fire(c)
        \/ \E h \in Handlers : \/ ReadBody(h) \/ Verify(h) \/ Route(h) \/ Respond(h)
                               \/ \E c \in Callbacks : Deliver(h, c)
                               \/ \E kind \in Kinds : ParseAs(h, kind)

Spec == Init /\ [][Next]_vars

-----------------------------------------------------------------------------
(* Properties.                                                             *)

VerifyErrors == {"ErrMissingCallbackHeaders", "NotConfigured", "ErrInvalidCallbackAPIKey",
                 "ErrInvalidCallbackTimestamp", "ErrStaleCallbackTimestamp", "DecodeError",
                 "ErrInvalidCallbackSignature"}

Busy(h) == handler[h].pc # "idle"

TypeOK ==
    /\ config \in Configs /\ clock \in 0..MaxTime
    /\ fired \in [Callbacks -> 0..MaxTime \cup {NotFired}]
    /\ \A h \in Handlers : Busy(h) =>
          /\ handler[h].pc \in {"arrived", "read", "verified", "done"}
          /\ handler[h].of \in Callbacks /\ handler[h].at \in 0..MaxTime
          /\ handler[h].request.body \in CallbackBodies /\ handler[h].rest \in CallbackBodies
          /\ handler[h].err \in VerifyErrors \cup {"nil", "ReadError", "SyntaxError", "ErrInvalidCallbackPayload"}
          /\ handler[h].result \in Kinds \cup {"none", "other"}

\* A callback that passes verification is one IBS fired: its body, time and
\* nonce arrived as they were signed, whatever happened on the way, and the
\* service holds the credentials of IBS (callback_verify.go:71-111).
OnlyGenuineAccepted ==
    \A h \in Handlers : handler[h].pc = "verified" =>
        LET r == handler[h].request
            c == handler[h].of
        IN  /\ r.body = PayloadOf[c] /\ TrimSpace(r.timestamp) = fired[c] /\ TrimSpace(r.nonce) = c
            /\ TrimSpace(config.apiKey) = IbsKey /\ TrimSpace(config.secretKey) = IbsSecret

\* A delivery that arrives after the window is refused, however often the same
\* callback was accepted before: nothing is accepted later than the skew and
\* the clock drift allow (callback_verify.go:95-98).
NoLateAcceptance ==
    \A h \in Handlers : handler[h].pc = "verified" =>
        handler[h].at <= fired[handler[h].of] + MaxSkew + MaxDrift

\* r is callback c as it was sent, white space around the headers apart.
Undamaged(r, c) == /\ \A f \in Headers : TrimSpace(r[f]) = TrimSpace(Genuine(c)[f])
                   /\ r.body = PayloadOf[c]

\* A service with the right credentials (white space around them does not
\* matter) refuses no intact callback that is verified within the window, both
\* ends included, and its parsers see the body that was verified even when
\* they read r.Body again (callback_verify.go:72-111, 141-146).
PunctualIsHandled ==
    \A h \in Handlers :
        /\ handler[h].pc = "done" /\ Undamaged(handler[h].request, handler[h].of)
        /\ TrimSpace(config.apiKey) = IbsKey /\ TrimSpace(config.secretKey) = IbsSecret
        /\ NonceLength[handler[h].of] <= MaxNonceLength
        /\ handler[h].at <= fired[handler[h].of] + MaxSkew - MaxDrift
        => /\ handler[h].err \notin VerifyErrors
           /\ handler[h].err = "SyntaxError" => PayloadOf[handler[h].of] = NotJSON

\* What the service handles as a reversal is a callback that IBS fired with that
\* event and the id the reversal needs, whichever parser the handler tried
\* (callback_verify.go:162-204).
RoutedByEvent ==
    \A h \in Handlers :
        Busy(h) /\ handler[h].result \in Kinds =>
            /\ PayloadOf[handler[h].of].event = handler[h].result
            /\ HasId(PayloadOf[handler[h].of], handler[h].result)

=============================================================================
