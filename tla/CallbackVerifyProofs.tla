-------------------------- MODULE CallbackVerifyProofs --------------------------
(***************************************************************************)
(* Proofs about CallbackVerify, for any callbacks, handlers, credentials,  *)
(* clock drift and window.  The inductive invariant keeps, with what a     *)
(* handler has concluded, the request it came from and the time of its     *)
(* clock when it was verified.  Last, that the fields of a signed message  *)
(* can be told from it, which is what the separator is for                 *)
(* (src/ibs/client.go, hmacFieldSeparator).                                *)
(***************************************************************************)
EXTENDS CallbackVerify, TLAPS

\* s is what a handler that is at work keeps.
IsHandling(s) == s = [pc |-> s.pc, of |-> s.of, request |-> s.request, rest |-> s.rest,
                      now |-> s.now, at |-> s.at, err |-> s.err, result |-> s.result]

\* r came from callback c: no one else can sign, and the nonce is c's.
CameFrom(r, c) == /\ TrimSpace(r.signature) \in {SignatureOf(c, fired[c]), Empty}
                  /\ TrimSpace(r.nonce) \in {c, Empty}
                  /\ r.body \in CallbackBodies

\* The handler's clock was within the drift when it verified.
InDrift(s) == s.now \in Int /\ s.now \in (s.at - MaxDrift)..(s.at + MaxDrift)

Passed(s) == /\ InDrift(s) /\ VerifyError(s.request, s.now) = "nil"
             /\ s.request.body # Unreadable /\ s.rest = s.request.body

\* What the handler concluded after a parser had seen the body.
Concluded(s) == /\ s.err \in {"nil", "SyntaxError", "ErrInvalidCallbackPayload"}
                /\ s.err = "SyntaxError" => s.request.body = NotJSON
                /\ s.result \in Kinds => s.request.body.event = s.result /\ HasId(s.request.body, s.result)

\* Where the request came from, and when.
Traced(s) ==
    /\ IsHandling(s)
    /\ s.of \in Callbacks /\ s.at \in 0..MaxTime /\ s.rest \in CallbackBodies
    /\ fired[s.of] \in 0..MaxTime /\ fired[s.of] <= s.at /\ s.at <= clock
    /\ CameFrom(s.request, s.of)

\* What the handler knows at each stage.
AtStage(s) ==
    /\ s.result \in Kinds \cup {"none", "other"}
    /\ \/ s.pc = "arrived" /\ s.err = "nil" /\ s.result = "none"
       \/ /\ s.pc = "read" /\ s.err = "nil" /\ s.result = "none"
          /\ s.request.body # Unreadable /\ s.rest = s.request.body
       \/ s.pc = "verified" /\ s.err = "nil" /\ s.result = "none" /\ Passed(s)
       \/ s.pc = "done" /\ s.err = "ReadError" /\ s.result = "none"
       \/ /\ s.pc = "done" /\ s.err \in VerifyErrors /\ s.result = "none"
          /\ InDrift(s) /\ s.err = VerifyError(s.request, s.now)
       \/ s.pc = "done" /\ Passed(s) /\ Concluded(s)

HandlingTrue(s) == Traced(s) /\ AtStage(s)

\* Nothing is fired in the future.
FiredBefore == \A c \in Callbacks : fired[c] # NotFired => fired[c] \in 0..MaxTime /\ fired[c] <= clock

IInv == /\ config \in Configs /\ clock \in 0..MaxTime
        /\ fired \in [Callbacks -> 0..MaxTime \cup {NotFired}] /\ FiredBefore
        /\ handler = [h \in Handlers |-> handler[h]]
        /\ \A h \in Handlers : handler[h] = IdleHandler \/ HandlingTrue(handler[h])

-----------------------------------------------------------------------------
(* Requests.                                                               *)

LEMMA MessageIs ==
    ASSUME NEW a, NEW b, NEW c, NEW d
    PROVE  Message(<<a>>, <<b>>, <<c>>, <<d>>) = <<a, Sep, b, Sep, c, Sep, d>>
<1> DEFINE S == {a, b, c, d, Sep}
<1>1. <<a>> \in Seq(S) /\ <<b>> \in Seq(S) /\ <<c>> \in Seq(S) /\ <<d>> \in Seq(S) /\ <<Sep>> \in Seq(S)
  OBVIOUS
<1> DEFINE m == Message(<<a>>, <<b>>, <<c>>, <<d>>)
<1>2. m \in Seq(S) /\ Len(m) = 7
  BY <1>1 DEF Message
<1>3. m[1] = a /\ m[2] = Sep /\ m[3] = b /\ m[4] = Sep /\ m[5] = c /\ m[6] = Sep /\ m[7] = d
  BY <1>1 DEF Message
<1> HIDE DEF m, S
<1>4. m = <<m[1], m[2], m[3], m[4], m[5], m[6], m[7]>>
  BY <1>2
<1> QED BY <1>3, <1>4 DEF m

LEMMA SignatureFields ==
    ASSUME NEW secret, NEW message
    PROVE  Signature(secret, message).secret = secret /\ Signature(secret, message).message = message
BY DEF Signature

LEMMA Trimmed ==
    ASSUME NEW text
    PROVE  TrimSpace(String(text)) = text /\ TrimSpace(Padded(String(text))) = text
BY DEF TrimSpace, String, Padded

LEMMA GenuineFields ==
    ASSUME NEW c
    PROVE  LET g == Genuine(c)
           IN  /\ TrimSpace(g.apiKey) = IbsKey /\ TrimSpace(g.signature) = SignatureOf(c, fired[c])
               /\ TrimSpace(g.timestamp) = fired[c] /\ TrimSpace(g.nonce) = c /\ g.body = PayloadOf[c]
               /\ DOMAIN g = Headers \cup {"body"}
BY Trimmed DEF Genuine, Headers

LEMMA DeliveredCameFrom ==
    ASSUME NEW c \in Callbacks, NEW r \in {Genuine(c)} \cup Damaged(c)
    PROVE  CameFrom(r, c)
<1> DEFINE g == Genuine(c)
<1>1. PayloadOf \in [Callbacks -> Payloads \cup {NotJSON}]
  BY CallbackAssumption DEF CallbackAssumption
<1>2. /\ TrimSpace(g.signature) = SignatureOf(c, fired[c]) /\ TrimSpace(g.nonce) = c
      /\ g.body \in CallbackBodies /\ DOMAIN g = Headers \cup {"body"}
  BY <1>1, GenuineFields DEF CallbackBodies
<1>3. ASSUME NEW s, NEW n, s \in {g.signature, Padded(g.signature), String(Empty)},
             n \in {g.nonce, Padded(g.nonce), String(Empty)}, r.signature = s, r.nonce = n, r.body \in CallbackBodies
      PROVE  CameFrom(r, c)
  <2>1. TrimSpace(s) \in {SignatureOf(c, fired[c]), Empty}
    BY <1>2, <1>3, Trimmed DEF TrimSpace, Padded
  <2>2. TrimSpace(n) \in {c, Empty}
    BY <1>2, <1>3, Trimmed DEF TrimSpace, Padded
  <2> QED BY <1>3, <2>1, <2>2 DEF CameFrom
<1> HIDE DEF g
<1>4. CASE r = g
  BY <1>2, <1>3, <1>4
<1>5. CASE r = [f \in DOMAIN g |-> IF f \in Headers THEN Padded(g[f]) ELSE g[f]]
  <2>1. r.signature = Padded(g.signature) /\ r.nonce = Padded(g.nonce) /\ r.body = g.body
    BY <1>2, <1>5 DEF Headers
  <2> QED BY <1>2, <1>3, <2>1
<1>6. ASSUME NEW f \in Headers, NEW t, r = [g EXCEPT ![f] = t], f = "timestamp" \/ t = String(Empty)
      PROVE  CameFrom(r, c)
  <2>1. /\ r.signature = IF f = "signature" THEN t ELSE g.signature
        /\ r.nonce = IF f = "nonce" THEN t ELSE g.nonce
        /\ r.body = g.body
    BY <1>2, <1>6 DEF Headers
  <2>2. r.signature \in {g.signature, Padded(g.signature), String(Empty)}
    BY <1>6, <2>1
  <2>3. r.nonce \in {g.nonce, Padded(g.nonce), String(Empty)}
    BY <1>6, <2>1
  <2> QED BY <1>2, <1>3, <2>1, <2>2, <2>3
<1>7. ASSUME NEW b \in CallbackBodies, r = [g EXCEPT !.body = b] PROVE CameFrom(r, c)
  <2>1. r.signature = g.signature /\ r.nonce = g.nonce /\ r.body = b
    BY <1>2, <1>7 DEF Headers
  <2> QED BY <1>3, <1>7, <2>1
<1>8. \A d \in Callbacks : PayloadOf[d] \in CallbackBodies
  BY <1>1 DEF CallbackBodies
<1>9. \/ r = g \/ r = [f \in DOMAIN g |-> IF f \in Headers THEN Padded(g[f]) ELSE g[f]]
      \/ \E f \in Headers : r = [g EXCEPT ![f] = String(Empty)]
      \/ \E t : r = [g EXCEPT !["timestamp"] = t]
      \/ \E b \in CallbackBodies : r = [g EXCEPT !.body = b]
  BY <1>8 DEF Damaged, g, CallbackBodies
<1>10. "timestamp" \in Headers
  BY DEF Headers
<1> QED BY <1>4, <1>5, <1>6, <1>7, <1>9, <1>10

-----------------------------------------------------------------------------
(* What VerifyCallbackSignature concludes.                                 *)

LEMMA ErrorsNamed ==
    ASSUME NEW r, NEW now
    PROVE  VerifyError(r, now) \in VerifyErrors \cup {"nil"}
BY DEF VerifyError, VerifyErrors

\* All its checks passed.
LEMMA NilMeans ==
    ASSUME NEW r, NEW now, VerifyError(r, now) = "nil"
    PROVE  /\ ~HeadersMissing(r) /\ ~NotConfigured
           /\ TrimSpace(r.apiKey) = TrimSpace(config.apiKey)
           /\ TrimSpace(r.timestamp) \in Int /\ ~Stale(TrimSpace(r.timestamp), now)
           /\ TrimSpace(r.signature) = ExpectedSignature(r)
BY DEF VerifyError

LEMMA PassedIsGenuine ==
    ASSUME NEW c \in Callbacks, NEW r, NEW now \in Int, CameFrom(r, c), VerifyError(r, now) = "nil"
    PROVE  /\ r.body = PayloadOf[c] /\ TrimSpace(r.timestamp) = fired[c] /\ TrimSpace(r.nonce) = c
           /\ TrimSpace(config.apiKey) = IbsKey /\ TrimSpace(config.secretKey) = IbsSecret
           /\ fired[c] >= now - MaxSkew
<1>1. TrimSpace(r.signature) # Empty /\ TrimSpace(r.nonce) # Empty
  BY NilMeans DEF HeadersMissing, Headers
<1>2. TrimSpace(r.nonce) = c /\ TrimSpace(r.signature) = SignatureOf(c, fired[c])
  BY <1>1 DEF CameFrom
<1>3. ExpectedSignature(r) = SignatureOf(c, fired[c])
  BY <1>2, NilMeans
<1> PICK b, k, u, n : b = r.body /\ k = TrimSpace(config.apiKey) /\ u = TrimSpace(r.timestamp) /\ n = TrimSpace(r.nonce)
  OBVIOUS
<1>4. Signature(TrimSpace(config.secretKey), Message(<<b>>, <<k>>, <<u>>, <<n>>))
         = Signature(IbsSecret, Message(<<PayloadOf[c]>>, <<IbsKey>>, <<fired[c]>>, <<c>>))
  BY <1>3 DEF ExpectedSignature, SignatureOf
<1>5. /\ TrimSpace(config.secretKey) = IbsSecret
      /\ Message(<<b>>, <<k>>, <<u>>, <<n>>) = Message(<<PayloadOf[c]>>, <<IbsKey>>, <<fired[c]>>, <<c>>)
  BY <1>4, SignatureFields
<1>6. b = PayloadOf[c] /\ k = IbsKey /\ u = fired[c]
  BY <1>5, MessageIs
<1>7. TrimSpace(r.timestamp) \in Int /\ ~Stale(TrimSpace(r.timestamp), now)
  BY NilMeans
<1>8. MaxSkew \in Nat
  BY CallbackAssumption DEF CallbackAssumption
<1>9. fired[c] >= now - MaxSkew
  BY <1>6, <1>7, <1>8 DEF Stale
<1> QED BY <1>2, <1>5, <1>6, <1>9


-----------------------------------------------------------------------------
(* Steps of a handler.                                                     *)

\* Neither the time of IBS nor another callback fired disturbs a handler.
LEMMA StillTrue ==
    ASSUME NEW s, HandlingTrue(s), config' = config, fired'[s.of] = fired[s.of],
           clock' \in Int, clock \in Int, clock <= clock'
    PROVE  HandlingTrue(s)'
<1> DEFINE c == s.of
<1>1. SignatureOf(s.of, fired[s.of])' = SignatureOf(s.of, fired[s.of])
  BY DEF SignatureOf
<1>2. CameFrom(s.request, s.of)' = CameFrom(s.request, s.of)
  BY <1>1 DEF CameFrom
<1>3. VerifyError(s.request, s.now)' = VerifyError(s.request, s.now)
  BY DEF VerifyError, NotConfigured, ExpectedSignature, HeadersMissing
<1>4. Passed(s)' = Passed(s)
  BY <1>3 DEF Passed, InDrift
<1>5. s.at \in Int /\ s.at <= clock'
  BY CallbackAssumption DEF HandlingTrue, Traced, AtStage, CallbackAssumption
<1> QED BY <1>2, <1>3, <1>4, <1>5 DEF HandlingTrue, Traced, AtStage, IsHandling, InDrift, Concluded

LEMMA DeliverTrue ==
    ASSUME IInv, NEW h \in Handlers, NEW c \in Callbacks, Deliver(h, c)
    PROVE  \E t : handler' = [handler EXCEPT ![h] = t] /\ HandlingTrue(t)
<1>1. PICK r \in {Genuine(c)} \cup Damaged(c) :
         handler' = [handler EXCEPT ![h] =
                        [pc |-> "arrived", of |-> c, request |-> r, rest |-> r.body, now |-> 0,
                         at |-> clock, err |-> "nil", result |-> "none"]]
  BY DEF Deliver
<1> DEFINE t == [pc |-> "arrived", of |-> c, request |-> r, rest |-> r.body, now |-> 0,
                 at |-> clock, err |-> "nil", result |-> "none"]
<1>2. CameFrom(r, c)
  BY DeliveredCameFrom
<1>3. fired[c] \in 0..MaxTime /\ fired[c] <= clock
  BY DEF Deliver, IInv, FiredBefore
<1>4. /\ IsHandling(t) /\ t.pc = "arrived" /\ t.of = c /\ t.request = r /\ t.rest = r.body
      /\ t.at = clock /\ t.err = "nil" /\ t.result = "none"
  BY DEF IsHandling
<1> HIDE DEF t
<1>5. HandlingTrue(t)
  BY <1>2, <1>3, <1>4, CallbackAssumption DEF HandlingTrue, Traced, AtStage, IInv, CameFrom, CallbackAssumption
<1> QED BY <1>1, <1>5 DEF t

LEMMA ReadTrue ==
    ASSUME NEW h \in Handlers, HandlingTrue(handler[h]), ReadBody(h)
    PROVE  \E t : handler' = [handler EXCEPT ![h] = t] /\ HandlingTrue(t)
<1> PICK s : s = handler[h]
  OBVIOUS
<1>1. s.pc = "arrived" /\ IsHandling(s) /\ s.err = "nil" /\ s.result = "none"
  BY DEF ReadBody, HandlingTrue, Traced, AtStage
<1>2. CASE s.request.body = Unreadable
  <2> PICK t : t = [s EXCEPT !.pc = "done", !.err = "ReadError"]
    OBVIOUS
  <2>1. handler' = [handler EXCEPT ![h] = t]
    BY <1>2 DEF ReadBody, Do
  <2>2. /\ IsHandling(t) /\ t.pc = "done" /\ t.err = "ReadError" /\ t.of = s.of /\ t.request = s.request
        /\ t.rest = s.rest /\ t.at = s.at /\ t.result = "none"
    BY <1>1 DEF IsHandling
  <2>3. HandlingTrue(t)
    BY <2>2 DEF HandlingTrue, Traced, AtStage
  <2> QED BY <2>1, <2>3
<1>3. CASE s.request.body # Unreadable
  <2> PICK t : t = [s EXCEPT !.pc = "read", !.rest = s.request.body]
    OBVIOUS
  <2>1. handler' = [handler EXCEPT ![h] = t]
    BY <1>3 DEF ReadBody, Restored
  <2>2. /\ IsHandling(t) /\ t.pc = "read" /\ t.err = s.err /\ t.of = s.of /\ t.request = s.request
        /\ t.rest = s.request.body /\ t.at = s.at /\ t.result = s.result
    BY <1>1 DEF IsHandling
  <2>3. HandlingTrue(t)
    BY <1>1, <1>3, <2>2 DEF HandlingTrue, Traced, AtStage, CameFrom
  <2> QED BY <2>1, <2>3
<1> QED BY <1>2, <1>3

LEMMA VerifyTrue ==
    ASSUME IInv, NEW h \in Handlers, HandlingTrue(handler[h]), Verify(h)
    PROVE  \E t : handler' = [handler EXCEPT ![h] = t] /\ HandlingTrue(t)
<1> PICK s : s = handler[h]
  OBVIOUS
<1>1. s.pc = "read" /\ IsHandling(s) /\ s.err = "nil" /\ s.result = "none"
      /\ s.request.body # Unreadable /\ s.rest = s.request.body
  BY DEF Verify, HandlingTrue, Traced, AtStage
<1>2. PICK now \in (clock - MaxDrift)..(clock + MaxDrift) :
         handler' = [handler EXCEPT ![h] =
                        [@ EXCEPT !.pc = IF VerifyError(s.request, now) = "nil" THEN "verified" ELSE "done",
                                  !.err = VerifyError(s.request, now), !.now = now, !.at = clock]]
  BY DEF Verify
<1> DEFINE err == VerifyError(s.request, now)
           pc  == IF err = "nil" THEN "verified" ELSE "done"
<1> PICK t : t = [s EXCEPT !.pc = pc, !.err = err, !.now = now, !.at = clock]
  OBVIOUS
<1>3. handler' = [handler EXCEPT ![h] = t]
  BY <1>2
<1>4. /\ IsHandling(t) /\ t.pc = pc /\ t.err = err /\ t.of = s.of /\ t.request = s.request
      /\ t.rest = s.rest /\ t.now = now /\ t.at = clock /\ t.result = s.result
  BY <1>1 DEF IsHandling
<1>5. err \in VerifyErrors \cup {"nil"}
  BY ErrorsNamed
<1>6. now \in Int /\ s.at \in Int /\ clock \in 0..MaxTime /\ fired[s.of] <= clock
  BY CallbackAssumption DEF IInv, HandlingTrue, Traced, CallbackAssumption
<1>7. InDrift(t)
  BY <1>2, <1>4, <1>6 DEF InDrift
<1>8. Traced(t)
  BY <1>4, <1>6, CallbackAssumption DEF HandlingTrue, Traced, CallbackAssumption
<1>9. CASE err = "nil"
  <2>1. t.pc = "verified" /\ t.err = "nil" /\ t.result = "none" /\ Passed(t)
    BY <1>1, <1>4, <1>7, <1>9 DEF Passed
  <2> QED BY <1>3, <1>8, <2>1 DEF HandlingTrue, AtStage
<1>10. CASE err # "nil"
  <2>1. t.pc = "done" /\ t.err \in VerifyErrors /\ t.result = "none" /\ t.err = VerifyError(t.request, t.now)
    BY <1>1, <1>4, <1>5, <1>10
  <2> QED BY <1>3, <1>7, <1>8, <2>1 DEF HandlingTrue, AtStage
<1> QED BY <1>9, <1>10

\* What the parsers conclude is true of the body they saw.
LEMMA Concludes ==
    ASSUME NEW body \in CallbackBodies, body # Unreadable, NEW err, NEW result,
           \/ err = EventError(body) /\ err # "nil" /\ result = "none"
           \/ err = "nil" /\ EventError(body) = "nil" /\ result = body.event /\ result \notin Kinds
           \/ \E kind \in Kinds : err = ParseError(body, kind) /\ result = IF err = "nil" THEN kind ELSE "none"
    PROVE  /\ err \in {"nil", "SyntaxError", "ErrInvalidCallbackPayload"}
           /\ err = "SyntaxError" => body = NotJSON
           /\ result \in Kinds => body.event = result /\ HasId(body, result)
           /\ result \in Kinds \cup {"none", "other"}
<1>1. body = NotJSON \/ body \in Payloads
  BY DEF CallbackBodies
<1>2. CASE err = EventError(body) /\ err # "nil" /\ result = "none"
  BY <1>2 DEF EventError, Kinds
<1>3. CASE err = "nil" /\ EventError(body) = "nil" /\ result = body.event /\ result \notin Kinds
  BY <1>1, <1>3 DEF EventError, Payloads
<1>4. ASSUME NEW kind \in Kinds, err = ParseError(body, kind), result = IF err = "nil" THEN kind ELSE "none"
      PROVE  /\ err \in {"nil", "SyntaxError", "ErrInvalidCallbackPayload"}
             /\ err = "SyntaxError" => body = NotJSON
             /\ result \in Kinds => body.event = result /\ HasId(body, result)
             /\ result \in Kinds \cup {"none", "other"}
  <2>1. "none" \notin Kinds
    BY DEF Kinds
  <2>2. CASE body = NotJSON
    BY <1>4, <2>1, <2>2 DEF ParseError
  <2>3. CASE body # NotJSON /\ (body.event # kind \/ ~HasId(body, kind))
    BY <1>4, <2>1, <2>3 DEF ParseError
  <2>4. CASE body # NotJSON /\ ~(body.event # kind \/ ~HasId(body, kind))
    BY <1>4, <2>1, <2>4 DEF ParseError
  <2> QED BY <2>2, <2>3, <2>4
<1> QED BY <1>2, <1>3, <1>4

LEMMA ParseTrue ==
    ASSUME NEW h \in Handlers, HandlingTrue(handler[h]), Route(h) \/ \E kind \in Kinds : ParseAs(h, kind)
    PROVE  \E t : handler' = [handler EXCEPT ![h] = t] /\ HandlingTrue(t)
<1> PICK s : s = handler[h]
  OBVIOUS
<1>1. s.pc = "verified" /\ Traced(s) /\ Passed(s)
  BY DEF Route, ParseAs, HandlingTrue, AtStage
<1> DEFINE body == s.request.body
<1>2. Available(h) = {body} /\ body \in CallbackBodies /\ body # Unreadable
  BY <1>1 DEF Available, Passed, Traced, CameFrom
<1>3. PICK err, result :
         /\ Finish(h, err, result)
         /\ \/ err = EventError(body) /\ err # "nil" /\ result = "none"
            \/ err = "nil" /\ EventError(body) = "nil" /\ result = body.event /\ result \notin Kinds
            \/ \E kind \in Kinds : err = ParseError(body, kind) /\ result = IF err = "nil" THEN kind ELSE "none"
  <2>1. CASE Route(h)
    <3>1. CASE EventError(body) # "nil"
      BY <1>2, <2>1, <3>1 DEF Route
    <3>2. CASE EventError(body) = "nil" /\ body.event \notin Kinds
      BY <1>2, <2>1, <3>2 DEF Route
    <3>3. CASE EventError(body) = "nil" /\ body.event \in Kinds
      BY <1>2, <2>1, <3>3 DEF Route
    <3> QED BY <3>1, <3>2, <3>3
  <2>2. CASE \E kind \in Kinds : ParseAs(h, kind)
    BY <1>2, <2>2 DEF ParseAs
  <2> QED BY <2>1, <2>2
<1>4. /\ err \in {"nil", "SyntaxError", "ErrInvalidCallbackPayload"}
      /\ err = "SyntaxError" => body = NotJSON
      /\ result \in Kinds => body.event = result /\ HasId(body, result)
      /\ result \in Kinds \cup {"none", "other"}
  BY <1>2, <1>3, Concludes
<1> HIDE DEF body
<1> PICK t : t = [s EXCEPT !.pc = "done", !.err = err, !.result = result]
  OBVIOUS
<1>5. handler' = [handler EXCEPT ![h] = t]
  BY <1>3 DEF Finish
<1>6. /\ IsHandling(t) /\ t.pc = "done" /\ t.err = err /\ t.of = s.of /\ t.request = s.request
      /\ t.rest = s.rest /\ t.now = s.now /\ t.at = s.at /\ t.result = result
  BY <1>1 DEF IsHandling, Traced
<1>7. Traced(t)
  BY <1>1, <1>6 DEF Traced
<1>8. Passed(t)
  BY <1>1, <1>6 DEF Passed, InDrift
<1>9. AtStage(t)
  BY <1>4, <1>6, <1>8 DEF AtStage, Concluded, body
<1> QED BY <1>5, <1>7, <1>9 DEF HandlingTrue

-----------------------------------------------------------------------------
(* The invariant.                                                          *)

\* A step of handler h leaves the other handlers alone.
LEMMA OneHandler ==
    ASSUME IInv, UNCHANGED <<config, clock, fired>>, NEW h \in Handlers, NEW t,
           handler' = [handler EXCEPT ![h] = t], t = IdleHandler \/ HandlingTrue(t)
    PROVE  IInv'
<1>1. ASSUME NEW s, HandlingTrue(s) PROVE HandlingTrue(s)'
  BY <1>1, StillTrue DEF IInv
<1>2. handler' = [g \in Handlers |-> IF g = h THEN t ELSE handler[g]]
  BY DEF IInv
<1>3. ASSUME NEW g \in Handlers PROVE (handler[g] = IdleHandler \/ HandlingTrue(handler[g]))'
  <2>1. CASE g = h
    BY <1>1, <1>2, <2>1
  <2>2. CASE g # h
    BY <1>1, <1>2, <2>2 DEF IInv
  <2> QED BY <2>1, <2>2
<1>4. handler' = [g \in Handlers |-> handler'[g]]
  BY <1>2
<1>5. FiredBefore'
  BY DEF IInv, FiredBefore
<1> QED BY <1>3, <1>4, <1>5 DEF IInv

LEMMA TickInv == ASSUME IInv, Tick PROVE IInv'
<1>1. clock' \in 0..MaxTime /\ clock \in Int /\ clock' \in Int /\ clock <= clock'
  BY CallbackAssumption DEF IInv, Tick, CallbackAssumption
<1>2. ASSUME NEW s, HandlingTrue(s) PROVE HandlingTrue(s)'
  BY <1>1, <1>2, StillTrue DEF Tick
<1>3. FiredBefore'
  BY <1>1, CallbackAssumption DEF IInv, Tick, FiredBefore, CallbackAssumption
<1> QED BY <1>1, <1>2, <1>3 DEF IInv, Tick

LEMMA FireInv == ASSUME IInv, NEW c \in Callbacks, Fire(c) PROVE IInv'
<1>1. ASSUME NEW s, HandlingTrue(s) PROVE HandlingTrue(s)'
  <2>1. s.of \in Callbacks /\ fired[s.of] # NotFired
    BY <1>1, CallbackAssumption DEF HandlingTrue, Traced, CallbackAssumption
  <2>2. fired'[s.of] = fired[s.of]
    BY <2>1 DEF Fire, IInv
  <2> QED BY <1>1, <2>2, StillTrue DEF Fire, IInv
<1>2. fired' \in [Callbacks -> 0..MaxTime \cup {NotFired}]
  BY DEF IInv, Fire
<1>3. FiredBefore'
  BY DEF IInv, Fire, FiredBefore
<1> QED BY <1>1, <1>2, <1>3 DEF IInv, Fire

LEMMA InitInv == Init => IInv
BY CallbackAssumption DEF Init, IInv, FiredBefore, CallbackAssumption

LEMMA StepInv == ASSUME IInv, [Next]_vars PROVE IInv'
<1>1. CASE Tick
  BY <1>1, TickInv
<1>2. ASSUME NEW c \in Callbacks, Fire(c) PROVE IInv'
  BY <1>2, FireInv
<1>3. ASSUME NEW h \in Handlers, NEW c \in Callbacks, Deliver(h, c) PROVE IInv'
  BY <1>3, DeliverTrue, OneHandler DEF Deliver
<1>4. ASSUME NEW h \in Handlers, handler[h].pc # "idle" PROVE HandlingTrue(handler[h])
  BY <1>4 DEF IInv, IdleHandler
<1>5. ASSUME NEW h \in Handlers, ReadBody(h) PROVE IInv'
  <2>1. HandlingTrue(handler[h])
    BY <1>4, <1>5 DEF ReadBody
  <2>2. PICK t : handler' = [handler EXCEPT ![h] = t] /\ HandlingTrue(t)
    BY <1>5, <2>1, ReadTrue
  <2> QED BY <1>5, <2>2, OneHandler DEF ReadBody
<1>6. ASSUME NEW h \in Handlers, Verify(h) PROVE IInv'
  <2>1. HandlingTrue(handler[h])
    BY <1>4, <1>6 DEF Verify
  <2>2. PICK t : handler' = [handler EXCEPT ![h] = t] /\ HandlingTrue(t)
    BY <1>6, <2>1, VerifyTrue
  <2> QED BY <1>6, <2>2, OneHandler DEF Verify
<1>7. ASSUME NEW h \in Handlers, Route(h) \/ \E kind \in Kinds : ParseAs(h, kind) PROVE IInv'
  <2>1. HandlingTrue(handler[h])
    BY <1>4, <1>7 DEF Route, ParseAs
  <2>2. PICK t : handler' = [handler EXCEPT ![h] = t] /\ HandlingTrue(t)
    BY <1>7, <2>1, ParseTrue
  <2> QED BY <1>7, <2>2, OneHandler DEF Route, ParseAs
<1>8. ASSUME NEW h \in Handlers, Respond(h) PROVE IInv'
  BY <1>8, OneHandler DEF Respond
<1>9. CASE UNCHANGED vars
  <2>1. ASSUME NEW s, HandlingTrue(s) PROVE HandlingTrue(s)'
    BY <1>9, <2>1, StillTrue DEF vars, IInv
  <2>2. FiredBefore'
    BY <1>9 DEF vars, IInv, FiredBefore
  <2> QED BY <1>9, <2>1, <2>2 DEF vars, IInv
<1> QED BY <1>1, <1>2, <1>3, <1>5, <1>6, <1>7, <1>8, <1>9 DEF Next

\* What holds in every state, of which the theorems below are consequences.
THEOREM Invariance == Spec => []IInv
BY InitInv, StepInv, PTL DEF Spec

-----------------------------------------------------------------------------
(* What follows.                                                           *)

LEMMA InvTyped == IInv => TypeOK
<1> SUFFICES ASSUME IInv PROVE TypeOK
  OBVIOUS
<1>1. ASSUME NEW h \in Handlers, Busy(h)
      PROVE  /\ handler[h].pc \in {"arrived", "read", "verified", "done"}
             /\ handler[h].of \in Callbacks /\ handler[h].at \in 0..MaxTime
             /\ handler[h].request.body \in CallbackBodies /\ handler[h].rest \in CallbackBodies
             /\ handler[h].err \in VerifyErrors \cup {"nil", "ReadError", "SyntaxError", "ErrInvalidCallbackPayload"}
             /\ handler[h].result \in Kinds \cup {"none", "other"}
  <2>1. HandlingTrue(handler[h])
    BY <1>1 DEF IInv, Busy, IdleHandler
  <2> QED BY <2>1 DEF HandlingTrue, Traced, AtStage, CameFrom, Concluded
<1> QED BY <1>1 DEF TypeOK, IInv

LEMMA InvAccepts == IInv => OnlyGenuineAccepted /\ NoLateAcceptance
<1> SUFFICES ASSUME IInv, NEW h \in Handlers, handler[h].pc = "verified"
             PROVE  LET r == handler[h].request
                        c == handler[h].of
                    IN  /\ r.body = PayloadOf[c] /\ TrimSpace(r.timestamp) = fired[c] /\ TrimSpace(r.nonce) = c
                        /\ TrimSpace(config.apiKey) = IbsKey /\ TrimSpace(config.secretKey) = IbsSecret
                        /\ handler[h].at <= fired[c] + MaxSkew + MaxDrift
  BY DEF OnlyGenuineAccepted, NoLateAcceptance
<1> PICK s : s = handler[h]
  OBVIOUS
<1>1. s.pc = "verified" /\ HandlingTrue(s)
  BY DEF IInv, IdleHandler
<1>2. Traced(s) /\ Passed(s)
  BY <1>1 DEF HandlingTrue, AtStage
<1>3. /\ CameFrom(s.request, s.of) /\ s.of \in Callbacks /\ s.now \in Int
      /\ VerifyError(s.request, s.now) = "nil"
  BY <1>2 DEF Traced, Passed, InDrift
<1>4. /\ s.request.body = PayloadOf[s.of] /\ TrimSpace(s.request.timestamp) = fired[s.of]
      /\ TrimSpace(s.request.nonce) = s.of
      /\ TrimSpace(config.apiKey) = IbsKey /\ TrimSpace(config.secretKey) = IbsSecret
      /\ fired[s.of] >= s.now - MaxSkew
  BY <1>3, PassedIsGenuine
<1>5. /\ s.at \in Int /\ s.now \in (s.at - MaxDrift)..(s.at + MaxDrift) /\ fired[s.of] \in Int
      /\ MaxSkew \in Int /\ MaxDrift \in Int
  BY <1>2, CallbackAssumption DEF Traced, Passed, InDrift, CallbackAssumption
<1>6. s.at <= fired[s.of] + MaxSkew + MaxDrift
  BY <1>4, <1>5
<1> QED BY <1>4, <1>6

LEMMA InvRouted == IInv => RoutedByEvent
<1> SUFFICES ASSUME IInv, NEW h \in Handlers, Busy(h), handler[h].result \in Kinds
             PROVE  /\ PayloadOf[handler[h].of].event = handler[h].result
                    /\ HasId(PayloadOf[handler[h].of], handler[h].result)
  BY DEF RoutedByEvent
<1> PICK s : s = handler[h]
  OBVIOUS
<1>1. HandlingTrue(s)
  BY DEF IInv, Busy, IdleHandler
<1>2. Traced(s) /\ Passed(s) /\ Concluded(s)
  BY <1>1 DEF HandlingTrue, AtStage, Kinds
<1>3. /\ CameFrom(s.request, s.of) /\ s.of \in Callbacks /\ s.now \in Int
      /\ VerifyError(s.request, s.now) = "nil"
  BY <1>2 DEF Traced, Passed, InDrift
<1>4. s.request.body = PayloadOf[s.of]
  BY <1>3, PassedIsGenuine
<1>5. s.request.body.event = s.result /\ HasId(s.request.body, s.result)
  BY <1>2 DEF Concluded
<1> QED BY <1>4, <1>5

\* An intact callback is refused only when it is late.
LEMMA IntactPasses ==
    ASSUME NEW c \in Callbacks, NEW r, NEW now \in Int, Undamaged(r, c),
           TrimSpace(config.apiKey) = IbsKey, TrimSpace(config.secretKey) = IbsSecret,
           NonceLength[c] <= MaxNonceLength, fired[c] \in 0..MaxTime,
           now - MaxSkew <= fired[c], fired[c] <= now + MaxSkew
    PROVE  VerifyError(r, now) = "nil"
<1>1. /\ TrimSpace(r.apiKey) = IbsKey /\ TrimSpace(r.signature) = SignatureOf(c, fired[c])
      /\ TrimSpace(r.timestamp) = fired[c] /\ TrimSpace(r.nonce) = c /\ r.body = PayloadOf[c]
  BY GenuineFields DEF Undamaged, Headers
<1>2. /\ Empty \notin Int /\ Empty \notin {IbsKey, IbsSecret} \cup Callbacks
      /\ SignatureOf(c, fired[c]) # Empty /\ NonceLength[c] \in Int /\ MaxNonceLength \in Int
      /\ MaxSkew \in Int
  BY CallbackAssumption DEF CallbackAssumption
<1>3. ~HeadersMissing(r)
  BY <1>1, <1>2 DEF HeadersMissing, Headers
<1>4. ~NotConfigured
  BY <1>2 DEF NotConfigured
<1>5. ~Stale(TrimSpace(r.timestamp), now)
  BY <1>1, <1>2 DEF Stale
<1>6. ExpectedSignature(r) = SignatureOf(c, fired[c])
  BY <1>1 DEF ExpectedSignature, SignatureOf
<1>7. TrimSpace(config.secretKey) # "notBase64" /\ TrimSpace(r.timestamp) \in Int
  BY <1>1 DEF IbsSecret
<1> QED BY <1>1, <1>3, <1>4, <1>5, <1>6, <1>7 DEF VerifyError

LEMMA InvPunctual == IInv => PunctualIsHandled
<1> SUFFICES ASSUME IInv, NEW h \in Handlers, handler[h].pc = "done",
                    Undamaged(handler[h].request, handler[h].of),
                    TrimSpace(config.apiKey) = IbsKey, TrimSpace(config.secretKey) = IbsSecret,
                    NonceLength[handler[h].of] <= MaxNonceLength,
                    handler[h].at <= fired[handler[h].of] + MaxSkew - MaxDrift
             PROVE  /\ handler[h].err \notin VerifyErrors
                    /\ handler[h].err = "SyntaxError" => PayloadOf[handler[h].of] = NotJSON
  BY DEF PunctualIsHandled
<1> PICK s : s = handler[h]
  OBVIOUS
<1>1. s.pc = "done" /\ Traced(s) /\ AtStage(s)
  BY DEF IInv, IdleHandler, HandlingTrue
<1>2. s.err = "SyntaxError" => s.request.body = NotJSON
  BY <1>1 DEF AtStage, Concluded, VerifyErrors
<1>3. s.request.body = PayloadOf[s.of]
  BY DEF Undamaged
<1>4. ASSUME s.err \in VerifyErrors PROVE FALSE
  <2>1. InDrift(s) /\ s.err = VerifyError(s.request, s.now)
    BY <1>1, <1>4 DEF AtStage, Concluded, VerifyErrors
  <2>2. /\ s.of \in Callbacks /\ s.now \in Int /\ s.now \in (s.at - MaxDrift)..(s.at + MaxDrift)
        /\ s.at \in Int /\ fired[s.of] \in 0..MaxTime /\ fired[s.of] <= s.at
        /\ MaxSkew \in Int /\ MaxDrift \in Int /\ MaxTime \in Int
    BY <1>1, <2>1, CallbackAssumption DEF Traced, InDrift, CallbackAssumption
  <2>3. s.now - MaxSkew <= fired[s.of] /\ fired[s.of] <= s.now + MaxSkew
    BY <2>2
  <2>4. VerifyError(s.request, s.now) = "nil"
    BY <2>2, <2>3, IntactPasses
  <2> QED BY <1>4, <2>1, <2>4 DEF VerifyErrors
<1> QED BY <1>2, <1>3, <1>4

\* The state is well typed.
THEOREM CallbacksTyped == Spec => []TypeOK
BY Invariance, InvTyped, PTL

\* What VerifyCallbackRequest lets pass was fired by IBS, with this body, time
\* and nonce (callback_verify.go:71-111).
THEOREM AcceptedIsGenuine == Spec => []OnlyGenuineAccepted
BY Invariance, InvAccepts, PTL

\* Nothing passes once the window is over (callback_verify.go:95-98).
THEOREM WindowCloses == Spec => []NoLateAcceptance
BY Invariance, InvAccepts, PTL

\* An intact callback inside the window is never refused, and its body reaches
\* the parsers (callback_verify.go:72-111, 141-146).
THEOREM PunctualGetsThrough == Spec => []PunctualIsHandled
BY Invariance, InvPunctual, PTL

\* A reversal that the service handles was fired as that reversal
\* (callback_verify.go:162-204).
THEOREM RoutingIsRight == Spec => []RoutedByEvent
BY Invariance, InvRouted, PTL

-----------------------------------------------------------------------------
\* The message under a signature.

\* A sequence splits in one way at its last separator.
LEMMA SplitAtLast ==
    ASSUME NEW S, NEW a \in Seq(S), NEW b \in Seq(S), Sep \in S,
           NEW x \in Seq(S \ {Sep}), NEW y \in Seq(S \ {Sep}),
           a \o <<Sep>> \o x = b \o <<Sep>> \o y
    PROVE  a = b /\ x = y
<1> DEFINE l == a \o <<Sep>> \o x
           r == b \o <<Sep>> \o y
<1>1. /\ x \in Seq(S) /\ y \in Seq(S)
      /\ \A i \in 1..Len(x) : x[i] # Sep
      /\ \A i \in 1..Len(y) : y[i] # Sep
  OBVIOUS
<1>2. /\ Len(l) = Len(a) + 1 + Len(x)
      /\ Len(r) = Len(b) + 1 + Len(y)
      /\ \A i \in 1..Len(a) : l[i] = a[i]
      /\ \A i \in 1..Len(b) : r[i] = b[i]
      /\ l[Len(a) + 1] = Sep
      /\ r[Len(b) + 1] = Sep
      /\ \A i \in 1..Len(x) : l[Len(a) + 1 + i] = x[i]
      /\ \A i \in 1..Len(y) : r[Len(b) + 1 + i] = y[i]
  BY <1>1
<1>3. l = r
  OBVIOUS
<1> HIDE DEF l, r
<1>4. Len(a) = Len(b)
  <2>1. ASSUME Len(a) < Len(b) PROVE FALSE
    <3>1. Len(b) - Len(a) \in 1..Len(x) /\ Len(a) + 1 + (Len(b) - Len(a)) = Len(b) + 1
      BY <1>1, <1>2, <1>3, <2>1
    <3>2. l[Len(b) + 1] = x[Len(b) - Len(a)]
      BY <1>2, <3>1
    <3> QED BY <1>1, <1>2, <1>3, <3>1, <3>2
  <2>2. ASSUME Len(b) < Len(a) PROVE FALSE
    <3>1. Len(a) - Len(b) \in 1..Len(y) /\ Len(b) + 1 + (Len(a) - Len(b)) = Len(a) + 1
      BY <1>1, <1>2, <1>3, <2>2
    <3>2. r[Len(a) + 1] = y[Len(a) - Len(b)]
      BY <1>2, <3>1
    <3> QED BY <1>1, <1>2, <1>3, <3>1, <3>2
  <2> QED BY <2>1, <2>2
<1>5. Len(x) = Len(y)
  BY <1>1, <1>2, <1>3, <1>4
<1>6. a = b
  <2>1. \A i \in 1..Len(a) : a[i] = b[i]
    BY <1>2, <1>3, <1>4
  <2> QED BY <2>1, <1>4
<1>7. x = y
  <2>1. \A i \in 1..Len(x) : x[i] = y[i]
    BY <1>2, <1>3, <1>4, <1>5
  <2> QED BY <1>1, <2>1, <1>5
<1> QED BY <1>6, <1>7

\* Two signed messages are equal only if all four fields are: the boundary
\* between them is unambiguous (client.go:174-176), for any bodies, as long as no
\* API key, timestamp or nonce holds the separator.  Timestamps are decimal and
\* nonces of the SDK hexadecimal.
THEOREM FieldsAreUnambiguous ==
    ASSUME NEW S, Sep \in S,
           NEW body1 \in Seq(S), NEW body2 \in Seq(S),
           NEW apiKey1 \in Seq(S \ {Sep}), NEW apiKey2 \in Seq(S \ {Sep}),
           NEW timestamp1 \in Seq(S \ {Sep}), NEW timestamp2 \in Seq(S \ {Sep}),
           NEW nonce1 \in Seq(S \ {Sep}), NEW nonce2 \in Seq(S \ {Sep}),
           Message(body1, apiKey1, timestamp1, nonce1) = Message(body2, apiKey2, timestamp2, nonce2)
    PROVE  body1 = body2 /\ apiKey1 = apiKey2 /\ timestamp1 = timestamp2 /\ nonce1 = nonce2
<1> DEFINE a1 == body1 \o <<Sep>> \o apiKey1
           a2 == body2 \o <<Sep>> \o apiKey2
           b1 == a1 \o <<Sep>> \o timestamp1
           b2 == a2 \o <<Sep>> \o timestamp2
<1>0. \A a, b \in Seq(S), x, y \in Seq(S \ {Sep}) :
         a \o <<Sep>> \o x = b \o <<Sep>> \o y => a = b /\ x = y
  BY SplitAtLast, Zenon
<1>1. /\ apiKey1 \in Seq(S) /\ apiKey2 \in Seq(S)
      /\ timestamp1 \in Seq(S) /\ timestamp2 \in Seq(S)
  OBVIOUS
<1>2. a1 \in Seq(S) /\ a2 \in Seq(S)
  BY <1>1
<1> HIDE DEF a1, a2
<1>3. b1 \in Seq(S) /\ b2 \in Seq(S)
  BY <1>1, <1>2
<1>4. b1 \o <<Sep>> \o nonce1 = b2 \o <<Sep>> \o nonce2
  BY DEF Message, a1, a2
<1> HIDE DEF b1, b2
<1>5. b1 = b2 /\ nonce1 = nonce2
  <2>1. b1 \o <<Sep>> \o nonce1 = b2 \o <<Sep>> \o nonce2 => b1 = b2 /\ nonce1 = nonce2
    BY <1>0, <1>3, ZenonT(60)
  <2> QED BY <1>4, <2>1
<1>6. a1 = a2 /\ timestamp1 = timestamp2
  BY <1>0, <1>2, <1>5, Zenon DEF b1, b2
<1>7. body1 = body2 /\ apiKey1 = apiKey2
  <2>1. body1 \o <<Sep>> \o apiKey1 = body2 \o <<Sep>> \o apiKey2 => body1 = body2 /\ apiKey1 = apiKey2
    BY <1>0, ZenonT(60)
  <2> QED BY <1>6, <2>1 DEF a1, a2
<1> QED BY <1>5, <1>6, <1>7

=============================================================================
