---------------------------- MODULE CardAdminProofs ----------------------------
(***************************************************************************)
(* Proof that CardAdmin implements CallEffects, for any cards, goroutines  *)
(* and calls: what a call returned says what became of its request.  The   *)
(* inductive invariant follows a request from the call to its answer.      *)
(***************************************************************************)
EXTENDS CardAdmin, TLAPS

CallFields == {"pc", "id", "method", "arg", "due", "client", "result"}

\* What a goroutine keeps of the call it is in.
CallTrue(c) == /\ c.pc \in {"idle", "sent", "returned"}
               /\ DOMAIN c = CallFields
               /\ c.pc = "sent" => c.id \in 1..made /\ outcome[c.id] = "open"

CallsTrue == /\ \A w \in Workers : CallTrue(call[w])
             /\ \A v, w \in Workers : call[v].pc = "sent" /\ call[w].pc = "sent" /\ call[v].id = call[w].id => v = w

\* A request on its way is the only one of its call and was never carried out.
RequestTrue(m) == /\ m.id \in 1..made /\ executed[m.id] = 0 /\ outcome[m.id] \in {"open", "unclear"}
                  /\ \A n \in wire : n.id = m.id => n = m

\* An answer tells whether its request was carried out.
ReplyTrue(r) == /\ r.id \in 1..made
                /\ \A m \in wire : m.id # r.id
                /\ DOMAIN r = {"id", "code", "body", "count", "card", "rows"}
                /\ \/ r.code = 200 /\ r.body = "goodData" /\ executed[r.id] = 1
                   \/ r.code \in {400, 500} /\ r.body = "statusFalse" /\ executed[r.id] = 0

IInv == /\ made \in 0..MaxCalls
        /\ outcome \in [Calls -> Effects!Outcomes] /\ executed \in [Calls -> {0, 1}]
        /\ \A id \in Calls : id > made => outcome[id] = "none" /\ executed[id] = 0
        /\ call = [w \in Workers |-> call[w]] /\ CallsTrue
        /\ \A m \in wire : RequestTrue(m)
        /\ \A r \in replies : ReplyTrue(r)

LEMMA Bounds == MaxCalls \in Nat /\ Calls = 1..MaxCalls
BY AdminAssumption DEF AdminAssumption, Calls

-----------------------------------------------------------------------------
(* What an answer makes of the outcome.                                    *)

\* The four ways in which an answer may arrive.
LEMMA Arrived ==
    ASSUME NEW r, ReplyTrue(r), NEW got \in Arrivals(r)
    PROVE  \/ got.code = r.code /\ got.body = r.body
           \/ got.body = "unreadable"
           \/ got.code = 502 /\ got.body = "nonJSON"
           \/ got.code = r.code /\ got.body = "badData" /\ r.body = "goodData"
<1>1. "body" \in DOMAIN r /\ "code" \in DOMAIN r
  BY DEF ReplyTrue
<1>2. CASE got = r
  BY <1>2
<1>3. CASE got = [r EXCEPT !.body = "unreadable"]
  BY <1>1, <1>3
<1>4. CASE got = [r EXCEPT !.code = 502, !.body = "nonJSON"]
  BY <1>1, <1>4
<1>5. CASE got = [r EXCEPT !.body = "badData"] /\ r.body = "goodData"
  BY <1>1, <1>5
<1> QED BY <1>2, <1>3, <1>4, <1>5 DEF Arrivals

LEMMA ResultErr ==
    ASSUME NEW method, NEW got
    PROVE  LET res == ResultOf(method, got)
           IN  \/ res.err = "NoPrices" /\ res.code = 0
               \/ res.err = NoError /\ ErrorOf(method, got) = NoError
               \/ /\ res.err = ErrorOf(method, got) /\ res.err # NoError
                  /\ res.code = IF IsAPIError(res.err) THEN got.code ELSE 0
BY DEF ResultOf, NoResult, NoError

\* What CallError and requestAPIWithIdempotency make of each body.
LEMMA ErrorMeans ==
    ASSUME NEW method, NEW got, got.code \in {200, 400, 500, 502},
           got.body \in {"unreadable", "nonJSON", "statusFalse", "badData", "goodData"}
    PROVE  /\ ErrorOf(method, got) \notin Sentinels \cup {"LocalError", "NoPrices"}
           /\ ErrorOf(method, got) = NoError => got.body \in {"badData", "goodData"}
           /\ IsAPIError(ErrorOf(method, got)) => got.body \in {"nonJSON", "statusFalse"}
<1>1. RequestAPIError(got.code, got.body) =
        IF got.body = "unreadable" THEN "ReadError"
        ELSE IF got.body \in {"nonJSON", "statusFalse"} THEN "APIError" ELSE "nil"
  BY DEF RequestAPIError, ClassifyStatus, EnvelopeError, NoError
<1>2. ErrorOf(method, got) \in {RequestAPIError(got.code, got.body), "DecodeError"}
  BY DEF ErrorOf, CallError
<1>3. CASE got.body = "unreadable"
  BY <1>1, <1>2, <1>3 DEF Sentinels, NoError, IsAPIError
<1>4. CASE got.body \in {"nonJSON", "statusFalse"}
  BY <1>1, <1>2, <1>4 DEF Sentinels, NoError, IsAPIError
<1>5. CASE got.body \in {"badData", "goodData"}
  BY <1>1, <1>2, <1>5 DEF Sentinels, NoError, IsAPIError
<1> QED BY <1>3, <1>4, <1>5

\* Success and refusal are what the server did.
LEMMA OutcomeIsTrue ==
    ASSUME NEW r, ReplyTrue(r), NEW got \in Arrivals(r), NEW method
    PROVE  LET answer == OutcomeOf(ResultOf(method, got))
           IN  /\ answer \in {"succeeded", "refused", "unclear"}
               /\ answer = "succeeded" => executed[r.id] = 1
               /\ answer = "refused" => executed[r.id] = 0
<1> PICK res : res = ResultOf(method, got)
  OBVIOUS
<1> PICK err : err = ErrorOf(method, got)
  OBVIOUS
<1>1. \/ got.code = r.code /\ got.body = r.body
      \/ got.body = "unreadable"
      \/ got.code = 502 /\ got.body = "nonJSON"
      \/ got.code = r.code /\ got.body = "badData" /\ r.body = "goodData"
  BY Arrived
<1>2. \/ res.err = "NoPrices" /\ res.code = 0
      \/ res.err = NoError /\ err = NoError
      \/ res.err = err /\ err # NoError /\ res.code = IF IsAPIError(err) THEN got.code ELSE 0
  BY ResultErr
<1>3. OutcomeOf(res) \in {"succeeded", "refused", "unclear"}
  BY DEF OutcomeOf
<1>4. OutcomeOf(res) = "succeeded" => res.err = NoError
  BY DEF OutcomeOf
<1>5. OutcomeOf(res) = "refused" => res.err # NoError /\ Refuses(res)
  BY DEF OutcomeOf
<1>6. ASSUME got.body = "unreadable" PROVE err = "ReadError"
  BY <1>6 DEF ErrorOf, CallError, RequestAPIError, NoError
<1>7. ASSUME got.body # "unreadable"
      PROVE  /\ err \notin Sentinels \cup {"LocalError", "NoPrices"}
             /\ err = NoError => got.body \in {"badData", "goodData"}
             /\ IsAPIError(err) => got.body \in {"nonJSON", "statusFalse"}
  <2>1. /\ got.code \in {200, 400, 500, 502}
        /\ got.body \in {"unreadable", "nonJSON", "statusFalse", "badData", "goodData"}
    BY <1>1, <1>7 DEF ReplyTrue
  <2> QED BY <2>1, ErrorMeans
<1>8. CASE got.body = "unreadable"
  BY <1>2, <1>3, <1>4, <1>5, <1>6, <1>8 DEF Refuses, Sentinels, NoError, IsAPIError
<1>9. CASE got.body # "unreadable"
  <2>1. ASSUME OutcomeOf(res) = "succeeded" PROVE executed[r.id] = 1
    <3>1. err = NoError
      BY <1>2, <1>4, <2>1 DEF NoError
    <3>2. got.body \in {"badData", "goodData"}
      BY <1>7, <1>9, <3>1
    <3>3. r.body = "goodData"
      BY <1>1, <3>2 DEF ReplyTrue
    <3> QED BY <3>3 DEF ReplyTrue
  <2>2. ASSUME OutcomeOf(res) = "refused" PROVE executed[r.id] = 0
    <3>1. res.err = err /\ IsAPIError(err) /\ res.code = got.code /\ res.code \in 400..499
      BY <1>2, <1>5, <1>7, <1>9, <2>2 DEF Refuses, Sentinels, NoError, IsAPIError
    <3>2. got.body = "statusFalse" /\ got.code = r.code
      BY <1>1, <1>7, <1>9, <3>1 DEF ReplyTrue
    <3> QED BY <1>1, <3>1, <3>2 DEF ReplyTrue
  <2> QED BY <1>3, <2>1, <2>2
<1> QED BY <1>8, <1>9

-----------------------------------------------------------------------------
(* Steps.  Effect says what a step does to what the invariant speaks of.   *)

\* Goroutine w begins call made + 1.
LEMMA EnterEffect ==
    ASSUME IInv, NEW w \in Workers, NEW op, NEW pc, NEW result, Enter(w, op, pc, result)
    PROVE  \E c : /\ call' = [call EXCEPT ![w] = c] /\ DOMAIN c = CallFields /\ c.pc = pc /\ c.id = made + 1
                  /\ made' = made + 1 /\ made + 1 \in Calls
<1> PICK c : c = [IdleCall EXCEPT !.pc = pc, !.id = made + 1, !.method = op.method,
                                  !.client = op.client, !.arg = op.arg, !.result = result]
  OBVIOUS
<1>1. DOMAIN c = CallFields /\ c.pc = pc /\ c.id = made + 1
  BY DEF IdleCall, CallFields
<1>2. call' = [call EXCEPT ![w] = c] /\ made' = made + 1 /\ made < MaxCalls
  BY DEF Enter
<1>3. made + 1 \in Calls
  BY <1>2, Bounds DEF IInv
<1> QED BY <1>1, <1>2, <1>3

LEMMA CallInv ==
    ASSUME IInv, NEW w \in Workers, NEW op, Call(w, op)
    PROVE  IInv' /\ Effects!Begin(made + 1) /\ made + 1 \in Calls
<1>1. PICK c : /\ call' = [call EXCEPT ![w] = c] /\ DOMAIN c = CallFields /\ c.pc = "sent" /\ c.id = made + 1
               /\ made' = made + 1 /\ made + 1 \in Calls
  BY EnterEffect DEF Call
<1> PICK m : m = [id |-> made + 1, conn |-> 0, request |-> RequestOf(op)]
  OBVIOUS
<1>2. wire' = wire \cup {m} /\ m.id = made + 1
  BY DEF Call, Connections
<1>3. outcome' = [outcome EXCEPT ![made + 1] = "open"] /\ UNCHANGED <<executed, replies>>
  BY DEF Call, serverVars
<1>4. made \in 0..MaxCalls /\ made' \in 0..MaxCalls /\ MaxCalls \in Nat
  BY <1>1, Bounds DEF IInv
<1>5. outcome[made + 1] = "none" /\ executed[made + 1] = 0
  BY <1>1, <1>4 DEF IInv
<1>6. /\ outcome' \in [Calls -> Effects!Outcomes]
      /\ \A id \in Calls : outcome'[id] = IF id = made + 1 THEN "open" ELSE outcome[id]
  BY <1>1, <1>3 DEF IInv, Effects!Outcomes
<1>7. \A id \in Calls : id > made' => outcome'[id] = "none" /\ executed'[id] = 0
  BY <1>1, <1>3, <1>4, <1>6, Bounds DEF IInv
<1>8. call' = [v \in Workers |-> IF v = w THEN c ELSE call[v]]
  BY <1>1 DEF IInv
<1>9. ASSUME NEW v \in Workers PROVE CallTrue(call[v])'
  <2>1. CallTrue(call[v])
    BY DEF IInv, CallsTrue
  <2>2. CASE v = w
    BY <1>1, <1>4, <1>6, <1>8, <2>2 DEF CallTrue
  <2>3. CASE v # w
    <3>1. call'[v] = call[v]
      BY <1>8, <2>3
    <3>2. call[v].pc = "sent" => call[v].id \in 1..made /\ call[v].id \in 1..made' /\ call[v].id \in Calls /\ call[v].id # made + 1
      BY <1>1, <1>4, <2>1, Bounds DEF CallTrue
    <3> QED BY <1>6, <2>1, <3>1, <3>2 DEF CallTrue
  <2> QED BY <2>2, <2>3
<1>10. \A u, v \in Workers : call'[u].pc = "sent" /\ call'[v].pc = "sent" /\ call'[u].id = call'[v].id => u = v
  <2>1. \A v \in Workers : v # w => call'[v] = call[v] /\ (call[v].pc = "sent" => call[v].id # made + 1)
    BY <1>4, <1>8 DEF IInv, CallsTrue, CallTrue
  <2>2. call'[w].id = made + 1
    BY <1>1, <1>8
  <2> QED BY <2>1, <2>2 DEF IInv, CallsTrue
<1>11. ASSUME NEW n \in wire' PROVE RequestTrue(n)'
  <2>1. CASE n \in wire
    <3>1. RequestTrue(n) /\ n.id # made + 1 /\ n.id \in 1..made' /\ n.id \in Calls
      BY <1>1, <1>4, <2>1, Bounds DEF IInv, RequestTrue
    <3>2. \A k \in wire' : k.id = n.id => k = n
      BY <1>2, <3>1 DEF RequestTrue
    <3> QED BY <1>3, <1>6, <3>1, <3>2 DEF RequestTrue
  <2>2. CASE n = m
    <3>1. \A k \in wire : k.id # made + 1
      BY <1>4 DEF IInv, RequestTrue
    <3>2. \A k \in wire' : k.id = n.id => k = n
      BY <1>2, <2>2, <3>1
    <3>3. n.id \in 1..made' /\ executed'[n.id] = 0 /\ outcome'[n.id] = "open"
      BY <1>1, <1>2, <1>3, <1>4, <1>5, <1>6, <2>2
    <3> QED BY <3>2, <3>3 DEF RequestTrue
  <2> QED BY <1>2, <2>1, <2>2
<1>12. ASSUME NEW r \in replies' PROVE ReplyTrue(r)'
  <2>1. ReplyTrue(r) /\ r.id \in 1..made' /\ r.id # made + 1
    BY <1>1, <1>3, <1>4 DEF IInv, ReplyTrue
  <2> QED BY <1>2, <1>3, <2>1 DEF ReplyTrue
<1>13. IInv'
  BY <1>3, <1>4, <1>6, <1>7, <1>8, <1>9, <1>10, <1>11, <1>12 DEF IInv, CallsTrue
<1> QED BY <1>1, <1>3, <1>5, <1>13 DEF Effects!Begin

LEMMA FailInv ==
    ASSUME IInv, NEW w \in Workers, NEW op, FailLocally(w, op)
    PROVE  IInv' /\ Effects!Return(made + 1, "refused") /\ made + 1 \in Calls
<1>1. PICK c : /\ call' = [call EXCEPT ![w] = c] /\ DOMAIN c = CallFields /\ c.pc = "returned" /\ c.id = made + 1
               /\ made' = made + 1 /\ made + 1 \in Calls
  BY EnterEffect DEF FailLocally
<1>2. outcome' = [outcome EXCEPT ![made + 1] = "refused"] /\ UNCHANGED <<executed, wire, replies>>
  BY DEF FailLocally, serverVars
<1>3. made \in 0..MaxCalls /\ made' \in 0..MaxCalls /\ MaxCalls \in Nat
  BY <1>1, Bounds DEF IInv
<1>4. outcome[made + 1] = "none" /\ executed[made + 1] = 0
  BY <1>1, <1>3 DEF IInv
<1>5. /\ outcome' \in [Calls -> Effects!Outcomes]
      /\ \A id \in Calls : outcome'[id] = IF id = made + 1 THEN "refused" ELSE outcome[id]
  BY <1>1, <1>2 DEF IInv, Effects!Outcomes
<1>6. \A id \in Calls : id > made' => outcome'[id] = "none" /\ executed'[id] = 0
  BY <1>1, <1>2, <1>3, <1>5, Bounds DEF IInv
<1>7. call' = [v \in Workers |-> IF v = w THEN c ELSE call[v]]
  BY <1>1 DEF IInv
<1>8. ASSUME NEW v \in Workers PROVE CallTrue(call[v])'
  <2>1. CallTrue(call[v])
    BY DEF IInv, CallsTrue
  <2>2. CASE v = w
    BY <1>1, <1>7, <2>2 DEF CallTrue
  <2>3. CASE v # w
    <3>1. call'[v] = call[v]
      BY <1>7, <2>3
    <3>2. call[v].pc = "sent" => call[v].id \in 1..made /\ call[v].id \in 1..made' /\ call[v].id \in Calls /\ call[v].id # made + 1
      BY <1>1, <1>3, <2>1, Bounds DEF CallTrue
    <3> QED BY <1>5, <2>1, <3>1, <3>2 DEF CallTrue
  <2> QED BY <2>2, <2>3
<1>9. \A u, v \in Workers : call'[u].pc = "sent" /\ call'[v].pc = "sent" /\ call'[u].id = call'[v].id => u = v
  <2>1. call'[w].pc = "returned" /\ \A v \in Workers : v # w => call'[v] = call[v]
    BY <1>1, <1>7
  <2> QED BY <2>1 DEF IInv, CallsTrue
<1>10. ASSUME NEW n \in wire' PROVE RequestTrue(n)'
  <2>1. RequestTrue(n) /\ n.id # made + 1 /\ n.id \in 1..made' /\ n.id \in Calls
    BY <1>1, <1>2, <1>3, Bounds DEF IInv, RequestTrue
  <2> QED BY <1>2, <1>5, <2>1 DEF RequestTrue
<1>11. ASSUME NEW r \in replies' PROVE ReplyTrue(r)'
  <2>1. ReplyTrue(r) /\ r.id \in 1..made'
    BY <1>1, <1>2, <1>3 DEF IInv, ReplyTrue
  <2> QED BY <1>2, <2>1 DEF ReplyTrue
<1>12. IInv'
  BY <1>2, <1>3, <1>5, <1>6, <1>7, <1>8, <1>9, <1>10, <1>11 DEF IInv, CallsTrue
<1> QED BY <1>1, <1>2, <1>4, <1>12 DEF Effects!Return

\* The call of w ends, with an answer that fits what became of its request.
LEMMA ReturnInv ==
    ASSUME IInv, NEW w \in Workers, call[w].pc = "sent", NEW result, Return(w, result),
           NEW answer, answer = OutcomeOf(result), answer \in {"succeeded", "refused", "unclear"},
           answer = "succeeded" => executed[call[w].id] = 1,
           answer = "refused" => executed[call[w].id] = 0,
           answer \in {"succeeded", "refused"} => \A m \in wire : m.id # call[w].id
    PROVE  IInv' /\ call[w].id \in Calls /\ Effects!Return(call[w].id, answer)
<1> PICK k : k = call[w].id
  OBVIOUS
<1> PICK c : c = [call[w] EXCEPT !.pc = "returned", !.result = result]
  OBVIOUS
<1>1. call' = [call EXCEPT ![w] = c]
  BY DEF Return
<1>2. outcome' = [outcome EXCEPT ![k] = answer] /\ replies' \subseteq replies /\ UNCHANGED <<executed, made, wire>>
  BY DEF Return, serverVars, RepliesWithout
<1>3. CallTrue(call[w]) /\ k \in 1..made /\ outcome[k] = "open"
  BY DEF IInv, CallsTrue, CallTrue
<1>4. made \in 0..MaxCalls /\ k \in Calls
  BY <1>3, Bounds DEF IInv
<1>5. DOMAIN c = CallFields /\ c.pc = "returned"
  BY <1>3 DEF CallTrue, CallFields
<1>6. /\ outcome' \in [Calls -> Effects!Outcomes]
      /\ \A id \in Calls : outcome'[id] = IF id = k THEN answer ELSE outcome[id]
  BY <1>2, <1>4 DEF IInv, Effects!Outcomes
<1>7. \A id \in Calls : id > made => outcome'[id] = "none" /\ executed'[id] = 0
  <2>1. \A id \in Calls : id > made => id # k
    BY <1>3, <1>4, Bounds
  <2> QED BY <1>2, <1>6, <2>1 DEF IInv
<1>8. call' = [v \in Workers |-> IF v = w THEN c ELSE call[v]]
  BY <1>1 DEF IInv
<1>9. \A v \in Workers : v # w => call'[v] = call[v] /\ (call[v].pc = "sent" => call[v].id # k)
  BY <1>8 DEF IInv, CallsTrue
<1>10. ASSUME NEW v \in Workers PROVE CallTrue(call[v])'
  <2>1. CallTrue(call[v])
    BY DEF IInv, CallsTrue
  <2>2. CASE v = w
    BY <1>5, <1>8, <2>2 DEF CallTrue
  <2>3. CASE v # w
    <3>1. call'[v] = call[v] /\ (call[v].pc = "sent" => call[v].id # k)
      BY <1>9, <2>3
    <3>2. call[v].pc = "sent" => call[v].id \in 1..made /\ call[v].id \in Calls
      BY <1>4, <2>1, Bounds DEF CallTrue
    <3> QED BY <1>2, <1>6, <2>1, <3>1, <3>2 DEF CallTrue
  <2> QED BY <2>2, <2>3
<1>11. \A u, v \in Workers : call'[u].pc = "sent" /\ call'[v].pc = "sent" /\ call'[u].id = call'[v].id => u = v
  BY <1>5, <1>8, <1>9 DEF IInv, CallsTrue
<1>12. ASSUME NEW n \in wire' PROVE RequestTrue(n)'
  <2>1. RequestTrue(n) /\ n.id \in Calls
    BY <1>2, <1>4, Bounds DEF IInv, RequestTrue
  <2>2. outcome'[n.id] \in {"open", "unclear"}
    BY <1>2, <1>6, <2>1 DEF RequestTrue
  <2> QED BY <1>2, <2>1, <2>2 DEF RequestTrue
<1>13. ASSUME NEW r \in replies' PROVE ReplyTrue(r)'
  BY <1>2 DEF IInv, ReplyTrue
<1>14. IInv'
  BY <1>2, <1>6, <1>7, <1>8, <1>10, <1>11, <1>12, <1>13 DEF IInv, CallsTrue
<1> QED BY <1>2, <1>3, <1>4, <1>14 DEF Effects!Return

LEMMA AbandonInv ==
    ASSUME IInv, NEW w \in Workers, Abandon(w)
    PROVE  IInv' /\ call[w].id \in Calls /\ Effects!Return(call[w].id, "unclear")
<1> PICK result : result = [NoResult EXCEPT !.err = "TransportError"]
  OBVIOUS
<1>1. result.err = "TransportError"
  BY DEF NoResult
<1>2. OutcomeOf(result) = "unclear"
  BY <1>1 DEF OutcomeOf, Refuses, NoError, Sentinels, IsAPIError
<1>3. call[w].pc = "sent" /\ Return(w, result)
  BY DEF Abandon
<1> QED BY <1>2, <1>3, ReturnInv

LEMMA ReceiveInv ==
    ASSUME IInv, NEW w \in Workers, Receive(w)
    PROVE  IInv' /\ call[w].id \in Calls
           /\ \E answer \in {"succeeded", "refused", "unclear"} : Effects!Return(call[w].id, answer)
<1>1. PICK r \in replies : Awaits(w, r) /\ \E got \in Arrivals(r) : Return(w, ResultOf(call[w].method, got))
  BY DEF Receive
<1>2. PICK got \in Arrivals(r) : Return(w, ResultOf(call[w].method, got))
  BY <1>1
<1>3. ReplyTrue(r) /\ call[w].pc = "sent" /\ r.id = call[w].id
  BY <1>1 DEF IInv, Awaits
<1> PICK result : result = ResultOf(call[w].method, got)
  OBVIOUS
<1> PICK answer : answer = OutcomeOf(result)
  OBVIOUS
<1>4. /\ answer \in {"succeeded", "refused", "unclear"}
      /\ answer = "succeeded" => executed[call[w].id] = 1
      /\ answer = "refused" => executed[call[w].id] = 0
  BY <1>3, OutcomeIsTrue
<1>5. \A m \in wire : m.id # call[w].id
  BY <1>3 DEF ReplyTrue
<1> QED BY <1>2, <1>3, <1>4, <1>5, ReturnInv

LEMMA AcknowledgeInv ==
    ASSUME IInv, NEW w \in Workers, Acknowledge(w)
    PROVE  IInv' /\ UNCHANGED <<outcome, executed>>
<1>1. call' = [call EXCEPT ![w] = IdleCall] /\ UNCHANGED <<executed, made, wire, replies, outcome>>
  BY DEF Acknowledge, serverVars
<1>2. call' = [v \in Workers |-> IF v = w THEN IdleCall ELSE call[v]]
  BY <1>1 DEF IInv
<1>3. IdleCall.pc = "idle" /\ DOMAIN IdleCall = CallFields
  BY DEF IdleCall, CallFields
<1>4. ASSUME NEW v \in Workers PROVE CallTrue(call[v])'
  <2>1. CASE v = w
    BY <1>2, <1>3, <2>1 DEF CallTrue
  <2>2. CASE v # w
    BY <1>1, <1>2, <2>2 DEF IInv, CallsTrue, CallTrue
  <2> QED BY <2>1, <2>2
<1>5. \A u, v \in Workers : call'[u].pc = "sent" /\ call'[v].pc = "sent" /\ call'[u].id = call'[v].id => u = v
  BY <1>2, <1>3 DEF IInv, CallsTrue
<1>6. \A n \in wire' : RequestTrue(n)'
  BY <1>1 DEF IInv, RequestTrue
<1>7. \A r \in replies' : ReplyTrue(r)'
  BY <1>1 DEF IInv, ReplyTrue
<1>8. IInv'
  BY <1>1, <1>2, <1>4, <1>5, <1>6, <1>7 DEF IInv, CallsTrue
<1> QED BY <1>1, <1>8

\* Request m has now been carried out e times.
Counted(m, e) == executed' = [executed EXCEPT ![m.id] = e]

\* Request m is answered.
LEMMA AnswerInv ==
    ASSUME IInv, NEW m \in wire, NEW code, NEW body, NEW data, Answer(m, code, body, data),
           NEW e, Counted(m, e),
           \/ code = 200 /\ body = "goodData" /\ e = 1
           \/ code \in {400, 500} /\ body = "statusFalse" /\ e = 0,
           UNCHANGED <<made, outcome>>,
           call' = [w \in Workers |-> call'[w]],
           \A w \in Workers : call'[w].pc = call[w].pc /\ call'[w].id = call[w].id /\ DOMAIN call'[w] = DOMAIN call[w]
    PROVE  IInv'
<1> PICK a : a = [id |-> m.id, code |-> code, body |-> body,
                  count |-> data.count, card |-> data.card, rows |-> data.rows]
  OBVIOUS
<1>1. /\ a.id = m.id /\ a.code = code /\ a.body = body
      /\ DOMAIN a = {"id", "code", "body", "count", "card", "rows"}
  OBVIOUS
<1>2. wire' = wire \ {m} /\ replies' \subseteq replies \cup {a}
  BY DEF Answer
<1>3. RequestTrue(m)
  BY DEF IInv
<1>4. made \in 0..MaxCalls /\ m.id \in 1..made /\ m.id \in Calls /\ e \in {0, 1}
  BY <1>3, Bounds DEF IInv, RequestTrue
<1>5. /\ executed' \in [Calls -> {0, 1}]
      /\ \A id \in Calls : executed'[id] = IF id = m.id THEN e ELSE executed[id]
  BY <1>4 DEF IInv, Counted
<1>6. \A id \in Calls : id > made => outcome'[id] = "none" /\ executed'[id] = 0
  <2>1. \A id \in Calls : id > made => id # m.id
    BY <1>4, Bounds
  <2> QED BY <1>5, <2>1 DEF IInv
<1>7. ASSUME NEW v \in Workers PROVE CallTrue(call[v])'
  BY DEF IInv, CallsTrue, CallTrue
<1>8. \A u, v \in Workers : call'[u].pc = "sent" /\ call'[v].pc = "sent" /\ call'[u].id = call'[v].id => u = v
  BY DEF IInv, CallsTrue
<1>9. \A n \in wire' : n.id # m.id
  BY <1>2, <1>3 DEF RequestTrue
<1>10. ASSUME NEW n \in wire' PROVE RequestTrue(n)'
  <2>1. RequestTrue(n) /\ n.id # m.id /\ n.id \in Calls
    BY <1>2, <1>4, <1>9, Bounds DEF IInv, RequestTrue
  <2> QED BY <1>2, <1>5, <2>1 DEF RequestTrue
<1>11. ASSUME NEW r \in replies' PROVE ReplyTrue(r)'
  <2>1. CASE r \in replies
    <3>1. ReplyTrue(r) /\ r.id # m.id /\ r.id \in Calls
      BY <1>4, <2>1, Bounds DEF IInv, ReplyTrue
    <3> QED BY <1>2, <1>5, <3>1 DEF ReplyTrue
  <2>2. CASE r = a
    <3>1. r.id \in 1..made /\ executed'[r.id] = e
      BY <1>1, <1>4, <1>5, <2>2
    <3> QED BY <1>1, <1>9, <2>2, <3>1 DEF ReplyTrue
  <2> QED BY <1>2, <2>1, <2>2
<1> QED BY <1>5, <1>6, <1>7, <1>8, <1>10, <1>11 DEF IInv, CallsTrue

\* A request that is carried out was not before.
LEMMA CarryOutInv ==
    ASSUME IInv, NEW m \in wire, NEW registry, NEW data, CarryOut(m, registry, data),
           call' = [w \in Workers |-> call'[w]],
           \A w \in Workers : call'[w].pc = call[w].pc /\ call'[w].id = call[w].id /\ DOMAIN call'[w] = DOMAIN call[w]
    PROVE  IInv' /\ m.id \in Calls /\ Effects!Execute(m.id)
<1>1. /\ m.id \in Calls /\ executed[m.id] = 0 /\ outcome[m.id] \in {"open", "unclear"}
  BY Bounds DEF IInv, RequestTrue
<1>2. Counted(m, 1)
  BY <1>1 DEF CarryOut, Counted
<1>3. UNCHANGED <<made, outcome>> /\ Answer(m, 200, "goodData", data)
  BY DEF CarryOut
<1>4. IInv'
  BY <1>2, <1>3, AnswerInv
<1> QED BY <1>1, <1>2, <1>3, <1>4 DEF Effects!Execute, Counted

LEMMA ServerInv ==
    ASSUME IInv, NEW m \in wire, ServerStep(m)
    PROVE  IInv' /\ (UNCHANGED <<outcome, executed>> \/ (m.id \in Calls /\ Effects!Execute(m.id)))
<1>1. ASSUME UNCHANGED call
      PROVE  /\ call' = [w \in Workers |-> call'[w]]
             /\ \A w \in Workers : call'[w].pc = call[w].pc /\ call'[w].id = call[w].id /\ DOMAIN call'[w] = DOMAIN call[w]
  BY <1>1 DEF IInv
<1>2. ASSUME UNCHANGED call, NEW registry, NEW data, CarryOut(m, registry, data)
      PROVE  IInv' /\ m.id \in Calls /\ Effects!Execute(m.id)
  BY <1>1, <1>2, CarryOutInv
<1>3. CASE Register(m)
  BY <1>2, <1>3 DEF Register
<1>4. CASE ChangeCard(m)
  BY <1>2, <1>4 DEF ChangeCard
<1>5. CASE Transfer(m)
  BY <1>2, <1>5 DEF Transfer
<1>6. CASE Show(m)
  <2>1. call' = [w \in Workers |-> IF Awaits(w, m) THEN [call[w] EXCEPT !.due = Wanted(call[w])] ELSE call[w]]
    BY <1>6 DEF Show
  <2>2. ASSUME NEW w \in Workers
        PROVE  call'[w].pc = call[w].pc /\ call'[w].id = call[w].id /\ DOMAIN call'[w] = DOMAIN call[w]
    <3>1. DOMAIN call[w] = CallFields
      BY DEF IInv, CallsTrue, CallTrue
    <3>2. call'[w] = call[w] \/ call'[w] = [call[w] EXCEPT !.due = Wanted(call[w])]
      BY <2>1
    <3> QED BY <3>1, <3>2 DEF CallFields
  <2>3. call' = [w \in Workers |-> call'[w]]
    BY <2>1
  <2>4. CarryOut(m, cards, [NoResult EXCEPT !.rows = RowsAt(m.request)])
    BY <1>6 DEF Show
  <2> QED BY <2>2, <2>3, <2>4, CarryOutInv
<1>7. CASE Decline(m)
  <2>1. PICK code \in {400, 500} : Answer(m, code, "statusFalse", NoResult)
    BY <1>7 DEF Decline
  <2>2. UNCHANGED <<call, made, outcome, executed>>
    BY <1>7 DEF Decline, serverVars
  <2>3. Counted(m, 0)
    BY <2>2 DEF IInv, RequestTrue, Counted
  <2> QED BY <1>1, <2>1, <2>2, <2>3, AnswerInv
<1> QED BY <1>3, <1>4, <1>5, <1>6, <1>7 DEF ServerStep

-----------------------------------------------------------------------------
(* The theorem.                                                            *)

LEMMA InitInv == Init => IInv /\ Effects!Init
<1> SUFFICES ASSUME Init PROVE IInv /\ Effects!Init
  OBVIOUS
<1>1. IdleCall.pc = "idle" /\ DOMAIN IdleCall = CallFields
  BY DEF IdleCall, CallFields
<1>2. \A w \in Workers : CallTrue(call[w]) /\ call[w].pc # "sent"
  BY <1>1 DEF Init, CallTrue
<1> QED BY <1>2, Bounds DEF Init, IInv, CallsTrue, Effects!Init, Effects!Outcomes

LEMMA StepEffect ==
    ASSUME IInv, [Next]_vars
    PROVE  IInv' /\ [Effects!Next]_<<outcome, executed>>
<1>1. ASSUME NEW w \in Workers, NEW op, Call(w, op) PROVE IInv' /\ Effects!Next
  BY <1>1, CallInv DEF Effects!Next
<1>2. ASSUME NEW w \in Workers, NEW op, FailLocally(w, op) PROVE IInv' /\ Effects!Next
  BY <1>2, FailInv DEF Effects!Next
<1>3. ASSUME NEW w \in Workers, Abandon(w) PROVE IInv' /\ Effects!Next
  BY <1>3, AbandonInv DEF Effects!Next
<1>4. ASSUME NEW w \in Workers, Receive(w) PROVE IInv' /\ Effects!Next
  BY <1>4, ReceiveInv DEF Effects!Next
<1>5. ASSUME NEW w \in Workers, Acknowledge(w) PROVE IInv' /\ UNCHANGED <<outcome, executed>>
  BY <1>5, AcknowledgeInv
<1>6. ASSUME NEW m \in wire, ServerStep(m) PROVE IInv' /\ [Effects!Next]_<<outcome, executed>>
  BY <1>6, ServerInv DEF Effects!Next
<1>7. CASE UNCHANGED vars
  <2>1. UNCHANGED <<call, made, wire, replies, outcome, executed>>
    BY <1>7 DEF vars, serverVars
  <2>2. /\ \A w \in Workers : CallTrue(call[w])'
        /\ \A m \in wire' : RequestTrue(m)'
        /\ \A r \in replies' : ReplyTrue(r)'
    BY <2>1 DEF IInv, CallsTrue, CallTrue, RequestTrue, ReplyTrue
  <2> QED BY <2>1, <2>2 DEF IInv, CallsTrue
<1> QED BY <1>1, <1>2, <1>3, <1>4, <1>5, <1>6, <1>7 DEF Next, ServiceStep

\* For any number of goroutines and calls: a request is carried out at most once,
\* a nil error means that it was, and a refusal that it never will be
\* (client.go:303-405).
THEOREM CallsKeepTheirWord == Spec => ImplementsCallEffects
BY InitInv, StepEffect, PTL DEF Spec, ImplementsCallEffects, Effects!Spec

=============================================================================
