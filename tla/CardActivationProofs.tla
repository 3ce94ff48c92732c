------------------------- MODULE CardActivationProofs -------------------------
(***************************************************************************)
(* Proofs about CardActivation, for any activations, queries, pollers and  *)
(* bounds.  The inductive invariant follows an activation: nobody may      *)
(* order for it again while a request or an order of it can exist.         *)
(***************************************************************************)
EXTENDS CardActivation, TLAPS

OrderStates == {"pending", "active", "rejected"}

Ordered(a) == \E n \in DOMAIN orders : orders[n].of = a

Requested(a) == \E m \in wire : m.id[1] = a

\* What arrives in answer to a request for activation a is true of it.
AnswerTrue(a, res) ==
    \/ /\ res.code = 200 /\ res.body = "goodData" /\ res.kind = "card"
       /\ OrderIs(a, res.number, {"active"})
    \/ /\ res.code = 200 /\ res.body = "goodData" /\ res.kind = "order"
       /\ OrderIs(a, res.number, OrderStates)
    \/ res.code \in {400, 409, 429} /\ res.body = "statusFalse" /\ ~Ordered(a)
    \/ res.code = 500 /\ res.body = "statusFalse"

ReplyTrue(r) == /\ r.to \in RequestType /\ r.response \in ResponseType
                /\ Awaits(r.to.id[1], r.to)
                /\ ~Requested(r.to.id[1])
                /\ AnswerTrue(r.to.id[1], r.response)

RequestTrue(m) == /\ m \in RequestType
                  /\ ~Ordered(m.id[1])
                  /\ \A n \in wire : n.id[1] = m.id[1] => n = m

\* What a call hands to its caller.
ResultTrue(a, c) ==
    /\ c.err = NoError <=> c.card # 0 \/ c.order # 0
    /\ c.card = 0 \/ c.order = 0
    /\ c.via = "callback" => c.order = 0
    /\ c.card # 0 => OrderIs(a, c.card, {"active"})
    /\ c.order # 0 => OrderIs(a, c.order, OrderStates)
    /\ Refused(c) => ~Ordered(a) /\ ~Requested(a)

BeliefTrue(a) ==
    /\ believed[a] = "active"   => OrderIs(a, orderOf[a], {"active"})
    /\ believed[a] = "pending"  => OrderIs(a, orderOf[a], {"pending", "active", "rejected"})
    /\ believed[a] = "rejected" => OrderIs(a, orderOf[a], {"rejected"})
    /\ believed[a] = "resolved" => OrderIs(a, orderOf[a], {"active", "rejected"})

ActivationTrue(a) ==
    /\ call[a].pc # "idle" => believed[a] = "open" /\ call[a].try > 0
    /\ believed[a] = "open" /\ call[a].pc \in {"idle", "called"} => ~Ordered(a) /\ ~Requested(a)
    /\ call[a].pc \in {"called", "sent"} => call[a].card = 0 /\ call[a].order = 0 /\ call[a].code = 0
    /\ call[a].pc = "returned" => ResultTrue(a, call[a])
    /\ BeliefTrue(a)

\* A listing holds what was pending and not what was rejected when it was asked for.
PollTrue(p) ==
    /\ \A a \in poll[p].knew : /\ believed[a] # "open"
                               /\ Means(poll[p].asked, a)
                               /\ OrderIs(a, orderOf[a], OrderStates)
                               /\ poll[p].pc = "answered" /\ orderOf[a] \notin poll[p].rows =>
                                     OrderIs(a, orderOf[a], {"active", "rejected"})
    /\ \A n \in poll[p].rejected : n \in DOMAIN orders /\ orders[n].state = "rejected"
    /\ poll[p].rows \cap poll[p].rejected = {}
    /\ poll[p].pc = "called" => poll[p].asked \in PollQueries

Shapes == /\ believed \in [Activations -> Beliefs]
          /\ orderOf \in [Activations -> Nat]
          /\ call \in [Activations -> CallType]
          /\ poll \in [Pollers -> PollType]
          /\ orders \in Seq([of : Activations, state : OrderStates])

IInv == /\ Shapes
        /\ OneOrderPerActivation
        /\ \A a \in Activations : ActivationTrue(a)
        /\ \A p \in Pollers : PollTrue(p)
        /\ \A m \in wire : RequestTrue(m)
        /\ \A r \in replies : ReplyTrue(r)

-----------------------------------------------------------------------------
(* What lasts.                                                             *)

\* Orders are never lost, and a settled order is not settled again.
OrdersGrow == \A n \in DOMAIN orders :
                 /\ n \in DOMAIN orders' /\ orders'[n].of = orders[n].of
                 /\ orders'[n].state \in OrderStates
                 /\ orders[n].state # "pending" => orders'[n].state = orders[n].state

LEMMA OrderShape ==
    ASSUME Shapes
    PROVE  /\ Len(orders) \in Nat /\ DOMAIN orders = 1..Len(orders)
           /\ \A n \in DOMAIN orders : orders[n].of \in Activations /\ orders[n].state \in OrderStates
<1>1. orders \in Seq([of : Activations, state : OrderStates])
  BY DEF Shapes
<1>2. Len(orders) \in Nat /\ DOMAIN orders = 1..Len(orders)
  BY <1>1
<1>3. ASSUME NEW S, orders \in Seq(S), NEW n \in DOMAIN orders PROVE orders[n] \in S
  BY <1>3
<1>4. \A n \in DOMAIN orders : orders[n] \in [of : Activations, state : OrderStates]
  BY <1>1, <1>3
<1> QED BY <1>2, <1>4

LEMMA SameOrders == ASSUME Shapes, UNCHANGED orders PROVE OrdersGrow
BY OrderShape DEF OrdersGrow

LEMMA OrderStays ==
    ASSUME OrdersGrow, NEW a, NEW n
    PROVE  /\ OrderIs(a, n, {"active"}) => OrderIs(a, n, {"active"})'
           /\ OrderIs(a, n, {"rejected"}) => OrderIs(a, n, {"rejected"})'
           /\ OrderIs(a, n, {"active", "rejected"}) => OrderIs(a, n, {"active", "rejected"})'
           /\ OrderIs(a, n, OrderStates) => OrderIs(a, n, OrderStates)'
BY DEF OrdersGrow, OrderIs, OrderStates

\* Nothing new is ordered or asked for activation a.
Quiet(a) == /\ Ordered(a)' => Ordered(a)
            /\ Requested(a)' => Requested(a)

LEMMA ResultStays ==
    ASSUME NEW a, NEW c, ResultTrue(a, c), OrdersGrow, Quiet(a)
    PROVE  ResultTrue(a, c)'
BY OrderStays DEF ResultTrue, Quiet

LEMMA BeliefStays ==
    ASSUME NEW a \in Activations, BeliefTrue(a), OrdersGrow,
           believed'[a] = believed[a], orderOf'[a] = orderOf[a]
    PROVE  BeliefTrue(a)'
BY OrderStays DEF BeliefTrue, OrderStates

LEMMA ActivationStays ==
    ASSUME NEW a \in Activations, ActivationTrue(a), OrdersGrow, Quiet(a),
           call'[a] = call[a], believed'[a] = believed[a], orderOf'[a] = orderOf[a]
    PROVE  ActivationTrue(a)'
<1>1. BeliefTrue(a)'
  BY BeliefStays DEF ActivationTrue
<1>2. call[a].pc = "returned" => ResultTrue(a, call[a])'
  <2>1. PICK c : c = call[a]
    OBVIOUS
  <2>2. ResultTrue(a, c) => ResultTrue(a, c)'
    BY ResultStays
  <2>3. ResultTrue(a, c)' => ResultTrue(a, call[a])'
    BY <2>1 DEF ResultTrue
  <2> QED BY <2>1, <2>2, <2>3 DEF ActivationTrue
<1> QED BY <1>1, <1>2 DEF ActivationTrue, Quiet

LEMMA ReplyStays ==
    ASSUME NEW r, ReplyTrue(r), OrdersGrow, Quiet(r.to.id[1]), call'[r.to.id[1]] = call[r.to.id[1]]
    PROVE  ReplyTrue(r)'
<1>1. AnswerTrue(r.to.id[1], r.response)'
  BY OrderStays DEF ReplyTrue, AnswerTrue, Quiet
<1>2. Awaits(r.to.id[1], r.to)'
  BY DEF ReplyTrue, Awaits, RequestId
<1> QED BY <1>1, <1>2 DEF ReplyTrue, Quiet

LEMMA PollStays ==
    ASSUME NEW p \in Pollers, PollTrue(p), OrdersGrow, poll'[p] = poll[p], poll[p].knew \subseteq Activations,
           \A a \in Activations : believed[a] # "open" => believed'[a] # "open" /\ orderOf'[a] = orderOf[a]
    PROVE  PollTrue(p)'
<1>1. ASSUME NEW a \in poll[p].knew
      PROVE  /\ believed'[a] # "open"
             /\ OrderIs(a, orderOf[a], OrderStates)'
             /\ poll'[p].pc = "answered" /\ orderOf'[a] \notin poll'[p].rows =>
                   OrderIs(a, orderOf[a], {"active", "rejected"})'
  <2>1. /\ believed'[a] # "open" /\ orderOf'[a] = orderOf[a] /\ OrderIs(a, orderOf[a], OrderStates)
        /\ poll[p].pc = "answered" /\ orderOf[a] \notin poll[p].rows => OrderIs(a, orderOf[a], {"active", "rejected"})
    BY DEF PollTrue
  <2>2. PICK n : n = orderOf[a]
    OBVIOUS
  <2>3. /\ OrderIs(a, n, {"active", "rejected"}) => OrderIs(a, n, {"active", "rejected"})'
        /\ OrderIs(a, n, OrderStates) => OrderIs(a, n, OrderStates)'
    BY OrderStays
  <2>4. /\ OrderIs(a, n, {"active", "rejected"})' => OrderIs(a, orderOf[a], {"active", "rejected"})'
        /\ OrderIs(a, n, OrderStates)' => OrderIs(a, orderOf[a], OrderStates)'
    BY <2>1, <2>2 DEF OrderIs
  <2> QED BY <2>1, <2>2, <2>3, <2>4
<1>2. \A n \in poll[p].rejected : n \in DOMAIN orders' /\ orders'[n].state = "rejected"
  BY DEF PollTrue, OrdersGrow
<1>3. \A a \in poll[p].knew : Means(poll[p].asked, a)'
  BY DEF PollTrue, Means
<1> QED BY <1>1, <1>2, <1>3 DEF PollTrue

-----------------------------------------------------------------------------
(* What a response becomes.                                                *)

\* The ways in which an answer may arrive.
LEMMA Arrived ==
    ASSUME NEW res \in ResponseType, NEW got \in Arrivals(res)
    PROVE  /\ got \in ResponseType /\ got.kind = res.kind /\ got.number = res.number
           /\ \/ got.code = res.code /\ got.body = res.body
              \/ got.code = res.code /\ got.body = "unreadable"
              \/ got.code = 502 /\ got.body = "nonJSON"
              \/ got.code = res.code /\ got.body = "badData" /\ res.body = "goodData"
<1>1. CASE got = res
  BY <1>1
<1>2. CASE got = [res EXCEPT !.body = "unreadable"]
  BY <1>2 DEF ResponseType, Bodies
<1>3. CASE got = [res EXCEPT !.code = 502, !.body = "nonJSON"]
  <2>1. DOMAIN res = {"code", "body", "kind", "number"}
    BY DEF ResponseType
  <2>2. got = [code |-> 502, body |-> "nonJSON", kind |-> res.kind, number |-> res.number]
    BY <1>3, <2>1
  <2>3. "nonJSON" \in Bodies /\ 502 \in Nat
    BY DEF Bodies
  <2> QED BY <2>2, <2>3 DEF ResponseType
<1>4. CASE got = [res EXCEPT !.body = "badData"] /\ res.body = "goodData"
  BY <1>4 DEF ResponseType, Bodies
<1> QED BY <1>1, <1>2, <1>3, <1>4 DEF Arrivals

\* The error of a response, by its code and body.
LEMMA ErrorMeans ==
    ASSUME NEW code, NEW body, code \in {200, 400, 409, 429, 500, 502},
           body \in {"unreadable", "nonJSON", "statusFalse", "badData", "goodData"},
           code \in {400, 409, 429, 500} => body \in {"unreadable", "statusFalse"},
           code = 502 => body = "nonJSON"
    PROVE  /\ CallError(code, body) \in Errors
           /\ CallError(code, body) \notin {"InvalidArgument", "LocalError"}
           /\ CallError(code, body) = NoError <=> code = 200 /\ body = "goodData"
           /\ CallError(code, body) \in Sentinels => code \in {409, 429} /\ body = "statusFalse"
           /\ IsAPIError(CallError(code, body)) /\ code \in 400..499 => code = 400 /\ body = "statusFalse"
<1>1. ClassifyStatus(code) = IF code = 409 THEN "ErrDuplicateIdempotencyKey"
                             ELSE IF code = 429 THEN "ErrRateLimited" ELSE NoError
  BY DEF ClassifyStatus, NoError
<1>2. EnvelopeError(body) = IF body \in {"nonJSON", "statusFalse"} THEN "APIError" ELSE NoError
  BY DEF EnvelopeError, NoError
<1>3. CASE body = "unreadable"
  BY <1>3 DEF CallError, RequestAPIError, Errors, Sentinels, NoError, IsAPIError
<1>4. CASE body # "unreadable" /\ code \in {409, 429}
  BY <1>1, <1>4 DEF CallError, RequestAPIError, Errors, Sentinels, NoError, IsAPIError
<1>5. CASE body # "unreadable" /\ code \notin {409, 429}
  <2>1. RequestAPIError(code, body) = EnvelopeError(body)
    BY <1>1, <1>5 DEF RequestAPIError
  <2> QED BY <1>2, <1>5, <2>1 DEF CallError, Errors, Sentinels, NoError, IsAPIError
<1> QED BY <1>3, <1>4, <1>5

\* A call that was answered hands out what the answer says.
LEMMA AnsweredResult ==
    ASSUME Shapes, NEW a \in Activations, NEW res \in ResponseType, AnswerTrue(a, res), ~Requested(a),
           NEW got \in Arrivals(res), NEW via, NEW result, result = Result(via, got),
           NEW c, c.via = via, c.err = result.err, c.card = result.card, c.order = result.order,
           c.code = IF IsAPIError(result.err) THEN got.code ELSE 0
    PROVE  /\ ResultTrue(a, c)
           /\ c.err \in Errors \cup {"PendingError"} /\ c.code \in Nat /\ c.card \in Nat /\ c.order \in Nat
<1> PICK err : err = CallError(got.code, got.body)
  OBVIOUS
<1>1. /\ got \in ResponseType /\ got.kind = res.kind /\ got.number = res.number
      /\ \/ got.code = res.code /\ got.body = res.body
         \/ got.code = res.code /\ got.body = "unreadable"
         \/ got.code = 502 /\ got.body = "nonJSON"
         \/ got.code = res.code /\ got.body = "badData" /\ res.body = "goodData"
  BY Arrived
<1>2. got.number \in Nat /\ got.code \in Nat /\ res.number = got.number
  BY <1>1 DEF ResponseType
<1>3. /\ got.code \in {200, 400, 409, 429, 500, 502}
      /\ got.body \in {"unreadable", "nonJSON", "statusFalse", "badData", "goodData"}
      /\ got.code \in {400, 409, 429, 500} => got.body \in {"unreadable", "statusFalse"}
      /\ got.code = 502 => got.body = "nonJSON"
  BY <1>1 DEF AnswerTrue
<1>4. /\ err \in Errors
      /\ err \notin {"InvalidArgument", "LocalError"}
      /\ err = NoError <=> got.code = 200 /\ got.body = "goodData"
      /\ err \in Sentinels => got.code \in {409, 429} /\ got.body = "statusFalse"
      /\ IsAPIError(err) /\ got.code \in 400..499 => got.code = 400 /\ got.body = "statusFalse"
  BY <1>3, ErrorMeans
<1>5. CASE err = NoError
  <2>1. /\ result = Delivered(via, got)
        /\ got.code = res.code /\ got.body = res.body /\ res.kind \in {"card", "order"}
        /\ res.kind = "card" => OrderIs(a, got.number, {"active"})
        /\ res.kind = "order" => OrderIs(a, got.number, OrderStates)
    BY <1>1, <1>2, <1>4, <1>5 DEF Result, AnswerTrue
  <2>2. got.number # 0
    BY <2>1, OrderShape DEF OrderIs
  <2>3. CASE res.kind = "card"
    <3>1. result = [err |-> NoError, card |-> got.number, order |-> 0]
      BY <1>1, <2>1, <2>3 DEF Delivered, ParseCardOrPending
    <3>2. c.err = NoError /\ c.card = got.number /\ c.order = 0 /\ c.code = 0
      BY <3>1 DEF NoError, IsAPIError
    <3>3. ~Refused(c)
      BY <3>2 DEF Refused, NoError, Sentinels, IsAPIError
    <3> QED BY <1>2, <2>1, <2>2, <2>3, <3>2, <3>3 DEF ResultTrue, Errors
  <2>4. CASE res.kind = "order" /\ via = "callback"
    <3>1. result = [err |-> "PendingError", card |-> 0, order |-> 0]
      BY <1>1, <2>1, <2>2, <2>4 DEF Delivered, ParseCardOrPending
    <3>2. c.err = "PendingError" /\ c.card = 0 /\ c.order = 0 /\ c.code = 0
      BY <3>1 DEF IsAPIError
    <3>3. ~Refused(c)
      BY <3>2 DEF Refused, Sentinels, IsAPIError
    <3> QED BY <3>2, <3>3 DEF ResultTrue, NoError
  <2>5. CASE res.kind = "order" /\ via # "callback"
    <3>1. result = [err |-> NoError, card |-> 0, order |-> got.number]
      BY <1>1, <2>1, <2>2, <2>5 DEF Delivered, ParseCardOrPending
    <3>2. c.err = NoError /\ c.card = 0 /\ c.order = got.number /\ c.code = 0
      BY <3>1 DEF NoError, IsAPIError
    <3>3. ~Refused(c)
      BY <3>2 DEF Refused, NoError, Sentinels, IsAPIError
    <3> QED BY <1>2, <2>1, <2>2, <2>5, <3>2, <3>3 DEF ResultTrue, Errors
  <2> QED BY <2>1, <2>3, <2>4, <2>5
<1>6. CASE err # NoError
  <2>1. result = [err |-> err, card |-> 0, order |-> 0]
    BY <1>6 DEF Result
  <2>2. c.err = err /\ c.card = 0 /\ c.order = 0 /\ c.code = IF IsAPIError(err) THEN got.code ELSE 0
    BY <2>1
  <2>3. ASSUME Refused(c) PROVE ~Ordered(a)
    <3>1. err \in Sentinels \/ (IsAPIError(err) /\ got.code \in 400..499)
      BY <1>4, <2>2, <2>3 DEF Refused
    <3>2. res.code \in {400, 409, 429} /\ res.body = "statusFalse"
      BY <1>1, <1>4, <3>1
    <3> QED BY <3>2 DEF AnswerTrue
  <2> QED BY <1>2, <1>4, <1>6, <2>2, <2>3 DEF ResultTrue
<1> QED BY <1>5, <1>6

-----------------------------------------------------------------------------
(* Ordering calls.                                                         *)

\* Activation a is where the step is; the others see no more than a request
\* of theirs disappear.
OnlyAt(a) ==
    /\ OrdersGrow
    /\ \A b \in Activations \ {a} : /\ Quiet(b) /\ call'[b] = call[b]
                                    /\ believed'[b] = believed[b] /\ orderOf'[b] = orderOf[b]

\* What is left to show of a step at activation a.
LEMMA StepAt ==
    ASSUME IInv, NEW a \in Activations, OnlyAt(a), UNCHANGED poll, Shapes', OneOrderPerActivation',
           ActivationTrue(a)',
           believed[a] # "open" => believed'[a] # "open" /\ orderOf'[a] = orderOf[a],
           \A m \in wire' : RequestTrue(m)',
           \A r \in replies' : (r \in replies /\ r.to.id[1] # a) \/ ReplyTrue(r)'
    PROVE  IInv'
<1>1. ASSUME NEW b \in Activations PROVE ActivationTrue(b)'
  BY ActivationStays DEF IInv, OnlyAt
<1>2. ASSUME NEW p \in Pollers PROVE PollTrue(p)'
  <2>1. poll[p].knew \subseteq Activations
    BY DEF IInv, Shapes, PollType
  <2>2. \A b \in Activations : believed[b] # "open" => believed'[b] # "open" /\ orderOf'[b] = orderOf[b]
    BY DEF OnlyAt
  <2>3. OrdersGrow /\ PollTrue(p) /\ poll'[p] = poll[p]
    BY DEF IInv, OnlyAt
  <2> QED BY <2>1, <2>2, <2>3, PollStays
<1>3. ASSUME NEW r \in replies' PROVE ReplyTrue(r)'
  <2>1. CASE r \in replies /\ r.to.id[1] # a
    <3>1. ReplyTrue(r) /\ r.to.id[1] \in Activations \ {a}
      BY <2>1 DEF IInv, ReplyTrue, RequestType
    <3>2. OrdersGrow /\ Quiet(r.to.id[1]) /\ call'[r.to.id[1]] = call[r.to.id[1]]
      BY <3>1 DEF OnlyAt
    <3> QED BY <3>1, <3>2, ReplyStays
  <2> QED BY <2>1
<1> QED BY <1>1, <1>2, <1>3 DEF IInv

\* Nothing is ordered and no request is sent: what such a step leaves to show.
LEMMA CallStepAt ==
    ASSUME IInv, NEW a \in Activations, NEW t \in CallType,
           call' = [call EXCEPT ![a] = t], UNCHANGED <<poll, wire, orders, believed, orderOf>>,
           \A r \in replies' : r \in replies /\ r.to.id[1] # a,
           ActivationTrue(a)'
    PROVE  IInv'
<1>1. OrdersGrow
  BY SameOrders DEF IInv
<1>2. \A b : Quiet(b)
  BY DEF Quiet, Ordered, Requested
<1>3. call' \in [Activations -> CallType] /\ \A b \in Activations \ {a} : call'[b] = call[b]
  BY DEF IInv, Shapes
<1>4. OnlyAt(a)
  BY <1>1, <1>2, <1>3 DEF OnlyAt
<1>5. Shapes'
  BY <1>3 DEF IInv, Shapes
<1>6. OneOrderPerActivation'
  BY DEF IInv, OneOrderPerActivation
<1>7. \A m \in wire' : RequestTrue(m)'
  BY DEF IInv, RequestTrue, Ordered
<1> QED BY <1>4, <1>5, <1>6, <1>7, StepAt

\* A call that is not waiting has no reply on its way.
LEMMA NoReply ==
    ASSUME IInv, NEW a \in Activations, call[a].pc # "sent"
    PROVE  \A r \in replies : r.to.id[1] # a
BY DEF IInv, ReplyTrue, Awaits

LEMMA RestReplies ==
    ASSUME IInv, NEW a \in Activations, replies' = RepliesWithout(a)
    PROVE  \A r \in replies' : r \in replies /\ r.to.id[1] # a
BY DEF IInv, ReplyTrue, RepliesWithout

LEMMA BeginInv ==
    ASSUME IInv, NEW a \in Activations, NEW via \in {"direct", "callback"}, NEW type \in CardTypes,
           NEW err \in {NoError, "InvalidArgument"}, Begin(a, via, type, err)
    PROVE  IInv'
<1> PICK pc : pc = IF err = NoError THEN "called" ELSE "returned"
  OBVIOUS
<1> PICK try : try = call[a].try + 1
  OBVIOUS
<1>0. PICK t : t = [IdleCall EXCEPT !.pc = pc, !.via = via, !.type = type, !.err = err, !.try = try]
  OBVIOUS
<1>1. /\ believed[a] = "open" /\ call[a].pc = "idle" /\ call[a].try < MaxAttempts
      /\ call' = [call EXCEPT ![a] = t]
      /\ UNCHANGED <<believed, orderOf, poll, wire, replies, orders>>
  BY <1>0 DEF Begin, serviceVars
<1>2. call[a] \in CallType /\ MaxAttempts \in Nat
  BY ActivationAssumption DEF IInv, Shapes, ActivationAssumption
<1>3. t = [pc |-> pc, via |-> via, type |-> type, try |-> try, err |-> err,
           code |-> 0, card |-> 0, order |-> 0]
  BY <1>0 DEF IdleCall
<1>4. try \in 0..MaxAttempts /\ try > 0
  BY <1>1, <1>2 DEF CallType
<1>5. err \in Errors
  BY DEF Errors, NoError
<1>6. t \in CallType
  <2>1. pc \in {"idle", "called", "sent", "returned"}
    OBVIOUS
  <2>2. 0 \in Nat /\ err \in Errors \cup {"PendingError"}
    BY <1>5
  <2> QED BY <1>3, <1>4, <2>1, <2>2 DEF CallType
<1>7. ~Ordered(a) /\ ~Requested(a) /\ BeliefTrue(a)
  BY <1>1 DEF IInv, ActivationTrue
<1>8. call'[a] = t
  BY <1>1 DEF IInv, Shapes
<1>9. /\ ~Ordered(a)' /\ ~Requested(a)' /\ BeliefTrue(a)' /\ believed'[a] = "open"
  BY <1>1, <1>7 DEF Ordered, Requested, BeliefTrue, OrderIs
<1>10. t.pc = "returned" => ResultTrue(a, t)'
  <2>1. t.pc = "returned" => t.err # NoError
    BY <1>3
  <2>2. t.card = 0 /\ t.order = 0
    BY <1>3
  <2> QED BY <1>9, <2>1, <2>2 DEF ResultTrue
<1>11. /\ t.pc \in {"called", "returned"} /\ t.try > 0
       /\ t.card = 0 /\ t.order = 0 /\ t.code = 0
  BY <1>3, <1>4
<1>12. ActivationTrue(a)'
  <2>1. ResultTrue(a, t)' => ResultTrue(a, call[a])'
    BY <1>8 DEF ResultTrue
  <2> QED BY <1>8, <1>9, <1>10, <1>11, <2>1 DEF ActivationTrue
<1>13. \A r \in replies' : r \in replies /\ r.to.id[1] # a
  BY <1>1, NoReply
<1> QED BY <1>1, <1>6, <1>12, <1>13, CallStepAt

LEMMA CallbackInv ==
    ASSUME IInv, NEW a \in Activations, Callback(a)
    PROVE  IInv'
<1>1. CardType[a] \in CardTypes
  BY ActivationAssumption DEF ActivationAssumption
<1>2. PICK req \in CallbackRequests(a) :
         IF Undispatchable(req) THEN Begin(a, "callback", CardType[a], "InvalidArgument")
         ELSE Begin(a, "callback", req.type, NoError)
  BY DEF Callback
<1>3. CASE Undispatchable(req)
  BY <1>1, <1>2, <1>3, BeginInv
<1>4. CASE ~Undispatchable(req)
  <2>1. req.type \in CardTypes
    BY <1>4 DEF Undispatchable
  <2> QED BY <1>2, <1>4, <2>1, BeginInv
<1> QED BY <1>3, <1>4

\* A call that ends without a card, an order or a refusal of IBS.
LEMMA EndInv ==
    ASSUME IInv, NEW a \in Activations, NEW err \in {"LocalError", "TransportError"}, NEW t,
           t = [call[a] EXCEPT !.pc = "returned", !.err = err], call' = [call EXCEPT ![a] = t],
           UNCHANGED <<poll, wire, orders, believed, orderOf>>,
           \A r \in replies' : r \in replies /\ r.to.id[1] # a,
           call[a].pc \in {"called", "sent"},
           err = "LocalError" => call[a].pc = "called"
    PROVE  IInv'
<1>1. call[a] \in CallType /\ call[a].card = 0 /\ call[a].order = 0 /\ call[a].code = 0
  BY DEF IInv, Shapes, ActivationTrue
<1>2. t = [pc |-> "returned", via |-> call[a].via, type |-> call[a].type, try |-> call[a].try,
           err |-> err, code |-> 0, card |-> 0, order |-> 0]
  BY <1>1 DEF CallType
<1>3. err \in Errors
  BY DEF Errors
<1>4. t \in CallType
  BY <1>1, <1>2, <1>3 DEF CallType
<1>5. call'[a] = t
  BY DEF IInv, Shapes
<1>6. ActivationTrue(a)
  BY DEF IInv
<1>7. Refused(t) => ~Ordered(a) /\ ~Requested(a)
  BY <1>2, <1>6 DEF Refused, Sentinels, IsAPIError, ActivationTrue
<1>8. ResultTrue(a, t)
  <2>1. t.err # NoError /\ t.card = 0 /\ t.order = 0
    BY ONLY <1>2, err \in {"LocalError", "TransportError"} DEF NoError
  <2> QED BY <1>7, <2>1 DEF ResultTrue
<1>9. OrdersGrow /\ Quiet(a)
  BY SameOrders DEF IInv, Quiet, Ordered, Requested
<1>10. ResultTrue(a, t)' /\ BeliefTrue(a)'
  BY <1>6, <1>8, <1>9, ResultStays, BeliefStays DEF ActivationTrue
<1>11. ResultTrue(a, call[a])'
  BY <1>5, <1>10 DEF ResultTrue
<1>12. ActivationTrue(a)'
  BY <1>2, <1>5, <1>6, <1>10, <1>11 DEF ActivationTrue
<1> QED BY <1>4, <1>12, CallStepAt

LEMMA FailLocallyInv ==
    ASSUME IInv, NEW a \in Activations, FailLocally(a)
    PROVE  IInv'
<1>1. PICK t : t = [call[a] EXCEPT !.pc = "returned", !.err = "LocalError"]
  OBVIOUS
<1>2. call[a].pc = "called" /\ UNCHANGED <<poll, wire, replies, orders, believed, orderOf>>
  BY DEF FailLocally, serviceVars
<1>3. call' = [call EXCEPT ![a] = t]
  BY <1>1 DEF FailLocally, IInv, Shapes
<1>4. \A r \in replies' : r \in replies /\ r.to.id[1] # a
  BY <1>2, NoReply
<1> QED BY <1>1, <1>2, <1>3, <1>4, EndInv

LEMMA AbandonInv ==
    ASSUME IInv, NEW a \in Activations, Abandon(a)
    PROVE  IInv'
<1>1. PICK t : t = [call[a] EXCEPT !.pc = "returned", !.err = "TransportError"]
  OBVIOUS
<1>2. call[a].pc = "sent" /\ replies' = RepliesWithout(a) /\ UNCHANGED <<poll, wire, orders, believed, orderOf>>
  BY DEF Abandon, serviceVars
<1>3. call' = [call EXCEPT ![a] = t]
  BY <1>1 DEF Abandon, IInv, Shapes
<1>4. \A r \in replies' : r \in replies /\ r.to.id[1] # a
  BY <1>2, RestReplies
<1> QED BY <1>1, <1>2, <1>3, <1>4, EndInv

LEMMA SendInv ==
    ASSUME IInv, NEW a \in Activations, Send(a)
    PROVE  IInv'
<1>1. PICK t : t = [call[a] EXCEPT !.pc = "sent"]
  OBVIOUS
<1>2. PICK m : m = [id |-> <<a, call[a].try>>, type |-> call[a].type, conn |-> 0]
  OBVIOUS
<1>3. /\ call[a].pc = "called" /\ call' = [call EXCEPT ![a] = t]
      /\ UNCHANGED <<poll, replies, orders, believed, orderOf>>
  BY <1>1 DEF Send, serviceVars
<1>4. wire' = wire \cup {m}
  BY <1>2 DEF Send, Connections, Request, RequestId
<1>5. call[a] \in CallType /\ ActivationTrue(a) /\ believed[a] = "open" /\ call[a].try > 0
  BY <1>3 DEF IInv, Shapes, ActivationTrue
<1>6. /\ t \in CallType /\ t.pc = "sent" /\ t.try = call[a].try
      /\ t.card = 0 /\ t.order = 0 /\ t.code = 0
  BY <1>1, <1>3, <1>5 DEF CallType, ActivationTrue
<1>7. call'[a] = t /\ call' \in [Activations -> CallType] /\ \A b \in Activations \ {a} : call'[b] = call[b]
  BY <1>3, <1>6 DEF IInv, Shapes
<1>8. m \in RequestType /\ m.id[1] = a
  <2>1. call[a].try \in 1..MaxAttempts /\ call[a].type \in CardTypes
    BY <1>5, ActivationAssumption DEF CallType, ActivationAssumption
  <2> QED BY <1>2, <2>1 DEF RequestType
<1>9. ~Ordered(a) /\ ~Requested(a) /\ BeliefTrue(a)
  BY <1>3, <1>5 DEF ActivationTrue
<1>10. OrdersGrow
  BY <1>3, SameOrders DEF IInv
<1>11. \A b : Ordered(b)' <=> Ordered(b)
  BY <1>3 DEF Ordered
<1>12. \A b : b # a => Quiet(b)
  BY <1>4, <1>8, <1>11 DEF Quiet, Requested
<1>13. OnlyAt(a)
  BY <1>3, <1>7, <1>10, <1>12 DEF OnlyAt
<1>14. BeliefTrue(a)'
  BY <1>3, <1>9, <1>10, BeliefStays
<1>15. ActivationTrue(a)'
  BY <1>3, <1>5, <1>6, <1>7, <1>14 DEF ActivationTrue
<1>16. ASSUME NEW n \in wire' PROVE RequestTrue(n)'
  <2>1. CASE n \in wire
    <3>1. RequestTrue(n) /\ n.id[1] # a
      BY <1>9, <2>1 DEF IInv, Requested
    <3> QED BY <1>4, <1>8, <1>11, <3>1 DEF RequestTrue
  <2>2. CASE n = m
    <3>1. \A k \in wire' : k.id[1] = a => k = m
      BY <1>4, <1>9 DEF Requested
    <3>2. ~Ordered(a)'
      BY <1>9, <1>11
    <3> QED BY <1>8, <2>2, <3>1, <3>2 DEF RequestTrue
  <2> QED BY <1>4, <2>1, <2>2
<1>17. Shapes'
  BY <1>3, <1>7 DEF IInv, Shapes
<1>18. OneOrderPerActivation'
  BY <1>3 DEF IInv, OneOrderPerActivation
<1>19. \A r \in replies' : r \in replies /\ r.to.id[1] # a
  BY <1>3, NoReply
<1> QED BY <1>3, <1>13, <1>15, <1>16, <1>17, <1>18, <1>19, StepAt

LEMMA ReceiveInv ==
    ASSUME IInv, NEW a \in Activations, Receive(a)
    PROVE  IInv'
<1>1. PICK r \in replies : /\ Awaits(a, r.to)
                           /\ \E got \in Arrivals(r.response) :
                                LET result == Result(call[a].via, got)
                                IN  call' = [call EXCEPT ![a] =
                                       [@ EXCEPT !.pc = "returned", !.err = result.err, !.card = result.card,
                                                 !.order = result.order,
                                                 !.code = IF IsAPIError(result.err) THEN got.code ELSE 0]]
  BY DEF Receive
<1>2. PICK got \in Arrivals(r.response) :
         LET result == Result(call[a].via, got)
         IN  call' = [call EXCEPT ![a] =
                [@ EXCEPT !.pc = "returned", !.err = result.err, !.card = result.card,
                          !.order = result.order,
                          !.code = IF IsAPIError(result.err) THEN got.code ELSE 0]]
  BY <1>1
<1>3. PICK result : result = Result(call[a].via, got)
  OBVIOUS
<1>4. PICK code : code = IF IsAPIError(result.err) THEN got.code ELSE 0
  OBVIOUS
<1>5. PICK t : t = [call[a] EXCEPT !.pc = "returned", !.err = result.err, !.card = result.card,
                                   !.order = result.order, !.code = code]
  OBVIOUS
<1>6. call' = [call EXCEPT ![a] = t]
  BY <1>2, <1>3, <1>4, <1>5
<1>7. replies' = RepliesWithout(a) /\ UNCHANGED <<poll, wire, orders, believed, orderOf>>
  BY DEF Receive, serviceVars
<1>8. ReplyTrue(r) /\ call[a].pc = "sent" /\ r.to.id[1] = a
  BY <1>1 DEF IInv, Awaits, RequestId
<1>9. AnswerTrue(a, r.response) /\ r.response \in ResponseType /\ ~Requested(a)
  BY <1>8 DEF ReplyTrue
<1>10. call[a] \in CallType /\ ActivationTrue(a) /\ believed[a] = "open" /\ call[a].try > 0
  BY <1>8 DEF IInv, Shapes, ActivationTrue
<1>11. t = [pc |-> "returned", via |-> call[a].via, type |-> call[a].type, try |-> call[a].try,
            err |-> result.err, code |-> code, card |-> result.card, order |-> result.order]
  BY <1>5, <1>10 DEF CallType
<1>12. /\ t.pc = "returned" /\ t.via = call[a].via /\ t.err = result.err /\ t.card = result.card
       /\ t.order = result.order /\ t.code = code /\ t.try = call[a].try
  BY ONLY <1>11
<1>13. /\ ResultTrue(a, t)
       /\ t.err \in Errors \cup {"PendingError"} /\ t.code \in Nat /\ t.card \in Nat /\ t.order \in Nat
  <2>1. Shapes
    BY DEF IInv
  <2>2. t.code = IF IsAPIError(result.err) THEN got.code ELSE 0
    BY <1>4, <1>12
  <2> QED BY <1>3, <1>9, <1>12, <2>1, <2>2, AnsweredResult
<1>14. t \in CallType
  <2>1. result.err \in Errors \cup {"PendingError"} /\ code \in Nat /\ result.card \in Nat /\ result.order \in Nat
    BY <1>12, <1>13
  <2>2. call[a].via \in {"direct", "callback"} /\ call[a].type \in CardTypes /\ call[a].try \in 0..MaxAttempts
    BY <1>10 DEF CallType
  <2> QED BY ONLY <1>11, <2>1, <2>2 DEF CallType
<1>15. OrdersGrow /\ Quiet(a)
  BY <1>7, SameOrders DEF IInv, Quiet, Ordered, Requested
<1>16. ResultTrue(a, t)' /\ BeliefTrue(a)'
  BY <1>7, <1>10, <1>13, <1>15, ResultStays, BeliefStays DEF ActivationTrue
<1>17. call'[a] = t
  BY <1>6 DEF IInv, Shapes
<1>18. ResultTrue(a, call[a])'
  BY <1>16, <1>17 DEF ResultTrue
<1>19. ActivationTrue(a)'
  BY <1>7, <1>10, <1>12, <1>16, <1>17, <1>18 DEF ActivationTrue
<1>20. \A s \in replies' : s \in replies /\ s.to.id[1] # a
  BY <1>7, RestReplies
<1> QED BY <1>6, <1>7, <1>14, <1>19, <1>20, CallStepAt

LEMMA AcknowledgeInv ==
    ASSUME IInv, NEW a \in Activations, Acknowledge(a)
    PROVE  IInv'
<1>1. PICK c : c = call[a]
  OBVIOUS
<1>2. PICK t : t = [IdleCall EXCEPT !.try = c.try]
  OBVIOUS
<1>3. PICK b : b = Learned(c)
  OBVIOUS
<1>4. /\ c.pc = "returned"
      /\ believed' = [believed EXCEPT ![a] = b]
      /\ orderOf' = [orderOf EXCEPT ![a] = c.card + c.order]
      /\ call' = [call EXCEPT ![a] = t]
      /\ UNCHANGED <<poll, wire, replies, orders>>
  BY <1>1, <1>2, <1>3 DEF Acknowledge
<1>5. c \in CallType /\ ResultTrue(a, c) /\ believed[a] = "open"
  BY <1>1, <1>4 DEF IInv, Shapes, ActivationTrue
<1>6. c.card \in Nat /\ c.order \in Nat /\ c.try \in 0..MaxAttempts
  BY <1>5 DEF CallType
<1>7. t = [pc |-> "idle", via |-> "direct", type |-> "virtual", try |-> c.try,
           err |-> NoError, code |-> 0, card |-> 0, order |-> 0]
  BY <1>2 DEF IdleCall
<1>8. t \in CallType /\ t.pc = "idle"
  <2>1. NoError \in Errors \cup {"PendingError"} /\ "virtual" \in CardTypes
    BY DEF Errors, CardTypes, CardTypeNames
  <2> QED BY <1>6, <1>7, <2>1 DEF CallType
<1>9. b \in Beliefs
  BY <1>3 DEF Learned, Beliefs
<1>10. /\ call'[a] = t /\ call' \in [Activations -> CallType]
       /\ \A x \in Activations \ {a} : call'[x] = call[x]
  BY <1>4, <1>8 DEF IInv, Shapes
<1>11. /\ believed'[a] = b /\ believed' \in [Activations -> Beliefs]
       /\ \A x \in Activations \ {a} : believed'[x] = believed[x]
  BY <1>4, <1>9 DEF IInv, Shapes
<1>12. /\ orderOf'[a] = c.card + c.order /\ orderOf' \in [Activations -> Nat]
       /\ \A x \in Activations \ {a} : orderOf'[x] = orderOf[x]
  BY <1>4, <1>6 DEF IInv, Shapes
<1>13. OrdersGrow /\ \A x : Quiet(x)
  BY <1>4, SameOrders DEF IInv, Quiet, Ordered, Requested
<1>14. OnlyAt(a)
  BY <1>10, <1>11, <1>12, <1>13 DEF OnlyAt
<1>15. Shapes'
  BY <1>4, <1>10, <1>11, <1>12 DEF IInv, Shapes
<1>16. OneOrderPerActivation'
  BY <1>4 DEF IInv, OneOrderPerActivation
<1>17. \A m \in wire' : RequestTrue(m)'
  BY <1>4 DEF IInv, RequestTrue, Ordered
<1>18. \A r \in replies' : r \in replies /\ r.to.id[1] # a
  BY <1>1, <1>4, NoReply
<1>19. BeliefTrue(a)'
  <2>1. CASE c.card # 0
    <3>1. b = "active" /\ orderOf'[a] = c.card
      BY <1>3, <1>5, <1>6, <1>12, <2>1 DEF Learned, ResultTrue
    <3>2. OrderIs(a, c.card, {"active"})'
      BY <1>5, <1>13, <2>1, OrderStays DEF ResultTrue
    <3> QED BY <1>11, <3>1, <3>2 DEF BeliefTrue, OrderIs
  <2>2. CASE c.card = 0 /\ c.order # 0
    <3>1. b = "pending" /\ orderOf'[a] = c.order
      BY <1>3, <1>5, <1>6, <1>12, <2>2 DEF Learned, ResultTrue
    <3>2. OrderIs(a, c.order, OrderStates)'
      BY <1>5, <1>13, <2>2, OrderStays DEF ResultTrue
    <3> QED BY <1>11, <3>1, <3>2 DEF BeliefTrue, OrderIs, OrderStates
  <2>3. CASE c.card = 0 /\ c.order = 0
    <3>1. b \in {"open", "unclear"}
      BY <1>3, <2>3 DEF Learned
    <3> QED BY <1>11, <3>1 DEF BeliefTrue
  <2> QED BY <2>1, <2>2, <2>3
<1>20. b = "open" => ~Ordered(a)' /\ ~Requested(a)'
  <2>1. b = "open" => Refused(c)
    BY <1>3 DEF Learned
  <2> QED BY <1>5, <1>13, <2>1 DEF ResultTrue, Quiet
<1>21. ActivationTrue(a)'
  BY <1>8, <1>10, <1>11, <1>19, <1>20 DEF ActivationTrue
<1> QED BY <1>4, <1>5, <1>14, <1>15, <1>16, <1>17, <1>18, <1>21, StepAt

-----------------------------------------------------------------------------
(* IBS.                                                                    *)

\* A new order of activation a.
LEMMA Placed ==
    ASSUME IInv, NEW m \in wire, NEW state \in OrderStates, Place(m, state), NEW k, k = Len(orders) + 1
    PROVE  /\ OrdersGrow /\ orders' \in Seq([of : Activations, state : OrderStates])
           /\ OneOrderPerActivation'
           /\ \A b : b # m.id[1] => (Ordered(b)' => Ordered(b))
           /\ OrderIs(m.id[1], k, {state})'
<1>1. PICK o : o = [of |-> m.id[1], state |-> state]
  OBVIOUS
<1>2. orders' = Append(orders, o) /\ orders \in Seq([of : Activations, state : OrderStates])
  BY <1>1 DEF Place, IInv, Shapes
<1>3. m.id[1] \in Activations /\ ~Ordered(m.id[1])
  BY DEF IInv, RequestTrue, RequestType
<1>4. o \in [of : Activations, state : OrderStates] /\ o.of = m.id[1] /\ o.state = state
  BY <1>1, <1>3
<1>5. /\ Len(orders) \in Nat /\ DOMAIN orders = 1..Len(orders)
      /\ \A n \in DOMAIN orders : orders[n].of \in Activations /\ orders[n].state \in OrderStates
  BY OrderShape DEF IInv
<1>6. orders' \in Seq([of : Activations, state : OrderStates])
  BY <1>2, <1>4
<1>7. ASSUME NEW S, orders \in Seq(S), o \in S
      PROVE  /\ DOMAIN orders' = 1..k
             /\ \A n \in 1..Len(orders) : orders'[n] = orders[n]
             /\ orders'[k] = o
  BY <1>2, <1>7
<1>8. /\ DOMAIN orders' = DOMAIN orders \cup {k} /\ k \notin DOMAIN orders
      /\ \A n \in DOMAIN orders : orders'[n] = orders[n]
      /\ orders'[k] = o
  <2>1. /\ DOMAIN orders' = 1..k
        /\ \A n \in 1..Len(orders) : orders'[n] = orders[n]
        /\ orders'[k] = o
    BY <1>2, <1>4, <1>7
  <2> QED BY <1>5, <2>1
<1>9. OrdersGrow
  BY <1>5, <1>8 DEF OrdersGrow
<1>10. OneOrderPerActivation'
  BY <1>3, <1>4, <1>8 DEF IInv, OneOrderPerActivation, Ordered
<1>11. \A b : b # m.id[1] => (Ordered(b)' => Ordered(b))
  BY <1>4, <1>8 DEF Ordered
<1>12. OrderIs(m.id[1], k, {state})'
  BY <1>4, <1>8 DEF OrderIs
<1> QED BY <1>6, <1>9, <1>10, <1>11, <1>12

LEMMA NotPlaced ==
    ASSUME IInv, UNCHANGED orders
    PROVE  /\ OrdersGrow /\ orders' \in Seq([of : Activations, state : OrderStates])
           /\ OneOrderPerActivation'
           /\ \A b : Ordered(b)' <=> Ordered(b)
BY SameOrders DEF IInv, Shapes, OneOrderPerActivation, Ordered

\* Request m is read, and answered if somebody waits.
LEMMA ReadInv ==
    ASSUME IInv, NEW m \in wire, wire' = wire \ {m}, UNCHANGED <<believed, orderOf, call, poll>>,
           OrdersGrow, orders' \in Seq([of : Activations, state : OrderStates]), OneOrderPerActivation',
           \A b : b # m.id[1] => (Ordered(b)' => Ordered(b)),
           NEW res, \A r \in replies' : \/ r \in replies
                                        \/ /\ r.to = m /\ r.response = res /\ res \in ResponseType
                                           /\ Awaits(m.id[1], m) /\ AnswerTrue(m.id[1], res)'
    PROVE  IInv'
<1>1. PICK a : a = m.id[1]
  OBVIOUS
<1>2. RequestTrue(m) /\ a \in Activations /\ Requested(a) /\ ActivationTrue(a)
  BY <1>1 DEF IInv, RequestTrue, RequestType, Requested
<1>3. ~Requested(a)'
  BY <1>1, <1>2 DEF RequestTrue, Requested
<1>4. \A b : b # a => Quiet(b)
  BY <1>1 DEF Quiet, Requested
<1>5. OnlyAt(a)
  BY <1>4 DEF OnlyAt
<1>6. Shapes'
  BY DEF IInv, Shapes
<1>7. BeliefTrue(a)'
  BY <1>2, BeliefStays DEF ActivationTrue
<1>8. call[a].pc = "returned" => ResultTrue(a, call[a])'
  <2>1. PICK c : c = call[a]
    OBVIOUS
  <2>2. ASSUME ResultTrue(a, c) PROVE ResultTrue(a, c)'
    BY <1>2, <2>2, OrderStays DEF ResultTrue
  <2>3. ResultTrue(a, c)' => ResultTrue(a, call[a])'
    BY <2>1 DEF ResultTrue
  <2> QED BY <1>2, <2>1, <2>2, <2>3 DEF ActivationTrue
<1>9. ActivationTrue(a)'
  BY <1>2, <1>7, <1>8 DEF ActivationTrue
<1>10. ASSUME NEW n \in wire' PROVE RequestTrue(n)'
  <2>1. RequestTrue(n) /\ n.id[1] # a
    BY <1>1, <1>2 DEF IInv, RequestTrue
  <2> QED BY <1>1, <2>1 DEF RequestTrue
<1>11. ASSUME NEW r \in replies' PROVE (r \in replies /\ r.to.id[1] # a) \/ ReplyTrue(r)'
  <2>1. CASE r \in replies
    BY <1>2, <2>1 DEF IInv, ReplyTrue
  <2>2. CASE r.to = m /\ r.response = res /\ res \in ResponseType /\ Awaits(m.id[1], m) /\ AnswerTrue(m.id[1], res)'
    <3>1. Awaits(a, m)'
      BY <1>1, <2>2 DEF Awaits, RequestId
    <3>2. m \in RequestType
      BY <1>2 DEF RequestTrue
    <3> QED BY <1>1, <1>3, <2>2, <3>1, <3>2 DEF ReplyTrue
  <2> QED BY <2>1, <2>2
<1> QED BY <1>2, <1>5, <1>6, <1>9, <1>10, <1>11, StepAt

\* What Answer adds to the replies.
LEMMA Answered ==
    ASSUME NEW m \in wire, NEW code \in Nat, NEW body \in Bodies, NEW kind \in {"card", "order", "none"},
           NEW number \in Nat, NEW res, res = [code |-> code, body |-> body, kind |-> kind, number |-> number],
           Answer(m, code, body, kind, number)
    PROVE  /\ wire' = wire \ {m} /\ res \in ResponseType
           /\ \A r \in replies' : r \in replies \/ (r.to = m /\ r.response = res /\ Awaits(m.id[1], m))
<1>1. res \in ResponseType
  BY DEF ResponseType
<1>2. ASSUME \E a \in Activations : Awaits(a, m) PROVE Awaits(m.id[1], m)
  BY <1>2 DEF Awaits, RequestId
<1>3. CASE \E a \in Activations : Awaits(a, m)
  <2>1. replies' = replies \cup {[to |-> m, response |-> res]}
    BY <1>3 DEF Answer
  <2> QED BY <1>1, <1>2, <1>3, <2>1 DEF Answer
<1>4. CASE ~\E a \in Activations : Awaits(a, m)
  BY <1>1, <1>4 DEF Answer
<1> QED BY <1>3, <1>4

LEMMA CreateInv ==
    ASSUME IInv, NEW m \in wire, NEW kind, NEW state,
           \/ kind = "card" /\ state = "active"
           \/ kind = "order" /\ state = "pending",
           Place(m, state), Answer(m, 200, "goodData", kind, Len(orders) + 1),
           UNCHANGED <<believed, orderOf, call, poll>>
    PROVE  IInv'
<1>0. PICK k : k = Len(orders) + 1
  OBVIOUS
<1>1. PICK res : res = [code |-> 200, body |-> "goodData", kind |-> kind, number |-> k]
  OBVIOUS
<1>2. state \in OrderStates /\ kind \in {"card", "order", "none"} /\ "goodData" \in Bodies /\ k \in Nat
  BY <1>0, OrderShape DEF OrderStates, Bodies, IInv
<1>3. /\ OrdersGrow /\ orders' \in Seq([of : Activations, state : OrderStates])
      /\ OneOrderPerActivation'
      /\ \A b : b # m.id[1] => (Ordered(b)' => Ordered(b))
      /\ OrderIs(m.id[1], k, {state})'
  BY <1>0, <1>2, Placed
<1>4. /\ wire' = wire \ {m} /\ res \in ResponseType
      /\ \A r \in replies' : r \in replies \/ (r.to = m /\ r.response = res /\ Awaits(m.id[1], m))
  BY <1>0, <1>1, <1>2, Answered
<1>5. res.code = 200 /\ res.body = "goodData" /\ res.kind = kind /\ res.number = k
  BY ONLY <1>1
<1>6. AnswerTrue(m.id[1], res)'
  <2>1. OrderIs(m.id[1], res.number, {state})'
    BY <1>3, <1>5 DEF OrderIs
  <2>2. OrderIs(m.id[1], res.number, OrderStates)'
    BY <1>2, <2>1 DEF OrderIs
  <2> QED BY <1>5, <2>1, <2>2 DEF AnswerTrue
<1> QED BY <1>3, <1>4, <1>6, ReadInv

RefusalCode(code) == code \in {400, 409, 429, 500}

LEMMA RefuseInv ==
    ASSUME IInv, NEW m \in wire, NEW code, RefusalCode(code), Answer(m, code, "statusFalse", "none", 0),
           (Place(m, "pending") /\ code = 500) \/ UNCHANGED orders,
           UNCHANGED <<believed, orderOf, call, poll>>
    PROVE  IInv'
<1>1. PICK res : res = [code |-> code, body |-> "statusFalse", kind |-> "none", number |-> 0]
  OBVIOUS
<1>2. /\ "pending" \in OrderStates /\ "statusFalse" \in Bodies /\ ~Ordered(m.id[1])
      /\ code \in Nat /\ 0 \in Nat
  BY DEF OrderStates, Bodies, IInv, RequestTrue, RefusalCode
<1>3. /\ OrdersGrow /\ orders' \in Seq([of : Activations, state : OrderStates])
      /\ OneOrderPerActivation'
      /\ \A b : b # m.id[1] => (Ordered(b)' => Ordered(b))
      /\ code = 500 \/ ~Ordered(m.id[1])'
  <2>1. CASE Place(m, "pending") /\ code = 500
    <3>1. PICK state : state = "pending"
      OBVIOUS
    <3>2. state \in OrderStates /\ Place(m, state)
      BY <1>2, <2>1, <3>1
    <3>3. PICK k : k = Len(orders) + 1
      OBVIOUS
    <3>4. /\ OrdersGrow /\ orders' \in Seq([of : Activations, state : OrderStates])
          /\ OneOrderPerActivation'
          /\ \A b : b # m.id[1] => (Ordered(b)' => Ordered(b))
      BY <3>2, <3>3, Placed
    <3> QED BY <2>1, <3>4
  <2>2. CASE UNCHANGED orders
    BY <1>2, <2>2, NotPlaced
  <2> QED BY <2>1, <2>2
<1>4. /\ wire' = wire \ {m} /\ res \in ResponseType
      /\ \A r \in replies' : r \in replies \/ (r.to = m /\ r.response = res /\ Awaits(m.id[1], m))
  BY <1>1, <1>2, Answered
<1>5. res.code = code /\ res.body = "statusFalse"
  BY ONLY <1>1
<1>6. AnswerTrue(m.id[1], res)'
  BY <1>3, <1>5 DEF AnswerTrue, RefusalCode
<1>7. \A r \in replies' : \/ r \in replies
                          \/ /\ r.to = m /\ r.response = res /\ res \in ResponseType
                             /\ Awaits(m.id[1], m) /\ AnswerTrue(m.id[1], res)'
  BY <1>4, <1>6
<1> QED BY <1>3, <1>4, <1>7, ReadInv

LEMMA ServerInv ==
    ASSUME IInv, NEW m \in wire, ServerStep(m)
    PROVE  IInv'
<1>1. CASE CreateCard(m)
  <2>1. PICK kind, state : kind = "card" /\ state = "active"
    BY Zenon
  <2>2. /\ Place(m, state) /\ Answer(m, 200, "goodData", kind, Len(orders) + 1)
        /\ UNCHANGED <<believed, orderOf, call, poll>>
    BY <1>1, <2>1 DEF CreateCard, serviceVars
  <2> QED BY <2>1, <2>2, CreateInv
<1>2. CASE QueueOrder(m)
  BY <1>2, CreateInv DEF QueueOrder, serviceVars
<1>3. CASE Decline(m)
  BY <1>3, RefuseInv DEF Decline, serviceVars, RefusalCode
<1>4. CASE Fail(m)
  BY <1>4, RefuseInv DEF Fail, serviceVars, RefusalCode
<1>5. CASE Lose(m)
  <2>1. wire' = wire \ {m} /\ UNCHANGED <<believed, orderOf, call, poll, replies, orders>>
    BY <1>5 DEF Lose, serviceVars
  <2> QED BY <2>1, NotPlaced, ReadInv
<1> QED BY <1>1, <1>2, <1>3, <1>4, <1>5 DEF ServerStep

LEMMA SettleInv ==
    ASSUME IInv, NEW n \in DOMAIN orders, NEW state \in {"active", "rejected"}, Settle(n, state)
    PROVE  IInv'
<1>1. /\ orders[n].state = "pending" /\ orders' = [orders EXCEPT ![n].state = state]
      /\ UNCHANGED <<believed, orderOf, call, poll, wire, replies>>
  BY DEF Settle, serviceVars
<1>2. /\ Len(orders) \in Nat /\ DOMAIN orders = 1..Len(orders)
      /\ \A i \in DOMAIN orders : orders[i].of \in Activations /\ orders[i].state \in OrderStates
  BY OrderShape DEF IInv
<1>3. orders \in Seq([of : Activations, state : OrderStates])
  BY DEF IInv, Shapes
<1>4. ASSUME NEW S, orders \in Seq(S) PROVE orders[n] \in S
  BY <1>4
<1>5. PICK o : o = [of |-> orders[n].of, state |-> state]
  OBVIOUS
<1>6. orders' = [orders EXCEPT ![n] = o]
  <2>1. orders[n] \in [of : Activations, state : OrderStates]
    BY <1>3, <1>4
  <2>2. [orders[n] EXCEPT !.state = state] = o
    BY <1>5, <2>1
  <2>3. orders' = [orders EXCEPT ![n] = [orders[n] EXCEPT !.state = state]]
    BY <1>1
  <2> QED BY <2>2, <2>3
<1>7. o.of = orders[n].of /\ o.state = state /\ o \in [of : Activations, state : OrderStates]
  BY <1>2, <1>5 DEF OrderStates
<1>8. ASSUME NEW S, orders \in Seq(S), o \in S PROVE orders' \in Seq(S)
  BY <1>6, <1>8
<1>9. orders' \in Seq([of : Activations, state : OrderStates])
  BY <1>3, <1>7, <1>8
<1>10. DOMAIN orders' = DOMAIN orders /\ \A i \in DOMAIN orders : orders'[i] = IF i = n THEN o ELSE orders[i]
  BY <1>6
<1>11. OrdersGrow
  BY <1>1, <1>2, <1>7, <1>10 DEF OrdersGrow, OrderStates
<1>12. \A i \in DOMAIN orders : orders'[i].of = orders[i].of
  BY <1>7, <1>10
<1>13. \A b : Quiet(b)
  BY <1>1, <1>10, <1>12 DEF Quiet, Ordered, Requested
<1>14. OneOrderPerActivation'
  BY <1>10, <1>12 DEF IInv, OneOrderPerActivation
<1>15. Shapes'
  BY <1>1, <1>9 DEF IInv, Shapes
<1>16. \A a \in Activations : ActivationTrue(a)'
  BY <1>1, <1>11, <1>13, ActivationStays DEF IInv
<1>17. ASSUME NEW p \in Pollers PROVE PollTrue(p)'
  <2>1. poll[p].knew \subseteq Activations
    BY DEF IInv, Shapes, PollType
  <2>2. \A b \in Activations : believed[b] # "open" => believed'[b] # "open" /\ orderOf'[b] = orderOf[b]
    BY <1>1
  <2> QED BY <1>1, <1>11, <2>1, <2>2, PollStays DEF IInv
<1>18. \A m \in wire' : RequestTrue(m)'
  BY <1>1, <1>13 DEF IInv, RequestTrue, Quiet
<1>19. \A r \in replies' : ReplyTrue(r)'
  BY <1>1, <1>11, <1>13, ReplyStays DEF IInv
<1> QED BY <1>14, <1>15, <1>16, <1>17, <1>18, <1>19 DEF IInv

LEMMA ReverseInv ==
    ASSUME IInv, NEW n \in DOMAIN orders, NEW a \in Activations, ReverseCallback(n, a)
    PROVE  IInv'
<1>1. /\ orders[n].state = "rejected" /\ believed[a] = "pending" /\ orderOf[a] = n
      /\ believed' = [believed EXCEPT ![a] = "rejected"]
      /\ UNCHANGED <<orderOf, call, poll, wire, replies, orders>>
  BY DEF ReverseCallback
<1>2. ActivationTrue(a) /\ call[a].pc = "idle"
  <2>1. ActivationTrue(a)
    BY DEF IInv
  <2> QED BY <1>1, <2>1 DEF ActivationTrue
<1>3. OrderIs(a, n, {"rejected"})
  BY <1>1, <1>2 DEF ActivationTrue, BeliefTrue, OrderIs
<1>4. /\ believed' \in [Activations -> Beliefs] /\ believed'[a] = "rejected"
      /\ \A b \in Activations \ {a} : believed'[b] = believed[b]
  BY <1>1 DEF IInv, Shapes, Beliefs
<1>5. OrdersGrow /\ \A b : Quiet(b)
  BY <1>1, SameOrders DEF IInv, Quiet, Ordered, Requested
<1>6. OnlyAt(a)
  BY <1>1, <1>4, <1>5 DEF OnlyAt
<1>7. BeliefTrue(a)'
  BY <1>1, <1>3, <1>4 DEF BeliefTrue, OrderIs
<1>8. ActivationTrue(a)'
  BY <1>1, <1>2, <1>4, <1>7 DEF ActivationTrue
<1>9. Shapes'
  BY <1>1, <1>4 DEF IInv, Shapes
<1>10. OneOrderPerActivation'
  BY <1>1 DEF IInv, OneOrderPerActivation
<1>11. \A m \in wire' : RequestTrue(m)'
  BY <1>1 DEF IInv, RequestTrue, Ordered
<1>12. \A r \in replies' : r \in replies /\ r.to.id[1] # a
  BY <1>1, <1>2, NoReply
<1> QED BY <1>1, <1>4, <1>6, <1>8, <1>9, <1>10, <1>11, <1>12, StepAt

-----------------------------------------------------------------------------
(* GetCardPendings.                                                        *)

LEMMA StringFields ==
    ASSUME NEW text
    PROVE  String(text).text = text
BY DEF String

LEMMA StringSelects ==
    ASSUME NEW text, NEW fact
    PROVE  Selects(String(text), fact) <=> text \in {"", fact}
<1>1. ASSUME String(text) = String(fact) PROVE text = fact
  <2>1. String(text).text = String(fact).text
    BY <1>1, Zenon
  <2> QED BY <2>1, StringFields
<1>2. IsBlank(String(text)) <=> text = ""
  BY StringFields DEF IsBlank
<1> QED BY <1>1, <1>2, Zenon DEF Selects

\* An id is sent as it is spelled, without the white space around it.
LEMMA IdSelects ==
    ASSUME NEW s \in Strings, NEW id
    PROVE  Selects(TrimSpace(s), id) <=> AsksId(s, id)
<1> PICK t : t = TrimSpace(s)
  OBVIOUS
<1>1. t.text = s.text /\ t = [text |-> s.text, padded |-> FALSE, upper |-> s.upper]
  BY DEF TrimSpace
<1>2. s.upper \in BOOLEAN
  BY DEF Strings
<1>3. t = String(id) <=> s.text = id /\ s.upper = FALSE
  <2>1. ASSUME t = String(id) PROVE s.text = id /\ s.upper = FALSE
    <3>1. t.text = id /\ t.upper = FALSE
      BY <2>1 DEF String
    <3>2. t.upper = s.upper
      BY <1>1
    <3> QED BY <1>1, <3>1, <3>2
  <2>2. ASSUME s.text = id, s.upper = FALSE PROVE t = String(id)
    BY <1>1, <2>2 DEF String
  <2> QED BY <2>1, <2>2
<1> QED BY <1>1, <1>2, <1>3, Zenon DEF Selects, IsBlank, AsksId

\* A query selects every order that it means.
LEMMA QueryMeans ==
    ASSUME NEW q \in PendingQueries, NEW n \in DOMAIN orders, Means(q, orders[n].of)
    PROVE  Matches(n, Parameters(q))
<1>1. q.userID \in Strings /\ q.cardType \in Strings
  BY DEF PendingQueries
<1>2. Selects(TrimSpace(q.userID), UserOf[orders[n].of])
  BY <1>1, IdSelects DEF Means
<1>3. Selects(Fallback(q.userID, String("")), UserOf[orders[n].of])
  BY <1>2 DEF Fallback, IsBlank, Selects, TrimSpace, String
<1>4. Filter(q.cardType) = String(q.cardType.text)
  BY DEF Filter, ToLower, TrimSpace, String
<1>5. Selects(String(q.cardType.text), CardType[orders[n].of])
  <2>1. q.cardType.text \in {"", CardType[orders[n].of]}
    BY DEF Means, AsksName
  <2> QED BY ONLY <2>1, StringSelects, Zenon
<1>6. Parameters(q).user_id = Fallback(q.userID, String("")) /\ Parameters(q).card_type = String(q.cardType.text)
  BY <1>4 DEF Parameters, PendingParameters, BareClient
<1> QED BY <1>3, <1>5, <1>6, Zenon DEF Matches

\* What is left to show of a step that poller p takes alone.
LEMMA PollStepAt ==
    ASSUME IInv, NEW p \in Pollers, NEW t \in PollType, poll' = [poll EXCEPT ![p] = t],
           UNCHANGED <<believed, orderOf, call, wire, replies, orders>>, PollTrue(p)'
    PROVE  IInv'
<1>1. OrdersGrow /\ \A b : Quiet(b)
  BY SameOrders DEF IInv, Quiet, Ordered, Requested
<1>2. Shapes'
  BY DEF IInv, Shapes
<1>3. OneOrderPerActivation'
  BY DEF IInv, OneOrderPerActivation
<1>4. \A a \in Activations : ActivationTrue(a)'
  BY <1>1, ActivationStays DEF IInv
<1>5. ASSUME NEW q \in Pollers PROVE PollTrue(q)'
  <2>1. CASE q = p
    BY <2>1
  <2>2. CASE q # p
    <3>1. poll'[q] = poll[q] /\ poll[q].knew \subseteq Activations /\ PollTrue(q)
      BY <2>2 DEF IInv, Shapes, PollType
    <3>2. \A b \in Activations : believed[b] # "open" => believed'[b] # "open" /\ orderOf'[b] = orderOf[b]
      OBVIOUS
    <3> QED BY <1>1, <3>1, <3>2, PollStays
  <2> QED BY <2>1, <2>2
<1>6. \A m \in wire' : RequestTrue(m)'
  BY DEF IInv, RequestTrue, Ordered
<1>7. \A r \in replies' : ReplyTrue(r)'
  BY <1>1, ReplyStays DEF IInv
<1> QED BY <1>2, <1>3, <1>4, <1>5, <1>6, <1>7 DEF IInv

\* A poller that is idle again claims nothing.
LEMMA IdleClaims ==
    ASSUME NEW p \in Pollers, NEW try \in 0..MaxPolls, NEW t, t = [IdlePoll EXCEPT !.try = try]
    PROVE  t \in PollType /\ t.pc = "idle" /\ t.knew = {} /\ t.rejected = {} /\ t.rows = {}
<1>1. t = [pc |-> "idle", try |-> try, asked |-> NoQuery, knew |-> {}, rejected |-> {}, rows |-> {}]
  BY DEF IdlePoll
<1>2. NoQuery \in PollQueries \cup {NoQuery} /\ {} \in SUBSET Activations /\ {} \in SUBSET Nat
  OBVIOUS
<1> QED BY ONLY <1>1, <1>2, try \in 0..MaxPolls DEF PollType

LEMMA RefuseFilterInv ==
    ASSUME IInv, NEW p \in Pollers, NEW q \in PollQueries, RefuseFilter(p, q)
    PROVE  IInv'
<1>1. PICK t : t = [poll[p] EXCEPT !.try = poll[p].try + 1]
  OBVIOUS
<1>2. poll[p] \in PollType /\ MaxPolls \in Nat /\ PollTrue(p)
  BY ActivationAssumption DEF IInv, Shapes, ActivationAssumption
<1>3. poll[p].try < MaxPolls /\ UNCHANGED <<believed, orderOf, call, wire, replies, orders>>
  BY DEF RefuseFilter, serviceVars
<1>4. poll' = [poll EXCEPT ![p] = t]
  BY <1>1, <1>2 DEF RefuseFilter
<1>5. /\ t \in PollType /\ t.pc = poll[p].pc /\ t.asked = poll[p].asked /\ t.knew = poll[p].knew
      /\ t.rejected = poll[p].rejected /\ t.rows = poll[p].rows
  BY <1>1, <1>2, <1>3 DEF PollType
<1>6. poll'[p] = t
  BY <1>4 DEF IInv, Shapes
<1>7. PollTrue(p)'
  BY <1>2, <1>3, <1>5, <1>6 DEF PollTrue, OrderIs, Means
<1> QED BY <1>3, <1>4, <1>5, <1>7, PollStepAt

LEMMA StartPollInv ==
    ASSUME IInv, NEW p \in Pollers, NEW q \in PollQueries, StartPoll(p, q)
    PROVE  IInv'
<1>1. PICK knew : knew = {a \in Activations : believed[a] = "pending" /\ Means(q, a)}
  OBVIOUS
<1>2. PICK rejected : rejected = In("rejected")
  OBVIOUS
<1>3. PICK try : try = poll[p].try + 1
  OBVIOUS
<1>4. PICK t : t = [IdlePoll EXCEPT !.pc = "called", !.try = try, !.asked = q,
                                    !.rejected = rejected, !.knew = knew]
  OBVIOUS
<1>5. /\ poll[p].try < MaxPolls /\ poll' = [poll EXCEPT ![p] = t]
      /\ UNCHANGED <<believed, orderOf, call, wire, replies, orders>>
  BY <1>1, <1>2, <1>3, <1>4 DEF StartPoll, serviceVars
<1>6. poll[p] \in PollType /\ MaxPolls \in Nat
  BY ActivationAssumption DEF IInv, Shapes, ActivationAssumption
<1>7. t = [pc |-> "called", try |-> try, asked |-> q, knew |-> knew, rejected |-> rejected, rows |-> {}]
  BY <1>4 DEF IdlePoll
<1>8. knew \subseteq Activations /\ rejected \subseteq Nat /\ try \in 0..MaxPolls
  <2>1. DOMAIN orders \subseteq Nat
    BY OrderShape DEF IInv
  <2> QED BY <1>1, <1>2, <1>3, <1>5, <1>6, <2>1 DEF In, PollType
<1>9. /\ t \in PollType /\ t.pc = "called" /\ t.asked = q /\ t.knew = knew
      /\ t.rejected = rejected /\ t.rows = {}
  BY ONLY <1>7, <1>8, q \in PollQueries DEF PollType
<1>10. poll'[p] = t
  BY <1>5 DEF IInv, Shapes
<1>11. ASSUME NEW a \in knew
       PROVE  believed[a] # "open" /\ Means(q, a) /\ OrderIs(a, orderOf[a], OrderStates)
  <2>1. a \in Activations /\ believed[a] = "pending" /\ Means(q, a)
    BY <1>1
  <2>2. BeliefTrue(a)
    BY <2>1 DEF IInv, ActivationTrue
  <2> QED BY <2>1, <2>2 DEF BeliefTrue, OrderStates
<1>12. \A n \in rejected : n \in DOMAIN orders /\ orders[n].state = "rejected"
  BY <1>2 DEF In
<1>13. PollTrue(p)'
  BY <1>5, <1>9, <1>10, <1>11, <1>12 DEF PollTrue, OrderIs, Means
<1> QED BY <1>5, <1>9, <1>13, PollStepAt

LEMMA FailPollInv ==
    ASSUME IInv, NEW p \in Pollers, FailPoll(p)
    PROVE  IInv'
<1>1. PICK try : try = poll[p].try
  OBVIOUS
<1>2. PICK t : t = [IdlePoll EXCEPT !.try = try]
  OBVIOUS
<1>3. poll' = [poll EXCEPT ![p] = t] /\ UNCHANGED <<believed, orderOf, call, wire, replies, orders>>
  BY <1>1, <1>2 DEF FailPoll, serviceVars
<1>4. try \in 0..MaxPolls
  BY <1>1 DEF IInv, Shapes, PollType
<1>5. t \in PollType /\ t.pc = "idle" /\ t.knew = {} /\ t.rejected = {} /\ t.rows = {}
  BY <1>2, <1>4, IdleClaims
<1>6. poll'[p] = t
  BY <1>3 DEF IInv, Shapes
<1>7. PollTrue(p)'
  BY <1>5, <1>6 DEF PollTrue
<1> QED BY <1>3, <1>5, <1>7, PollStepAt

LEMMA FetchInv ==
    ASSUME IInv, NEW p \in Pollers, FetchPendings(p)
    PROVE  IInv'
<1>1. PICK asked : asked = poll[p].asked
  OBVIOUS
<1>2. PICK spelling \in {"lower", "other"} :
        LET rows == {[number |-> n, state |-> orders[n].state, spelling |-> spelling] :
                        n \in {n \in In("pending") \cup In("rejected") : Matches(n, Parameters(asked))}}
        IN  poll' = [poll EXCEPT ![p].pc = "answered", ![p].rows = KeptRows(rows)]
  BY <1>1 DEF FetchPendings
<1>3. PICK rows : rows = {[number |-> n, state |-> orders[n].state, spelling |-> spelling] :
                             n \in {n \in In("pending") \cup In("rejected") : Matches(n, Parameters(asked))}}
  OBVIOUS
<1>4. PICK kept : kept = KeptRows(rows)
  OBVIOUS
<1>5. PICK t : t = [poll[p] EXCEPT !.pc = "answered", !.rows = kept]
  OBVIOUS
<1>6. poll[p] \in PollType /\ PollTrue(p) 
  BY DEF IInv, Shapes
<1>7. poll' = [poll EXCEPT ![p] = t]
  BY <1>2, <1>3, <1>4, <1>5 DEF IInv, Shapes
<1>8. poll[p].pc = "called" /\ UNCHANGED <<believed, orderOf, call, wire, replies, orders>>
  BY DEF FetchPendings, serviceVars
<1>9. asked \in PendingQueries
  BY <1>1, <1>6, <1>8, ActivationAssumption DEF PollTrue, ActivationAssumption
<1>10. ASSUME NEW n \in DOMAIN orders, orders[n].state = "pending", Matches(n, Parameters(asked))
      PROVE  n \in kept
  <2>1. PICK row : row = [number |-> n, state |-> orders[n].state, spelling |-> spelling]
    OBVIOUS
  <2>2. n \in In("pending")
    BY <1>10 DEF In
  <2>3. row \in rows
    BY <1>3, <1>10, <2>1, <2>2
  <2>4. row.number = n /\ row.state = "pending"
    BY <1>10, <2>1
  <2>5. ~IsRejected(row)
    BY <2>4 DEF IsRejected
  <2> QED BY <1>4, <2>3, <2>4, <2>5 DEF KeptRows
<1>11. ASSUME NEW n \in kept
       PROVE  n \in DOMAIN orders /\ orders[n].state # "rejected"
  <2>1. PICK row \in rows : ~IsRejected(row) /\ row.number = n
    BY <1>4 DEF KeptRows
  <2>2. PICK k \in In("pending") \cup In("rejected") : row = [number |-> k, state |-> orders[k].state, spelling |-> spelling]
    BY <1>3, <2>1
  <2>3. k = n /\ row.state = orders[n].state
    BY <2>1, <2>2
  <2>4. n \in DOMAIN orders
    BY <2>2, <2>3 DEF In
  <2> QED BY <2>1, <2>3, <2>4 DEF IsRejected
<1>12. kept \subseteq Nat
  BY <1>11, OrderShape DEF IInv
<1>13. /\ t \in PollType /\ t.pc = "answered" /\ t.asked = asked /\ t.knew = poll[p].knew
       /\ t.rejected = poll[p].rejected /\ t.rows = kept
  BY <1>1, <1>5, <1>6, <1>12 DEF PollType
<1>14. ASSUME NEW a \in poll[p].knew, orderOf[a] \notin kept
       PROVE  OrderIs(a, orderOf[a], {"active", "rejected"})
  <2>1. OrderIs(a, orderOf[a], OrderStates) /\ Means(asked, a)
    BY <1>1, <1>6 DEF PollTrue
  <2>2. orderOf[a] \in DOMAIN orders /\ orders[orderOf[a]].of = a
    BY <2>1 DEF OrderIs
  <2>3. Matches(orderOf[a], Parameters(asked))
    BY <1>9, <2>1, <2>2, QueryMeans
  <2>4. orders[orderOf[a]].state # "pending"
    BY <1>10, <1>14, <2>2, <2>3
  <2> QED BY <2>1, <2>4 DEF OrderIs, OrderStates
<1>15. kept \cap poll[p].rejected = {}
  BY <1>6, <1>11 DEF PollTrue
<1>16. poll'[p] = t
  BY <1>7 DEF IInv, Shapes
<1>17. PollTrue(p)'
  BY <1>1, <1>6, <1>8, <1>13, <1>14, <1>15, <1>16 DEF PollTrue, OrderIs, Means
<1> QED BY <1>7, <1>8, <1>13, <1>17, PollStepAt

LEMMA ReconcileInv ==
    ASSUME IInv, NEW p \in Pollers, Reconcile(p)
    PROVE  IInv'
<1>1. PICK try : try = poll[p].try
  OBVIOUS
<1>2. PICK t : t = [IdlePoll EXCEPT !.try = try]
  OBVIOUS
<1>3. /\ poll[p].pc = "answered" /\ poll' = [poll EXCEPT ![p] = t]
      /\ believed' = [a \in Activations |->
                         IF a \in poll[p].knew /\ believed[a] = "pending" /\ orderOf[a] \notin poll[p].rows
                         THEN "resolved" ELSE believed[a]]
      /\ UNCHANGED <<orderOf, call, wire, replies, orders>>
  BY <1>1, <1>2 DEF Reconcile
<1>4. try \in 0..MaxPolls
  BY <1>1 DEF IInv, Shapes, PollType
<1>5. t \in PollType /\ t.pc = "idle" /\ t.knew = {} /\ t.rejected = {} /\ t.rows = {}
  BY <1>2, <1>4, IdleClaims
<1>6. OrdersGrow /\ \A b : Quiet(b)
  BY <1>3, SameOrders DEF IInv, Quiet, Ordered, Requested
<1>7. ASSUME NEW a \in Activations PROVE ActivationTrue(a)'
  <2>1. CASE a \in poll[p].knew /\ believed[a] = "pending" /\ orderOf[a] \notin poll[p].rows
    <3>1. believed'[a] = "resolved"
      BY <1>3, <2>1
    <3>2. OrderIs(a, orderOf[a], {"active", "rejected"})
      BY <1>3, <2>1 DEF IInv, PollTrue
    <3>3. BeliefTrue(a)'
      BY <1>3, <3>1, <3>2 DEF BeliefTrue, OrderIs
    <3>4. ActivationTrue(a)
      BY DEF IInv
    <3> QED BY <1>3, <2>1, <3>1, <3>3, <3>4 DEF ActivationTrue
  <2>2. CASE ~(a \in poll[p].knew /\ believed[a] = "pending" /\ orderOf[a] \notin poll[p].rows)
    <3>1. believed'[a] = believed[a]
      BY <1>3, <2>2
    <3> QED BY <1>3, <1>6, <3>1, ActivationStays DEF IInv
  <2> QED BY <2>1, <2>2
<1>8. Shapes'
  BY <1>3, <1>5 DEF IInv, Shapes, Beliefs
<1>9. OneOrderPerActivation'
  BY <1>3 DEF IInv, OneOrderPerActivation
<1>10. poll'[p] = t
  BY <1>3 DEF IInv, Shapes
<1>11. ASSUME NEW q \in Pollers PROVE PollTrue(q)'
  <2>1. CASE q = p
    BY <1>5, <1>10, <2>1 DEF PollTrue
  <2>2. CASE q # p
    <3>1. poll'[q] = poll[q] /\ poll[q].knew \subseteq Activations /\ PollTrue(q)
      BY <1>3, <2>2 DEF IInv, Shapes, PollType
    <3>2. \A b \in Activations : believed[b] # "open" => believed'[b] # "open" /\ orderOf'[b] = orderOf[b]
      BY <1>3
    <3> QED BY <1>6, <3>1, <3>2, PollStays
  <2> QED BY <2>1, <2>2
<1>12. \A m \in wire' : RequestTrue(m)'
  BY <1>3 DEF IInv, RequestTrue, Ordered
<1>13. \A r \in replies' : ReplyTrue(r)'
  BY <1>3, <1>6, ReplyStays DEF IInv
<1> QED BY <1>7, <1>8, <1>9, <1>11, <1>12, <1>13 DEF IInv

-----------------------------------------------------------------------------
(* The invariant.                                                          *)

LEMMA InitInv == Init => IInv
<1> SUFFICES ASSUME Init PROVE IInv
  OBVIOUS
<1>1. /\ believed = [a \in Activations |-> "open"] /\ orderOf = [a \in Activations |-> 0]
      /\ call = [a \in Activations |-> IdleCall] /\ poll = [p \in Pollers |-> IdlePoll]
      /\ wire = {} /\ replies = {} /\ orders = << >>
  BY DEF Init
<1>2. IdleCall \in CallType /\ IdleCall.pc = "idle"
  BY ActivationAssumption DEF IdleCall, CallType, CardTypes, CardTypeNames, Errors, NoError, ActivationAssumption
<1>3. PICK t : t = [IdlePoll EXCEPT !.try = 0]
  OBVIOUS
<1>4. t = IdlePoll
  BY <1>3 DEF IdlePoll
<1>5. ASSUME NEW p \in Pollers
      PROVE  IdlePoll \in PollType /\ IdlePoll.pc = "idle" /\ IdlePoll.knew = {} /\ IdlePoll.rejected = {} /\ IdlePoll.rows = {}
  <2>1. 0 \in 0..MaxPolls
    BY ActivationAssumption DEF ActivationAssumption
  <2> QED BY <1>3, <1>4, <2>1, IdleClaims
<1>6. Shapes
  BY <1>1, <1>2, <1>5 DEF Shapes, Beliefs
<1>7. \A a \in Activations : ActivationTrue(a)
  BY <1>1, <1>2 DEF ActivationTrue, BeliefTrue, Ordered, Requested
<1>8. \A p \in Pollers : PollTrue(p)
  BY <1>1, <1>5 DEF PollTrue
<1> QED BY <1>1, <1>6, <1>7, <1>8 DEF IInv, OneOrderPerActivation

LEMMA StepInv == IInv /\ [Next]_vars => IInv'
<1> SUFFICES ASSUME IInv, [Next]_vars PROVE IInv'
  OBVIOUS
<1>1. ASSUME NEW a \in Activations, OrderStep(a) PROVE IInv'
  <2>1. CASE OrderDirectly(a)
    BY <2>1, ActivationAssumption, BeginInv DEF OrderDirectly, ActivationAssumption
  <2> QED BY <1>1, <2>1, CallbackInv, FailLocallyInv, SendInv, AbandonInv, ReceiveInv, AcknowledgeInv DEF OrderStep
<1>2. ASSUME NEW m \in wire, ServerStep(m) PROVE IInv'
  BY <1>2, ServerInv
<1>3. ASSUME NEW n \in DOMAIN orders, NEW state \in {"active", "rejected"}, Settle(n, state) PROVE IInv'
  BY <1>3, SettleInv
<1>4. ASSUME NEW n \in DOMAIN orders, NEW a \in Activations, ReverseCallback(n, a) PROVE IInv'
  BY <1>4, ReverseInv
<1>5. ASSUME NEW p \in Pollers, PollStep(p) PROVE IInv'
  BY <1>5, FetchInv, FailPollInv, ReconcileInv, RefuseFilterInv, StartPollInv DEF PollStep
<1>6. CASE UNCHANGED vars
  <2>1. UNCHANGED <<believed, orderOf, call, poll, wire, replies, orders>>
    BY <1>6 DEF vars, serviceVars
  <2>2. OrdersGrow /\ \A b : Quiet(b)
    BY <2>1, SameOrders DEF IInv, Quiet, Ordered, Requested
  <2>3. \A a \in Activations : ActivationTrue(a)'
    BY <2>1, <2>2, ActivationStays DEF IInv
  <2>4. ASSUME NEW p \in Pollers PROVE PollTrue(p)'
    <3>1. poll[p].knew \subseteq Activations
      BY DEF IInv, Shapes, PollType
    <3> QED BY <2>1, <2>2, <3>1, PollStays DEF IInv
  <2>5. \A m \in wire' : RequestTrue(m)'
    BY <2>1 DEF IInv, RequestTrue, Ordered
  <2>6. \A r \in replies' : ReplyTrue(r)'
    BY <2>1, <2>2, ReplyStays DEF IInv
  <2>7. Shapes' /\ OneOrderPerActivation'
    BY <2>1 DEF IInv, Shapes, OneOrderPerActivation
  <2> QED BY <2>3, <2>4, <2>5, <2>6, <2>7 DEF IInv
<1> QED BY <1>1, <1>2, <1>3, <1>4, <1>5, <1>6 DEF Next

LEMMA Invariance == Spec => []IInv
BY InitInv, StepInv, PTL DEF Spec

-----------------------------------------------------------------------------
(* The theorems.                                                           *)

\* Every variable of CardActivation keeps its type, and the answers that travel
\* are responses to requests that were made.
THEOREM ActivationsTyped == Spec => []TypeOK
<1>1. IInv => TypeOK
  BY DEF IInv, Shapes, TypeOK, OrderStates, RequestTrue, ReplyTrue
<1> QED BY <1>1, Invariance, PTL

\* For any number of activations and calls: a service that orders again only
\* after errors that mean "nothing was ordered" never gets a second card
\* (client.go:369-402, callback.go:68, 105).
THEOREM OneOrderEach == Spec => []OneOrderPerActivation
<1>1. IInv => OneOrderPerActivation
  BY DEF IInv
<1> QED BY <1>1, Invariance, PTL

\* For any response that can arrive: a call returns exactly one of a card, a
\* pending order and an error (card_create.go:45-46, callback.go:43-47).
THEOREM OneResultEach == Spec => []ExactlyOneResult
<1>1. IInv => ExactlyOneResult
  BY DEF IInv, ActivationTrue, ResultTrue, ExactlyOneResult
<1> QED BY <1>1, Invariance, PTL

\* For any queries and pollers: what is believed of an order on the strength of
\* an answer, a reverse callback or a listing is so (callback.go:68-70,
\* card_pendings.go:42-63, 80-86).
THEOREM BeliefsHold == Spec => []BeliefsAreTrue
<1>1. IInv => BeliefsAreTrue
  BY DEF IInv, ActivationTrue, BeliefTrue, BeliefsAreTrue
<1> QED BY <1>1, Invariance, PTL

\* For any queries and pollers: no listing shows an order that was rejected
\* before it was asked for (card_pendings.go:40, 80-86).
THEOREM ListingsExclude == Spec => []RejectedNotListed
<1>1. IInv => RejectedNotListed
  BY DEF IInv, PollTrue, RejectedNotListed
<1> QED BY <1>1, Invariance, PTL

=============================================================================
