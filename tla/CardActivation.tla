---------------------------- MODULE CardActivation ----------------------------
(***************************************************************************)
(* Ordering cards (src/ibs/card_create.go), directly or through the        *)
(* dispatcher Callback (src/ibs/callback.go), and finding out what became  *)
(* of the orders (src/ibs/card_pendings.go).  An order is a card at once,  *)
(* or it is pending until IBS activates or rejects it; a rejection is      *)
(* announced by a pending_card_reverse callback.                           *)
(*                                                                         *)
(* The service is external and careful: it repeats an activation only      *)
(* after an error by which nothing was ordered, since these calls carry no *)
(* idempotency key.  What it believes of an activation rests on the values *)
(* that the SDK returns.  IBS and the network are external too.            *)
(***************************************************************************)
EXTENDS RequestAPI, Queries, Sequences

CONSTANTS Activations,  \* cards that the service wants
          CardType,     \* CardType[a]: "virtual" or "physical"
          UserOf,       \* UserOf[a]: the user it is for
          PollQueries,  \* what GetCardPendings is asked, on a client without a user
          Pollers,      \* goroutines that call GetCardPendings
          NilRequest,   \* Callback's argument: no request
          MaxAttempts,  \* bound: calls made for one activation
          MaxPolls      \* bound: calls made by one poller

CardTypes == CardTypeNames

ASSUME ActivationAssumption ==
    /\ CardType \in [Activations -> CardTypes]
    /\ \A q \in PollQueries : q \in PendingQueries
    /\ MaxAttempts \in Nat /\ MaxPolls \in Nat

VARIABLES believed,  \* the service's belief about each activation
          orderOf,   \* the order or card number it was given, 0 for none
          call,      \* the ordering call of each activation
          poll,      \* the GetCardPendings call of each poller
          wire,      \* ordering requests IBS has not read yet
          replies,   \* responses on their way to a waiting call
          orders     \* IBS: every order; the index is its number

serviceVars == <<believed, orderOf>>
vars == <<serviceVars, call, poll, wire, replies, orders>>

Beliefs == {"open", "active", "pending", "rejected", "resolved", "unclear"}

IdleCall == [pc |-> "idle", via |-> "direct", type |-> "virtual", try |-> 0,
             err |-> NoError, code |-> 0, card |-> 0, order |-> 0]

NoQuery == [userID |-> String(""), bankID |-> String(""), cardType |-> String("")]

IdlePoll == [pc |-> "idle", try |-> 0, asked |-> NoQuery, knew |-> {}, rejected |-> {}, rows |-> {}]

Init == /\ believed = [a \in Activations |-> "open"]
        /\ orderOf = [a \in Activations |-> 0]
        /\ call = [a \in Activations |-> IdleCall]
        /\ poll = [p \in Pollers |-> IdlePoll]
        /\ wire = {} /\ replies = {}
        /\ orders = <<>>

-----------------------------------------------------------------------------
(* Ordering a card.                                                        *)

\* What Callback may be given for activation a; some of it is unusable.
CallbackRequests(a) ==
    {NilRequest} \cup [provider : {"papara", "other"}, type : {CardType[a], "other"}, complete : BOOLEAN]

\* Faulty variant: a type that is not "virtual" is taken for physical.
TypeUnchecked(req) == \/ req = NilRequest
                      \/ req.provider # "papara"
                      \/ req.type # "virtual" /\ ~req.complete

\* Callback returns before it reaches VirtualCard or PhysicalCard.
Undispatchable(req) ==
    \/ req = NilRequest
    \/ req.provider # "papara"
    \/ req.type \notin CardTypes
    \/ req.type = "physical" /\ ~req.complete

Begin(a, via, type, err) ==
    /\ believed[a] = "open" /\ call[a].pc = "idle" /\ call[a].try < MaxAttempts
    /\ call' = [call EXCEPT ![a] = [IdleCall EXCEPT !.pc = IF err = NoError THEN "called" ELSE "returned",
                                                    !.via = via, !.type = type, !.err = err,
                                                    !.try = call[a].try + 1]]
    /\ UNCHANGED <<serviceVars, poll, wire, replies, orders>>

\* VirtualCard or PhysicalCard, which check nothing.
OrderDirectly(a) == Begin(a, "direct", CardType[a], NoError)

Callback(a) == \E req \in CallbackRequests(a) :
                  IF Undispatchable(req) THEN Begin(a, "callback", CardType[a], "InvalidArgument")
                  ELSE Begin(a, "callback", req.type, NoError)

RequestId(a) == <<a, call[a].try>>

\* Faulty variant: an X-Idempotency-Key lets net/http send a request again.
Resent == {0, 1}

\* requestAPI sets no X-Idempotency-Key, and net/http does not re-send a POST
\* without one: a call uses one connection.
Connections == {0}

\* POST /card/create/virtual or /card/create/physical.
Request(a, conn) == [id |-> RequestId(a), type |-> call[a].type, conn |-> conn]

FailLocally(a) == /\ call[a].pc = "called"
                  /\ call' = [call EXCEPT ![a].pc = "returned", ![a].err = "LocalError"]
                  /\ UNCHANGED <<serviceVars, poll, wire, replies, orders>>

Send(a) == /\ call[a].pc = "called"
           /\ call' = [call EXCEPT ![a].pc = "sent"]
           /\ wire' = wire \cup {Request(a, conn) : conn \in Connections}
           /\ UNCHANGED <<serviceVars, poll, replies, orders>>

Awaits(a, m) == call[a].pc = "sent" /\ m.id = RequestId(a)

\* Responses that nobody waits for are gone.
RepliesWithout(a) == {r \in replies : ~Awaits(a, r.to)}

Abandon(a) == /\ call[a].pc = "sent"
              /\ call' = [call EXCEPT ![a].pc = "returned", ![a].err = "TransportError"]
              /\ replies' = RepliesWithout(a)
              /\ UNCHANGED <<serviceVars, poll, wire, orders>>

\* parseCardOrPending of a body that decodes.
ParseCardOrPending(r) == IF r.kind = "order" THEN [card |-> 0, order |-> r.number]
                         ELSE [card |-> r.number, order |-> 0]

\* Faulty variant: Callback passes an order on as if it were a card.
OrderAsCard(via, r) ==
    LET got == ParseCardOrPending(r)
    IN  [err |-> NoError, card |-> IF via = "callback" /\ got.order # 0 THEN got.order ELSE got.card,
         order |-> IF via = "callback" THEN 0 ELSE got.order]

\* What the caller gets of a success: Callback turns an order into an error
\* that holds its number in the text only.
Delivered(via, r) ==
    LET got == ParseCardOrPending(r)
    IN  IF via = "callback" /\ got.order # 0
        THEN [err |-> "PendingError", card |-> 0, order |-> 0]
        ELSE [err |-> NoError, card |-> got.card, order |-> got.order]

\* Faulty variant: the error of json.Unmarshal is dropped.
DecodeErrorDropped(via, r) ==
    LET err == RequestAPIError(r.code, r.body)
    IN  IF err = NoError /\ r.body # "badData" THEN Delivered(via, r)
        ELSE [err |-> err, card |-> 0, order |-> 0]

Result(via, r) == IF CallError(r.code, r.body) = NoError THEN Delivered(via, r)
                  ELSE [err |-> CallError(r.code, r.body), card |-> 0, order |-> 0]

Receive(a) ==
    \E r \in replies :
        /\ Awaits(a, r.to)
        /\ \E got \in Arrivals(r.response) :
              LET result == Result(call[a].via, got)
              IN  call' = [call EXCEPT ![a] =
                             [@ EXCEPT !.pc = "returned", !.err = result.err, !.card = result.card,
                                       !.order = result.order,
                                       !.code = IF IsAPIError(result.err) THEN got.code ELSE 0]]
        /\ replies' = RepliesWithout(a)
        /\ UNCHANGED <<serviceVars, poll, wire, orders>>

\* Errors after which the service may call again: by them nothing was ordered.
Refused(c) == \/ c.err \in Sentinels \cup {"InvalidArgument", "LocalError"}
              \/ IsAPIError(c.err) /\ c.code \in 400..499

Learned(c) == IF c.card # 0 THEN "active"
              ELSE IF c.order # 0 THEN "pending"
              ELSE IF Refused(c) THEN "open" ELSE "unclear"

Acknowledge(a) ==
    LET c == call[a]
    IN  /\ c.pc = "returned"
        /\ believed' = [believed EXCEPT ![a] = Learned(c)]
        /\ orderOf' = [orderOf EXCEPT ![a] = c.card + c.order]
        /\ call' = [call EXCEPT ![a] = [IdleCall EXCEPT !.try = c.try]]
        /\ UNCHANGED <<poll, wire, replies, orders>>

-----------------------------------------------------------------------------
(* IBS.                                                                    *)

Answer(m, code, body, kind, number) ==
    /\ wire' = wire \ {m}
    /\ replies' = IF \E a \in Activations : Awaits(a, m)
                  THEN replies \cup {[to |-> m, response |-> [code |-> code, body |-> body,
                                                              kind |-> kind, number |-> number]]}
                  ELSE replies

Place(m, state) == orders' = Append(orders, [of |-> m.id[1], state |-> state])

CreateCard(m) == /\ Place(m, "active")
                 /\ Answer(m, 200, "goodData", "card", Len(orders) + 1)
                 /\ UNCHANGED <<serviceVars, call, poll>>

QueueOrder(m) == /\ Place(m, "pending")
                 /\ Answer(m, 200, "goodData", "order", Len(orders) + 1)
                 /\ UNCHANGED <<serviceVars, call, poll>>

Decline(m) == /\ \E code \in {400, 409, 429} : Answer(m, code, "statusFalse", "none", 0)
              /\ UNCHANGED <<serviceVars, call, poll, orders>>

\* 500 may come before or after the order is placed.
Fail(m) == /\ Place(m, "pending") \/ UNCHANGED orders
           /\ Answer(m, 500, "statusFalse", "none", 0)
           /\ UNCHANGED <<serviceVars, call, poll>>

Lose(m) == /\ wire' = wire \ {m}
           /\ UNCHANGED <<serviceVars, call, poll, replies, orders>>

Settle(n, state) == /\ orders[n].state = "pending"
                    /\ orders' = [orders EXCEPT ![n].state = state]
                    /\ UNCHANGED <<serviceVars, call, poll, wire, replies>>

\* A pending_card_reverse callback reaches the service, at any time after the
\* rejection and any number of times; an order the service does not know of is
\* not for it.
ReverseCallback(n, a) == /\ orders[n].state = "rejected"
                         /\ believed[a] = "pending" /\ orderOf[a] = n
                         /\ believed' = [believed EXCEPT ![a] = "rejected"]
                         /\ UNCHANGED <<orderOf, call, poll, wire, replies, orders>>

-----------------------------------------------------------------------------
(* GetCardPendings.                                                        *)

In(state) == {n \in DOMAIN orders : orders[n].state = state}

BareClient == [userID |-> String(""), cardID |-> String("")]

Parameters(q) == PendingParameters(q.userID, q.bankID, q.cardType, BareClient)

\* What a query means to the service.
Means(q, a) == AsksId(q.userID, UserOf[a]) /\ AsksName(q.cardType, CardType[a])

Matches(n, params) == /\ Selects(params.user_id, UserOf[orders[n].of])
                      /\ Selects(params.card_type, CardType[orders[n].of])

\* A card type filter that is neither empty nor known: nothing is asked of IBS.
RefuseFilter(p, q) == /\ poll[p].pc = "idle" /\ poll[p].try < MaxPolls
                      /\ PendingsRefused(Parameters(q))
                      /\ poll' = [poll EXCEPT ![p].try = @ + 1]
                      /\ UNCHANGED <<serviceVars, call, wire, replies, orders>>

\* The service remembers which of its pending orders a listing must show.
StartPoll(p, q) ==
    /\ poll[p].pc = "idle" /\ poll[p].try < MaxPolls
    /\ ~PendingsRefused(Parameters(q))
    /\ poll' = [poll EXCEPT ![p] = [IdlePoll EXCEPT !.pc = "called", !.try = poll[p].try + 1,
                  !.asked = q, !.rejected = In("rejected"),
                  !.knew = {a \in Activations : believed[a] = "pending" /\ Means(q, a)}]]
    /\ UNCHANGED <<serviceVars, call, wire, replies, orders>>

\* Faulty variant: the status is compared as it is spelled.
SpelledRejected(row) == row.state = "rejected" /\ row.spelling = "lower"

\* strings.EqualFold(strings.TrimSpace(card.Status), "rejected")
IsRejected(row) == row.state = "rejected"

KeptRows(rows) == {row.number : row \in {row \in rows : ~IsRejected(row)}}

\* IBS answers with the orders that are no cards, in a spelling of its own.
FetchPendings(p) ==
    /\ poll[p].pc = "called"
    /\ \E spelling \in {"lower", "other"} :
          LET rows == {[number |-> n, state |-> orders[n].state, spelling |-> spelling] :
                          n \in {n \in In("pending") \cup In("rejected") : Matches(n, Parameters(poll[p].asked))}}
          IN  poll' = [poll EXCEPT ![p].pc = "answered", ![p].rows = KeptRows(rows)]
    /\ UNCHANGED <<serviceVars, call, wire, replies, orders>>

\* Any error of the request.
FailPoll(p) == /\ poll[p].pc = "called"
               /\ poll' = [poll EXCEPT ![p] = [IdlePoll EXCEPT !.try = poll[p].try]]
               /\ UNCHANGED <<serviceVars, call, wire, replies, orders>>

\* An order that a later listing does not show is no longer pending.
Reconcile(p) ==
    /\ poll[p].pc = "answered"
    /\ believed' = [a \in Activations |->
                       IF a \in poll[p].knew /\ believed[a] = "pending" /\ orderOf[a] \notin poll[p].rows
                       THEN "resolved" ELSE believed[a]]
    /\ poll' = [poll EXCEPT ![p] = [IdlePoll EXCEPT !.try = poll[p].try]]
    /\ UNCHANGED <<orderOf, call, wire, replies, orders>>

-----------------------------------------------------------------------------

OrderStep(a) == \/ OrderDirectly(a) \/ Callback(a) \/ FailLocally(a) \/ Send(a) \/ Abandon(a)
                \/ Receive(a) \/ Acknowledge(a)

ServerStep(m) == CreateCard(m) \/ QueueOrder(m) \/ Decline(m) \/ Fail(m) \/ Lose(m)

PollStep(p) == \/ FetchPendings(p) \/ FailPoll(p) \/ Reconcile(p)
               \/ \E q \in PollQueries : RefuseFilter(p, q) \/ StartPoll(p, q)

Next == \/ \E a \in Activations : OrderStep(a)
        \/ \E m \in wire : ServerStep(m)
        \/ \E n \in DOMAIN orders : \/ \E state \in {"active", "rejected"} : Settle(n, state)
                                    \/ \E a \in Activations : ReverseCallback(n, a)
        \/ \E p \in Pollers : PollStep(p)

Spec == Init /\ [][Next]_vars

-----------------------------------------------------------------------------
(* Properties.                                                             *)

CallType == [pc : {"idle", "called", "sent", "returned"}, via : {"direct", "callback"}, type : CardTypes,
             try : 0..MaxAttempts, err : Errors \cup {"PendingError"},
             code : Nat, card : Nat, order : Nat]

PollType == [pc : {"idle", "called", "answered"}, try : 0..MaxPolls,
             asked : PollQueries \cup {NoQuery}, knew : SUBSET Activations,
             rejected : SUBSET Nat, rows : SUBSET Nat]

RequestType == [id : Activations \X (1..MaxAttempts), type : CardTypes, conn : {0}]

ResponseType == [code : Nat, body : Bodies, kind : {"card", "order", "none"}, number : Nat]

TypeOK == /\ believed \in [Activations -> Beliefs]
          /\ orderOf \in [Activations -> Nat]
          /\ call \in [Activations -> CallType]
          /\ \A p \in Pollers : poll[p] \in PollType
          /\ \A m \in wire : m \in RequestType
          /\ \A r \in replies : r.to \in RequestType /\ r.response \in ResponseType
          /\ orders \in Seq([of : Activations, state : {"pending", "active", "rejected"}])

\* A call returns exactly one of a card, a pending order and an error, whatever
\* arrives ("either a Card [...] or a PendingCardOrder", card_create.go:45-46),
\* and the dispatcher never a pending order (callback.go:43-47).
ExactlyOneResult ==
    \A a \in Activations : call[a].pc = "returned" =>
        LET c == call[a]
        IN  /\ c.err = NoError <=> c.card # 0 \/ c.order # 0
            /\ c.card = 0 \/ c.order = 0
            /\ c.via = "callback" => c.order = 0

\* A service that repeats an activation only after errors that mean "nothing
\* was ordered" gets no second card, although no call carries an idempotency
\* key: no such error ever follows an order (client.go:369-402, callback.go:68,
\* 105), and no request is sent twice.
OneOrderPerActivation ==
    \A i, j \in DOMAIN orders : orders[i].of = orders[j].of => i = j

\* Order n of activation a is in one of the given states.
OrderIs(a, n, states) == n \in DOMAIN orders /\ orders[n].of = a /\ orders[n].state \in states

\* What the service believes on the strength of a returned card, a returned
\* order, a reverse callback or a listing is so, however late the answers are:
\* a pending order is never handed out as a card (callback.go:68-70, 105-107),
\* and an order missing from a listing asked for later, under whichever filter
\* covers it, is pending no more (card_pendings.go:42-63, 80-86).
BeliefsAreTrue ==
    \A a \in Activations :
        /\ believed[a] = "active"   => OrderIs(a, orderOf[a], {"active"})
        /\ believed[a] = "pending"  => OrderIs(a, orderOf[a], {"pending", "active", "rejected"})
        /\ believed[a] = "rejected" => OrderIs(a, orderOf[a], {"rejected"})
        /\ believed[a] = "resolved" => OrderIs(a, orderOf[a], {"active", "rejected"})

\* "Excludes rejected items" (card_pendings.go:40): an order rejected before
\* GetCardPendings was called is not among its rows, however IBS spells the
\* status.
RejectedNotListed == \A p \in Pollers : poll[p].rows \cap poll[p].rejected = {}

=============================================================================
