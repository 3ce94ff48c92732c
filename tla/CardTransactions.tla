--------------------------- MODULE CardTransactions ---------------------------
(***************************************************************************)
(* Operators who list transactions and confirm or reverse open topups      *)
(* (src/ibs/card_transactions.go), each with a possibly stale list,        *)
(* possibly on the same transaction, retrying after an error if they like. *)
(* These calls carry no idempotency key: what protects a transaction from  *)
(* being settled twice is the status check of the server, and what an      *)
(* operator knows of the outcome is the error value of the call.           *)
(*                                                                         *)
(* The service also hears that a topup is about to be reversed, and        *)
(* refunds its own customer once a list of reversed transactions shows it. *)
(*                                                                         *)
(* The server, the card lock and the upstream reverse endpoint are         *)
(* external, modelled from the comments of the three methods.  A request   *)
(* that the server has begun goes on after its caller has timed out.       *)
(***************************************************************************)
EXTENDS RequestAPI, Queries, FiniteSets

CONSTANTS Txs,            \* transactions
          Facts,          \* Facts[tx]: what never changes of it, as the API spells it
          FirstStatuses,  \* the statuses all transactions may have at first
          Lists,          \* what ListTransactions is asked
          Client,         \* the client's own user and card
          BadId,          \* an argument that isValidUUID refuses
          Workers,        \* operators
          MaxCalls        \* bound: calls made by one operator

ASSUME TransactionsAssumption ==
    /\ FirstStatuses \subseteq [Txs -> TransactionStatuses]
    /\ Lists \subseteq TransactionListQueries
    /\ Client \in [userID : Strings, cardID : Strings]
    /\ \A tx \in Txs : Facts[tx].created \in Nat
    /\ BadId \notin Txs
    /\ MaxCalls \in Nat

VARIABLES view,      \* the open topups each operator knows of
          told,      \* the outcomes reported to operators for each transaction
          heard,     \* transactions of which a reverse callback has arrived
          refunded,  \* transactions refunded by the service
          call,      \* the SDK call each operator is in
          wire,      \* requests the server has not read yet
          working,   \* requests the server has begun to carry out
          replies,   \* responses on their way to a waiting call
          status,    \* server: status of each transaction
          doneBy,    \* history: the call whose request settled a transaction
          lock       \* server: the call whose request holds the card, or Free

operatorVars == <<view, told, refunded>>
serverVars   == <<status, doneBy, lock, heard>>
vars == <<operatorVars, call, wire, working, replies, serverVars>>

Kinds == {"list", "confirm", "reverse"}

\* Names of calls: <<operator, number>>; Free is the name of none.
CallIds == Workers \X (1..MaxCalls)
Free == <<>>

NoQuery == [UserID |-> String("")]

Call(pc, kind, tx, q, try, err) == [pc |-> pc, kind |-> kind, tx |-> tx, asked |-> q, try |-> try, err |-> err,
                                    code |-> 0, rows |-> {}, due |-> {}]

NoCall(try) == Call("idle", "list", BadId, NoQuery, try, NoError)

Returned(c, err, code, rows) == [pc |-> "returned", kind |-> c.kind, tx |-> c.tx, asked |-> c.asked,
                                 try |-> c.try, err |-> err, code |-> code, rows |-> rows, due |-> c.due]

\* The topups worth acting on.
IsOpen(tx, st) == Facts[tx].type = "topup" /\ st \in {"pending", "failed"}

\* The operators have looked at the list before.
Init == /\ status \in FirstStatuses
        /\ view = [w \in Workers |-> {tx \in Txs : IsOpen(tx, status[tx])}]
        /\ told = [tx \in Txs |-> {}]
        /\ heard = {} /\ refunded = {}
        /\ call = [w \in Workers |-> NoCall(0)]
        /\ wire = {} /\ working = {} /\ replies = {}
        /\ doneBy = [tx \in Txs |-> Free]
        /\ lock = Free

-----------------------------------------------------------------------------
(* Inside the SDK.                                                         *)

RequestId(w) == <<w, call[w].try>>

Enter(w, pc, kind, tx, q, err) ==
    /\ call[w].pc = "idle" /\ call[w].try < MaxCalls
    /\ call' = [call EXCEPT ![w] = Call(pc, kind, tx, q, call[w].try + 1, err)]

\* Faulty variant: an X-Idempotency-Key lets net/http send a POST again.
Resent == {0, 1}

\* requestAPI sets no X-Idempotency-Key: net/http sends a POST once.  (It may
\* send a GET again, which is like a GET that is read late.)
Connections == {0}

Send(w, kind, tx, q) ==
    /\ Enter(w, "sent", kind, tx, q, NoError)
    /\ wire' = wire \cup {[id |-> <<w, call[w].try + 1>>, conn |-> conn, kind |-> kind, tx |-> tx,
                           query |-> q] : conn \in Connections}
    /\ UNCHANGED <<operatorVars, working, replies, serverVars>>

Refuse(w, kind, tx, q, err) ==
    /\ Enter(w, "returned", kind, tx, q, err)
    /\ UNCHANGED <<operatorVars, wire, working, replies, serverVars>>

\* Faulty variant: the transaction id is sent as it was given.
NothingInvalid(tx) == FALSE

Invalid(tx) == tx = BadId

ListTransactions(w) ==
    \E q \in Lists : IF ListRefused(ListParameters(q, Client)) THEN Refuse(w, "list", BadId, q, "InvalidArgument")
                     ELSE Send(w, "list", BadId, q)

\* ConfirmTransaction or ReverseTransaction of a topup the operator knows of,
\* or with an argument that is no transaction id.
Settle(w) == \E kind \in {"confirm", "reverse"}, tx \in view[w] \cup {BadId} :
                IF Invalid(tx) THEN Refuse(w, kind, tx, NoQuery, "InvalidArgument")
                ELSE Send(w, kind, tx, NoQuery)

\* No request can be made: the secret does not decode, or there is no nonce.
FailLocally(w) == \E kind \in {"confirm", "reverse"}, tx \in view[w] : Refuse(w, kind, tx, NoQuery, "LocalError")

Awaits(w, m) == call[w].pc = "sent" /\ m.id = RequestId(w)

RepliesWithout(w) == {r \in replies : ~Awaits(w, r)}

Return(w, err, code, rows) ==
    /\ call' = [call EXCEPT ![w] = Returned(@, err, code, rows)]
    /\ replies' = RepliesWithout(w)
    /\ UNCHANGED <<operatorVars, wire, working, serverVars>>

Abandon(w) == call[w].pc = "sent" /\ Return(w, "TransportError", 0, {})

\* The data is returned with a nil error only; the error keeps the HTTP status
\* in APIError.StatusCode.
Receive(w) ==
    \E r \in replies :
        /\ Awaits(w, r)
        /\ \E got \in Arrivals(r) :
              LET err == CallError(got.code, got.body)
              IN  Return(w, err, IF IsAPIError(err) THEN got.code ELSE 0,
                         IF err = NoError THEN got.rows ELSE {})

-----------------------------------------------------------------------------
(* The operator reads the result.                                          *)

Outcome(kind) == IF kind = "confirm" THEN "success" ELSE "reversed"

Shown(rows) == {row.tx : row \in rows}

\* A nil list brings the rows it shows up to date; the rows of a list that was
\* asked for reversed transactions only are taken for reversed.
ReadList(w, c) ==
    /\ view' = [view EXCEPT ![w] = {tx \in @ : tx \notin Shown(c.rows)}
                                   \cup {row.tx : row \in {row \in c.rows : IsOpen(row.tx, row.status)}}]
    /\ refunded' = IF c.asked.Status.text = "reversed"
                   THEN refunded \cup (Shown(c.rows) \cap heard) ELSE refunded
    /\ UNCHANGED told

Acknowledge(w) ==
    LET c == call[w]
    IN  /\ c.pc = "returned"
        /\ \/ c.err # NoError /\ UNCHANGED operatorVars
           \/ c.err = NoError /\ c.kind = "list" /\ ReadList(w, c)
           \/ /\ c.err = NoError /\ c.kind # "list"
              /\ told' = [told EXCEPT ![c.tx] = @ \cup {Outcome(c.kind)}]
              /\ UNCHANGED <<view, refunded>>
        /\ call' = [call EXCEPT ![w] = NoCall(c.try)]
        /\ UNCHANGED <<wire, working, replies, serverVars>>

-----------------------------------------------------------------------------
(* The server.                                                             *)

Answer(m, code, body, rows) ==
    replies' = IF \E w \in Workers : Awaits(w, m)
               THEN replies \cup {[id |-> m.id, code |-> code, body |-> body, rows |-> rows]}
               ELSE replies

Within(created, from, to) == (from = NoTime \/ from <= created) /\ (to = NoTime \/ created <= to)

\* Page number page of the transactions in selected, the latest first.
OnPage(selected, page, limit) ==
    {tx \in selected : LET newer == {other \in selected : Facts[other].created > Facts[tx].created}
                       IN  Cardinality(newer) \div limit = page - 1}

Rows(txs) == {[tx |-> tx, status |-> status[tx]] : tx \in txs}

\* What the API selects for these parameters.
Chosen(p) == {tx \in Txs : /\ Selects(p.bank_id, Facts[tx].bank_id)
                           /\ Selects(p.card_id, Facts[tx].card_id)
                           /\ Selects(p.user_id, Facts[tx].user_id)
                           /\ Selects(p.type, Facts[tx].type)
                           /\ Selects(p.status, status[tx])
                           /\ Within(Facts[tx].created, p.from_date, p.to_date)}

RowsFor(p) == Rows(OnPage(Chosen(p), p.page, p.limit))

\* What a query means (TransactionListQuery): an id left out is the client's,
\* and zero values mean "do not filter", the first page and pages of the default
\* length.
Meant(q) ==
    LET Own(s, own) == IF s.text = "" THEN own ELSE s
    IN  {tx \in Txs : /\ AsksId(q.BankID, Facts[tx].bank_id)
                      /\ AsksId(Own(q.CardID, Client.cardID), Facts[tx].card_id)
                      /\ AsksId(Own(q.UserID, Client.userID), Facts[tx].user_id)
                      /\ AsksName(q.Type, Facts[tx].type)
                      /\ AsksName(q.Status, status[tx])
                      /\ AsksTime(q.FromDate, q.ToDate, Facts[tx].created)}

Wanted(q) ==
    LET page  == IF q.Page > 0 THEN q.Page ELSE DefaultPage
        limit == CASE q.Limit <= 0 -> DefaultLimit [] q.Limit \in 1..MaxLimit -> q.Limit [] OTHER -> MaxLimit
    IN  Rows(OnPage(Meant(q), page, limit))

Due(c, rows) == [pc |-> c.pc, kind |-> c.kind, tx |-> c.tx, asked |-> c.asked,
                 try |-> c.try, err |-> c.err, code |-> c.code, rows |-> c.rows, due |-> rows]

\* The call remembers, as history, what it should be shown at this time.
ServeList(m) ==
    /\ m \in wire /\ m.kind = "list"
    /\ Answer(m, 200, "goodData", RowsFor(ListParameters(m.query, Client)))
    /\ call' = [w \in Workers |-> IF Awaits(w, m) THEN Due(call[w], Wanted(m.query)) ELSE call[w]]
    /\ wire' = wire \ {m}
    /\ UNCHANGED <<operatorVars, working, serverVars>>

\* The states from which a request may settle its transaction.
Settleable(kind) == IF kind = "confirm" THEN {"pending"} ELSE {"pending", "failed"}

\* Confirming locks the card for the duration; reversing fires a callback to
\* the service before its database transaction.
Start(m) == /\ m \in wire /\ m.kind # "list" /\ status[m.tx] \in Settleable(m.kind)
            /\ m.kind = "confirm" => lock = Free
            /\ lock' = IF m.kind = "confirm" THEN m.id ELSE lock
            /\ heard' = IF m.kind = "reverse" THEN heard \cup {m.tx} ELSE heard
            /\ wire' = wire \ {m} /\ working' = working \cup {m}
            /\ UNCHANGED <<operatorVars, call, replies, status, doneBy>>

\* 400: not pending (confirm), not pending or failed (reverse).
RefuseStatus(m) == /\ m \in wire /\ m.kind # "list" /\ status[m.tx] \notin Settleable(m.kind)
                   /\ Answer(m, 400, "statusFalse", {})
                   /\ wire' = wire \ {m}
                   /\ UNCHANGED <<operatorVars, call, working, serverVars>>

\* 409 or 503: the card is busy.
RefuseBusy(m) == /\ m \in wire /\ m.kind = "confirm" /\ lock # Free
                 /\ \E code \in {409, 503} : Answer(m, code, "statusFalse", {})
                 /\ wire' = wire \ {m}
                 /\ UNCHANGED <<operatorVars, call, working, serverVars>>

Released(m) == IF lock = m.id THEN Free ELSE lock

Commit(m) == /\ m \in working
             /\ IF status[m.tx] \in Settleable(m.kind)
                THEN /\ status' = [status EXCEPT ![m.tx] = Outcome(m.kind)]
                     /\ doneBy' = [doneBy EXCEPT ![m.tx] = m.id]
                     /\ Answer(m, 200, "goodData", {})
                ELSE /\ Answer(m, 400, "statusFalse", {})
                     /\ UNCHANGED <<status, doneBy>>
             /\ working' = working \ {m} /\ lock' = Released(m)
             /\ UNCHANGED <<operatorVars, call, wire, heard>>

\* 502: the upstream reverse endpoint rejected the request; 500: anything else.
RollBack(m) == /\ m \in working
               /\ \E code \in {500} \cup IF m.kind = "reverse" THEN {502} ELSE {} :
                     Answer(m, code, "statusFalse", {})
               /\ working' = working \ {m} /\ lock' = Released(m)
               /\ UNCHANGED <<operatorVars, call, wire, status, doneBy, heard>>

-----------------------------------------------------------------------------

OperatorStep(w) == ListTransactions(w) \/ Settle(w) \/ FailLocally(w) \/ Acknowledge(w)

CallStep(w) == Abandon(w) \/ Receive(w)

ServerStep(m) == \/ ServeList(m) \/ Start(m) \/ RefuseStatus(m) \/ RefuseBusy(m)
                 \/ Commit(m) \/ RollBack(m)

Next == \/ \E w \in Workers : OperatorStep(w) \/ CallStep(w)
        \/ \E m \in wire \cup working : ServerStep(m)

Spec == Init /\ [][Next]_vars

-----------------------------------------------------------------------------
(* Properties.                                                             *)

RowType == [tx : Txs, status : TransactionStatuses]

CallType == [pc : {"idle", "sent", "returned"}, kind : Kinds, tx : Txs \cup {BadId},
             asked : Lists \cup {NoQuery}, try : 0..MaxCalls, err : Errors, code : Nat,
             rows : SUBSET RowType, due : SUBSET RowType]

ReplyType == [id : CallIds, code : Nat, body : Bodies, rows : SUBSET RowType]

\* A request that leaves the SDK carries a query or names a transaction.
IsRequest(m) == /\ m \in [id : CallIds, conn : {0}, kind : Kinds, tx : Txs \cup {BadId},
                          query : Lists \cup {NoQuery}]
                /\ IF m.kind = "list" THEN m.query \in Lists ELSE m.tx \in Txs

TypeOK == /\ view \in [Workers -> SUBSET Txs]
          /\ told \in [Txs -> SUBSET TransactionStatuses]
          /\ heard \subseteq Txs /\ refunded \subseteq Txs
          /\ call \in [Workers -> CallType]
          /\ \A m \in wire \cup working : IsRequest(m)
          /\ \A r \in replies : r \in ReplyType
          /\ status \in [Txs -> TransactionStatuses]
          /\ doneBy \in [Txs -> CallIds \cup {Free}]
          /\ lock \in CallIds \cup {Free}

\* Whatever operators were told of a transaction is what it is: two operators
\* who race on stale lists are never told that it was confirmed and reversed,
\* and what was reported once stays true (card_transactions.go:238-241,
\* 295-296, with client.go:386-404).
OutcomesAgree == \A tx \in Txs : told[tx] \subseteq {status[tx]}

\* A nil error means that this very call settled the transaction, not another
\* operator's call that came to the same outcome.
SuccessIsOwn ==
    \A w \in Workers :
        call[w].pc = "returned" /\ call[w].kind # "list" /\ call[w].err = NoError =>
            doneBy[call[w].tx] = RequestId(w)

Refused(c) == \/ IsAPIError(c.err) /\ c.code \in 400..499
              \/ c.err \in Sentinels

\* An operator who is refused (HTTP 4xx, whichever error value stands for it)
\* has changed nothing by this call: "not pending" is never the answer to the
\* operator's own success.  It needs each settling request to be sent once
\* (client.go:286-288, 323-325).
RefusalChangedNothing ==
    \A w \in Workers :
        call[w].pc = "returned" /\ call[w].kind # "list" /\ Refused(call[w]) =>
            doneBy[call[w].tx] # RequestId(w)

\* A list that is returned shows exactly the transactions its query asks for, as
\* they were when the server answered, however the query is spelled and whatever
\* it leaves to the client's scope and to the defaults.  Bounds in time reach to
\* the second, not to the instant: a transaction of the last fraction of a second
\* before ToDate is left out, and one that is as much older than FromDate shown
\* (card_transactions.go:81-112, 130-198).
ListsAnswerTheirQuery ==
    \A w \in Workers :
        call[w].pc = "returned" /\ call[w].kind = "list" /\ call[w].err = NoError =>
            call[w].rows = call[w].due

\* A service that refunds what it heard is being reversed only after a list of
\* reversed transactions has shown it never refunds a topup that goes through,
\* although the callback is fired before the reversal and the reversal may be
\* rolled back (card_transactions.go:298-302, 153-162, 188-190).
RefundedAreReversed == \A tx \in refunded : status[tx] = "reversed"

\* "Errors are returned as *APIError [...] 409 / 503: card busy"
\* (card_transactions.go:249-254), for answers of the server.
BusyIsAPIError ==
    \A w \in Workers :
        call[w].pc = "returned" => ~IsDuplicateIdempotencyKey(call[w].err)

=============================================================================
