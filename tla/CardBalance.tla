----------------------------- MODULE CardBalance -----------------------------
(***************************************************************************)
(* Balance operations (src/ibs/card_balance.go) and the request half of    *)
(* requestAPIWithIdempotency (src/ibs/client.go:284-363), driven by the    *)
(* retry pattern that card_balance.go:49-60 prescribes, against a server   *)
(* that deduplicates by X-Idempotency-Key, over a network that delays and  *)
(* loses messages.  Several workers may retry the same operation at once   *)
(* and may crash between two steps; only the caller's store (myStore in    *)
(* the comment) survives.  The server carries an operation out at once or  *)
(* accepts it as pending and decides it later.                             *)
(*                                                                         *)
(* The server, the network and the caller are external: they are modelled  *)
(* from what the SDK's code and comments say of them.  net/http re-sends a *)
(* request on its own when a reused connection dies before the response,   *)
(* because an X-Idempotency-Key header marks it as safe to re-send.        *)
(***************************************************************************)
EXTENDS RequestAPI, Sequences

CONSTANTS Ops, Fresh, Keys, Amount, NoOp,  \* as in OnceLedger
          Workers,      \* goroutines or processes that carry operations out
          CrashProne,   \* those of them that may die between two steps
          NoKey,        \* no key drawn yet for a stored operation
          EmptyKey,     \* the empty string
          MaxAttempts,  \* bound: calls made for one operation
          MaxReplays,   \* bound: times net/http re-sends one request
          MaxPending    \* bound: only the first MaxPending accepted may be pending

ASSUME BalanceAssumption ==
    /\ Fresh \subseteq Ops /\ NoOp \notin Ops /\ CrashProne \subseteq Workers
    /\ NoKey \notin Keys /\ EmptyKey \notin Keys
    /\ Amount \in [Ops -> Int]
    /\ MaxAttempts \in Nat /\ MaxReplays \in Nat /\ MaxPending \in Nat

VARIABLES storeKey,  \* myStore: the key kept for each stored operation
          storeTx,   \* myStore: the transaction id recorded, 0 for none
          status,    \* the caller's view: "open", "assumed" or "recorded"
          attempts,  \* calls made so far for each operation
          owner,     \* history: the operation each key was drawn for
          call,      \* the SDK call each worker is in
          wire,      \* requests the server has not read yet
          replies,   \* responses on their way to a waiting call
          seen,      \* server: keys inside the retention window
          ledger,    \* server: accepted operations; the index is the tx id
          outcome,   \* server: "pending", "success" or "reversed" for each of them
          balance    \* server: the card's balance

callerVars == <<storeKey, storeTx, status, attempts, owner>>
serverVars == <<seen, ledger, outcome, balance>>
vars == <<callerVars, call, wire, replies, serverVars>>

IdleCall == [pc |-> "idle", op |-> NoOp, key |-> NoKey, try |-> 0, conn |-> 0,
             err |-> NoError, pending |-> FALSE, tx |-> 0]

Init == /\ storeKey = [op \in Ops |-> NoKey]
        /\ storeTx = [op \in Ops |-> 0]
        /\ status = [op \in Ops |-> "open"]
        /\ attempts = [op \in Ops |-> 0]
        /\ owner = [k \in Keys |-> NoOp]
        /\ call = [w \in Workers |-> IdleCall]
        /\ wire = {} /\ replies = {}
        /\ seen = {} /\ ledger = <<>> /\ outcome = <<>> /\ balance = 0

-----------------------------------------------------------------------------
(* Obtaining the key and entering the SDK.                                 *)

Unused == {k \in Keys : owner[k] = NoOp}

\* Faulty variant: the stored key is not found again, each retry draws anew.
KeysForgotten(op) == Unused

\* CardBalance draws a new random key; a caller of CardBalanceIdempotent uses
\* the key it has stored, or draws one, or passes the empty string.
KeysFor(op) == IF op \in Fresh THEN Unused
               ELSE {EmptyKey} \cup IF storeKey[op] = NoKey THEN Unused ELSE {storeKey[op]}

Begin(w, op) ==
    /\ call[w].pc = "idle" /\ status[op] = "open" /\ attempts[op] < MaxAttempts
    /\ \E k \in KeysFor(op) :
          /\ owner' = IF k = EmptyKey THEN owner ELSE [owner EXCEPT ![k] = op]
          /\ storeKey' = IF k = EmptyKey \/ op \in Fresh THEN storeKey
                         ELSE [storeKey EXCEPT ![op] = k]
          /\ call' = [call EXCEPT ![w] = [IdleCall EXCEPT !.pc = "called", !.op = op, !.key = k,
                                                          !.try = attempts[op] + 1]]
    /\ attempts' = [attempts EXCEPT ![op] = @ + 1]
    /\ UNCHANGED <<storeTx, status, wire, replies, serverVars>>

-----------------------------------------------------------------------------
(* Inside CardBalanceIdempotent.                                           *)

\* Faulty variant: an empty key is not refused.
InvalidAmountOnly(c) == Amount[c.op] = 0

Invalid(c) == c.key = EmptyKey \/ Amount[c.op] = 0

\* Faulty variant: the sign decides the endpoint but is not taken off the amount.
SignedBody(amount) == [verb |-> IF amount < 0 THEN "dec" ELSE "add", amount |-> amount]

\* The endpoint's last segment and the amount in the body.
BalanceBody(amount) == IF amount < 0 THEN [verb |-> "dec", amount |-> -amount]
                       ELSE [verb |-> "add", amount |-> amount]

RequestId(c) == <<c.op, c.try>>

\* The HTTP request of call c, sent on its conn-th connection.
Request(c, conn) == [key |-> c.key, body |-> BalanceBody(Amount[c.op]),
                     id |-> RequestId(c), conn |-> conn]

Return(w, err, pending, tx) ==
    call' = [call EXCEPT ![w] = [@ EXCEPT !.pc = "returned", !.err = err,
                                          !.pending = pending, !.tx = tx]]

Refuse(w) == /\ call[w].pc = "called" /\ Invalid(call[w])
             /\ Return(w, "InvalidArgument", FALSE, 0)
             /\ UNCHANGED <<callerVars, wire, replies, serverVars>>

\* The key does not decode, the URL does not parse: nothing has been sent.
FailLocally(w) == /\ call[w].pc = "called" /\ ~Invalid(call[w])
                  /\ Return(w, "LocalError", FALSE, 0)
                  /\ UNCHANGED <<callerVars, wire, replies, serverVars>>

Send(w) == /\ call[w].pc = "called" /\ ~Invalid(call[w])
           /\ call' = [call EXCEPT ![w].pc = "sent"]
           /\ wire' = wire \cup {Request(call[w], 0)}
           /\ UNCHANGED <<callerVars, replies, serverVars>>

Awaits(c, m) == c.pc = "sent" /\ m.id = RequestId(c) /\ m.conn = c.conn

\* Responses on the connection that w gives up are gone.
RepliesWithout(c) == {r \in replies : ~Awaits(c, r)}

\* httpClient.Do fails: timeout, reset, refused.  The request may still be on
\* its way, or executed.
Abandon(w) == /\ call[w].pc = "sent"
              /\ Return(w, "TransportError", FALSE, 0)
              /\ replies' = RepliesWithout(call[w])
              /\ UNCHANGED <<callerVars, wire, serverVars>>

\* net/http re-sends the same request on another connection.
Replay(w) == /\ call[w].pc = "sent" /\ call[w].conn < MaxReplays
             /\ call' = [call EXCEPT ![w].conn = @ + 1]
             /\ wire' = wire \cup {Request(call[w], call[w].conn + 1)}
             /\ replies' = RepliesWithout(call[w])
             /\ UNCHANGED <<callerVars, serverVars>>

\* Faulty variant: the error of the second json.Unmarshal is dropped.
DecodeErrorDropped(r) == RequestAPIError(r.code, r.body)

ResultError(r) == CallError(r.code, r.body)

\* Whether r gives the call the balanceResponse of a nil error.
Decodes(r) == ResultError(r) = NoError /\ r.body = "goodData"

\* Faulty variant: the response's pending field is not decoded.
PendingDropped(r) == FALSE

\* The first two values of the call: both come with a nil error only.
ResultPending(r) == Decodes(r) /\ r.pending

ResultTx(r) == IF Decodes(r) THEN r.tx ELSE 0

Receive(w) ==
    \E r \in replies :
        /\ Awaits(call[w], r)
        /\ \E got \in Arrivals(r) :
              Return(w, ResultError(got), ResultPending(got), ResultTx(got))
        /\ replies' = replies \ {r}
        /\ UNCHANGED <<callerVars, wire, serverVars>>

-----------------------------------------------------------------------------
(* The caller's handling of the result (card_balance.go:51-60), which      *)
(* does not look at pending.                                               *)

Record(w) == /\ call[w].pc = "returned" /\ call[w].err = NoError
             /\ storeTx' = [storeTx EXCEPT ![call[w].op] = call[w].tx]
             /\ status' = [status EXCEPT ![call[w].op] = "recorded"]
             /\ call' = [call EXCEPT ![w] = IdleCall]
             /\ UNCHANGED <<storeKey, attempts, owner, wire, replies, serverVars>>

AssumeCommitted(w) ==
    /\ call[w].pc = "returned" /\ IsDuplicateIdempotencyKey(call[w].err)
    /\ status' = [status EXCEPT ![call[w].op] = IF @ = "open" THEN "assumed" ELSE @]
    /\ call' = [call EXCEPT ![w] = IdleCall]
    /\ UNCHANGED <<storeKey, storeTx, attempts, owner, wire, replies, serverVars>>

\* Any other error: the operation stays open and may be retried.
LeaveOpen(w) == /\ call[w].pc = "returned" /\ call[w].err # NoError
                /\ ~IsDuplicateIdempotencyKey(call[w].err)
                /\ call' = [call EXCEPT ![w] = IdleCall]
                /\ UNCHANGED <<callerVars, wire, replies, serverVars>>

Crash(w) == /\ w \in CrashProne /\ call[w].pc # "idle"
            /\ call' = [call EXCEPT ![w] = IdleCall]
            /\ replies' = RepliesWithout(call[w])
            /\ UNCHANGED <<callerVars, wire, serverVars>>

-----------------------------------------------------------------------------
(* The server and the network.                                             *)

Delta(m) == IF m.body.verb = "add" THEN m.body.amount ELSE -m.body.amount

\* The response reaches the caller only if it still waits on that connection.
Reply(m, code, body, pending, tx) ==
    /\ wire' = wire \ {m}
    /\ replies' = IF \E w \in Workers : Awaits(call[w], m)
                  THEN replies \cup {[id |-> m.id, conn |-> m.conn, code |-> code, body |-> body,
                                      pending |-> pending, tx |-> tx]}
                  ELSE replies

\* A new key is accepted: carried out at once, or left pending.
Accept(m, state) ==
    /\ m.key \notin seen
    /\ state = "pending" => Len(ledger) < MaxPending
    /\ seen' = seen \cup {m.key}
    /\ ledger' = Append(ledger, [key |-> m.key, delta |-> Delta(m)])
    /\ outcome' = Append(outcome, state)
    /\ balance' = IF state = "success" THEN balance + Delta(m) ELSE balance
    /\ Reply(m, 200, "goodData", state = "pending", Len(ledger) + 1)
    /\ UNCHANGED <<callerVars, call>>

Execute(m) == \E state \in {"pending", "success"} : Accept(m, state)

\* A pending operation is carried out, or reversed (card_transactions.go:24-29).
Settle(i) == /\ outcome[i] = "pending"
             /\ \/ /\ outcome' = [outcome EXCEPT ![i] = "success"]
                   /\ balance' = balance + ledger[i].delta
                \/ /\ outcome' = [outcome EXCEPT ![i] = "reversed"]
                   /\ balance' = balance
             /\ UNCHANGED <<callerVars, call, wire, replies, seen, ledger>>

RejectDuplicate(m) == /\ m.key \in seen
                      /\ Reply(m, 409, "statusFalse", FALSE, 0)
                      /\ UNCHANGED <<callerVars, call, serverVars>>

Decline(m) == /\ \E code \in {400, 413, 429, 500} : Reply(m, code, "statusFalse", FALSE, 0)
              /\ UNCHANGED <<callerVars, call, serverVars>>

Lose(m) == /\ wire' = wire \ {m}
           /\ UNCHANGED <<callerVars, call, replies, serverVars>>

\* Nobody will send key k again and no copy of it is on its way.
OutOfUse(k) == /\ \A w \in Workers : call[w].key # k
               /\ \A m \in wire : m.key # k
               /\ owner[k] \in Fresh \/ status[owner[k]] # "open"

\* The retention window (about 24 h, card_balance.go:46-47) closes after the
\* last copy of a key: retries are assumed to end within a day.
Expire(k) == /\ k \in seen /\ OutOfUse(k)
             /\ seen' = seen \ {k}
             /\ UNCHANGED <<callerVars, call, wire, replies, ledger, outcome, balance>>

-----------------------------------------------------------------------------

CallStep(w) == Refuse(w) \/ FailLocally(w) \/ Send(w) \/ Abandon(w) \/ Replay(w) \/ Receive(w)

CallerStep(w) == Record(w) \/ AssumeCommitted(w) \/ LeaveOpen(w) \/ Crash(w)

ServerStep(m) == Execute(m) \/ RejectDuplicate(m) \/ Decline(m) \/ Lose(m)

Next == \/ \E w \in Workers : CallStep(w) \/ CallerStep(w) \/ \E op \in Ops : Begin(w, op)
        \/ \E m \in wire : ServerStep(m)
        \/ \E i \in DOMAIN ledger : Settle(i)
        \/ \E k \in Keys : Expire(k)

\* Faulty variant: an HTTP client without a timeout.
NoTimeout(w) == FALSE

\* The default http.Client gives every request a minute (client.go:94-96), so
\* httpClient.Do cannot wait for ever.
Timeout(w) == Abandon(w)

\* The SDK's own steps are taken by a running goroutine.  Nothing is assumed of
\* the server, the network or the caller.
Fairness == \A w \in Workers : /\ WF_vars(Timeout(w))
                               /\ WF_vars(Refuse(w) \/ FailLocally(w) \/ Send(w))

Spec == Init /\ [][Next]_vars

FairSpec == Spec /\ Fairness

-----------------------------------------------------------------------------
(* Properties.                                                             *)

CallType == [pc : {"idle", "called", "sent", "returned"}, op : Ops \cup {NoOp},
             key : Keys \cup {NoKey, EmptyKey}, try : 0..MaxAttempts, conn : 0..MaxReplays,
             err : Errors, pending : BOOLEAN, tx : Nat]

RequestType == [key : Keys, body : [verb : {"add", "dec"}, amount : Int],
                id : Ops \X (1..MaxAttempts), conn : 0..MaxReplays]

ReplyType == [id : Ops \X (1..MaxAttempts), conn : 0..MaxReplays, code : Nat,
              body : Bodies, pending : BOOLEAN, tx : Nat]

TypeOK == /\ storeKey \in [Ops -> Keys \cup {NoKey}]
          /\ storeTx \in [Ops -> Nat]
          /\ status \in [Ops -> {"open", "assumed", "recorded"}]
          /\ attempts \in [Ops -> 0..MaxAttempts]
          /\ owner \in [Keys -> Ops \cup {NoOp}]
          /\ call \in [Workers -> CallType]
          /\ \A m \in wire : m \in RequestType
          /\ \A r \in replies : r \in ReplyType
          /\ seen \subseteq Keys
          /\ ledger \in Seq([key : Keys, delta : Int])
          /\ outcome \in Seq({"pending", "success", "reversed"})
          /\ DOMAIN outcome = DOMAIN ledger
          /\ balance \in Int

\* The keys that have been accepted: executed, or pending.
Accepted == {ledger[i].key : i \in DOMAIN ledger}

\* The keys whose operation is in a given state.
KeysIn(state) == {ledger[i].key : i \in {j \in DOMAIN ledger : outcome[j] = state}}

\* The ledger rows that carry out operation op.
Rows(op) == {i \in DOMAIN ledger : owner[ledger[i].key] = op}

\* No request that the SDK promised to refuse reaches the network: each has a
\* key and a positive decimal amount, the sign being the endpoint's
\* (card_balance.go:62-72).
OnlyValidRequests == \A m \in wire : m.key \in Keys /\ m.body.amount > 0

\* A key is accepted once, hence executed at most once, and so is an operation
\* whose caller reuses its key, under concurrent retries, crashes, lost answers
\* and re-sent requests; only CardBalance may have an operation executed twice
\* (card_balance.go:22-27, 42-44).
ExecutedAtMostOnce ==
    \A i, j \in DOMAIN ledger :
        /\ ledger[i].key = ledger[j].key => i = j
        /\ owner[ledger[i].key] = owner[ledger[j].key] => i = j \/ owner[ledger[i].key] \in Fresh

\* "First attempt already committed" (card_balance.go:55): a call that returns
\* ErrDuplicateIdempotencyKey used a key whose operation has been accepted, even
\* when the 409 answers a request that net/http re-sent.  Whether it is executed,
\* pending or reversed by now, a 409 does not say (card_balance.go:45-46).
DuplicateMeansCommitted ==
    \A w \in Workers :
        call[w].pc = "returned" /\ IsDuplicateIdempotencyKey(call[w].err) => call[w].key \in Accepted

\* RecordTransactionID (card_balance.go:59) records the id of a transaction
\* that was accepted for that very operation with that operation's amount.
RecordedTxIsOwn ==
    \A op \in Ops : status[op] = "recorded" =>
        /\ storeTx[op] \in Rows(op)
        /\ ledger[storeTx[op]].delta = Amount[op]

\* "Returns whether the operation is pending" (card_balance.go:30): when a call
\* returns a nil error and pending is false, its own operation has been carried
\* out with its amount, and nothing that happens while the caller handles the
\* result undoes it (card_balance.go:97).
NotPendingIsDone ==
    \A w \in Workers :
        call[w].pc = "returned" /\ call[w].err = NoError /\ ~call[w].pending =>
            /\ call[w].tx \in Rows(call[w].op)
            /\ ledger[call[w].tx].delta = Amount[call[w].op]
            /\ outcome[call[w].tx] = "success"

\* An operation the caller no longer retries, on the strength of a nil error or
\* of a 409, has been accepted with its amount, and with a stored key this is
\* final: no retry still in flight is accepted again, the caller does not reopen
\* it and no late answer replaces the recorded transaction
\* (card_balance.go:42-60).
SettledIsFinal ==
    [][\A op \in Ops : status[op] # "open" =>
          /\ \E i \in Rows(op) : ledger[i].delta = Amount[op]
          /\ status'[op] # "open"
          /\ op \notin Fresh => /\ Rows(op)' = Rows(op)
                                /\ status[op] = "recorded" => storeTx'[op] = storeTx[op]]_vars

OnceLedger == INSTANCE OnceLedger WITH
    pending <- KeysIn("pending"), applied <- KeysIn("success"), reversed <- KeysIn("reversed")

\* The whole system, seen through the keys drawn, what has become of each key
\* and the balance, is a ledger that applies each key's own amount at most
\* once, and nothing of a key that stays pending or is reversed.
ImplementsOnceLedger == OnceLedger!LedgerSpec

\* A call that waits for the server comes to an end, answered or not.
EveryCallReturns == \A w \in Workers : call[w].pc = "sent" ~> call[w].pc # "sent"

\* "recover txID from your store" (card_balance.go:55): the store of a caller
\* that is told of a duplicate holds the transaction id.
DuplicateIsRecoverable ==
    \A w \in Workers :
        call[w].pc = "returned" /\ IsDuplicateIdempotencyKey(call[w].err) =>
            storeTx[call[w].op] # 0

\* "Monetary endpoints automatically include an X-Idempotency-Key header for
\* retry-safe double-spend protection" (doc.go:6-8), read for every monetary
\* method: an operation retried after an error is executed once.
MonetaryRetrySafe ==
    \A i, j \in DOMAIN ledger :
        /\ owner[ledger[i].key] = owner[ledger[j].key]
        /\ outcome[i] = "success" /\ outcome[j] = "success"
        => i = j

\* The sentinels are "exposed as wrappable values [...] so the StatusCode/Body
\* fields of the underlying APIError remain available via errors.As"
\* (client.go:218-221): an error that wraps a sentinel has an APIError in its
\* chain for IsAPIError to find.
SentinelsKeepAPIError ==
    \A w \in Workers : call[w].pc = "returned" /\ call[w].err \in Sentinels => IsAPIError(call[w].err)

=============================================================================
