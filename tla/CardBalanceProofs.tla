--------------------------- MODULE CardBalanceProofs ---------------------------
(***************************************************************************)
(* Proofs about CardBalance, for any operations, workers, keys, amounts    *)
(* and bounds.  The inductive invariant follows a key from the caller's    *)
(* store over the calls and the wire into the server's ledger.             *)
(***************************************************************************)
EXTENDS CardBalance, SequenceTheorems, TLAPS

\* Every call in progress is a counted attempt made with its operation's key.
CallOwned(w) ==
    \/ call[w] = IdleCall
    \/ /\ call[w].pc \in {"called", "sent", "returned"}
       /\ call[w].op \in Ops
       /\ call[w].try \in 1..attempts[call[w].op]
       /\ call[w].key # EmptyKey => call[w].key \in Keys /\ owner[call[w].key] = call[w].op
       /\ call[w].pc = "sent" => call[w].key \in Keys

CallsOwned == \A w \in Workers : CallOwned(w)

\* Every request carries the key and the signed amount of one operation.
RequestsOwned ==
    \A m \in wire : owner[m.key] \in Ops /\ Delta(m) = Amount[owner[m.key]]

\* A stored operation has the key in its store and no other.
StoreOwned ==
    /\ \A op \in Ops : storeKey[op] # NoKey => op \notin Fresh /\ owner[storeKey[op]] = op
    /\ \A k \in Keys : owner[k] \in Ops \ Fresh => storeKey[owner[k]] = k

\* Nobody will execute key k again, whether or not the server remembers it.
Dead(k) == /\ \A w \in Workers : call[w].key # k
           /\ \A m \in wire : m.key # k
           /\ owner[k] \in Fresh \/ status[owner[k]] # "open"

\* The ledger holds each key once, with its operation's amount; the server
\* remembers every accepted key that is not dead.
LedgerOnce ==
    /\ \A i \in DOMAIN ledger : /\ owner[ledger[i].key] \in Ops
                                /\ ledger[i].delta = Amount[owner[ledger[i].key]]
    /\ \A i, j \in DOMAIN ledger : ledger[i].key = ledger[j].key => i = j
    /\ \A k \in Accepted : k \in seen \/ Dead(k)
    /\ seen \subseteq Accepted

IInv == TypeOK /\ CallsOwned /\ RequestsOwned /\ StoreOwned /\ LedgerOnce

-----------------------------------------------------------------------------
(* Type correctness.                                                       *)

LEMMA ErrorsTyped ==
    \A code \in Nat, body \in Bodies :
        RequestAPIError(code, body) \in Errors /\ CallError(code, body) \in Errors
BY DEF RequestAPIError, CallError, ClassifyStatus, EnvelopeError, Errors, Sentinels, NoError, Bodies

LEMMA IdleTyped == BalanceAssumption => IdleCall \in CallType
BY DEF IdleCall, CallType, Errors, BalanceAssumption

\* A request built from a typed call with a real key is typed.
LEMMA RequestTyped ==
    ASSUME NEW c \in CallType, NEW conn \in 0..MaxReplays,
           c.op \in Ops, c.key \in Keys, c.try # 0
    PROVE  Request(c, conn) \in RequestType
<1>1. Amount[c.op] \in Int /\ c.try \in 1..MaxAttempts
  BY BalanceAssumption DEF CallType
<1>2. BalanceBody(Amount[c.op]) \in [verb : {"add", "dec"}, amount : Int]
  BY <1>1 DEF BalanceBody
<1>3. QED
  BY <1>1, <1>2 DEF Request, RequestType, RequestId

\* The calls of the other workers and the other fields stay as they were.
LEMMA ReturnTyped ==
    ASSUME TypeOK, NEW w \in Workers, NEW err \in Errors, NEW pending \in BOOLEAN, NEW tx \in Nat,
           Return(w, err, pending, tx)
    PROVE  call' \in [Workers -> CallType]
<1>1. call[w] \in CallType
  BY DEF TypeOK
<1>2. [call[w] EXCEPT !.pc = "returned", !.err = err, !.pending = pending, !.tx = tx] \in CallType
  BY <1>1 DEF CallType
<1>3. QED
  BY <1>2 DEF TypeOK, Return

LEMMA ReplyTyped ==
    ASSUME TypeOK, NEW m \in wire, NEW code \in Nat, NEW body \in Bodies, NEW pending \in BOOLEAN,
           NEW tx \in Nat, Reply(m, code, body, pending, tx)
    PROVE  /\ wire' \subseteq wire
           /\ \A r \in replies' : r \in ReplyType
BY DEF TypeOK, Reply, ReplyType, RequestType

LEMMA RowTyped ==
    ASSUME TypeOK, NEW i \in DOMAIN ledger
    PROVE  ledger[i].key \in Keys /\ ledger[i].delta \in Int
<1>1. ledger \in Seq([key : Keys, delta : Int])
  BY DEF TypeOK
<1>2. ASSUME NEW S, ledger \in Seq(S) PROVE ledger[i] \in S
  BY <1>2
<1>3. ledger[i] \in [key : Keys, delta : Int]
  BY <1>1, <1>2
<1>4. QED
  BY <1>3

LEMMA TypeStep == TypeOK /\ CallsOwned /\ [Next]_vars => TypeOK'
<1> SUFFICES ASSUME TypeOK, CallsOwned, [Next]_vars PROVE TypeOK'
  OBVIOUS
<1> USE BalanceAssumption
<1>0. IdleCall \in CallType
  BY IdleTyped
<1>1. ASSUME NEW w \in Workers, NEW op \in Ops, Begin(w, op) PROVE TypeOK'
  <2>1. PICK k \in KeysFor(op) :
          /\ owner' = IF k = EmptyKey THEN owner ELSE [owner EXCEPT ![k] = op]
          /\ storeKey' = IF k = EmptyKey \/ op \in Fresh THEN storeKey
                         ELSE [storeKey EXCEPT ![op] = k]
          /\ call' = [call EXCEPT ![w] = [IdleCall EXCEPT !.pc = "called", !.op = op, !.key = k,
                                                          !.try = attempts[op] + 1]]
    BY <1>1 DEF Begin
  <2>2. k \in Keys \cup {EmptyKey}
    BY DEF KeysFor, Unused, TypeOK
  <2>3. attempts[op] + 1 \in 0..MaxAttempts
    BY <1>1 DEF Begin, TypeOK
  <2>4. call' \in [Workers -> CallType]
    BY <2>1, <2>2, <2>3, <1>0 DEF TypeOK, CallType
  <2>5. /\ storeKey' \in [Ops -> Keys \cup {NoKey}]
        /\ owner' \in [Keys -> Ops \cup {NoOp}]
        /\ attempts' \in [Ops -> 0..MaxAttempts]
    BY <1>1, <2>1, <2>2, <2>3 DEF TypeOK, Begin
  <2>6. QED
    BY <1>1, <2>4, <2>5 DEF TypeOK, Begin, serverVars
<1>2. ASSUME NEW w \in Workers, Refuse(w) PROVE TypeOK'
  BY <1>2, ReturnTyped DEF TypeOK, Refuse, callerVars, serverVars, Errors
<1>3. ASSUME NEW w \in Workers, FailLocally(w) PROVE TypeOK'
  BY <1>3, ReturnTyped DEF TypeOK, FailLocally, callerVars, serverVars, Errors
<1>4. ASSUME NEW w \in Workers, Send(w) PROVE TypeOK'
  <2>1. /\ call[w] \in CallType /\ call[w].op \in Ops /\ call[w].key \in Keys /\ call[w].try # 0
    BY <1>4 DEF TypeOK, CallsOwned, CallOwned, Send, Invalid, IdleCall
  <2>2. Request(call[w], 0) \in RequestType
    BY <2>1, RequestTyped
  <2>3. call' \in [Workers -> CallType]
    <3>1. [call[w] EXCEPT !.pc = "sent"] \in CallType
      BY <2>1 DEF CallType
    <3>2. QED
      BY <1>4, <3>1 DEF TypeOK, Send
  <2>4. QED
    BY <1>4, <2>2, <2>3 DEF TypeOK, Send, callerVars, serverVars
<1>5. ASSUME NEW w \in Workers, Abandon(w) PROVE TypeOK'
  BY <1>5, ReturnTyped DEF TypeOK, Abandon, RepliesWithout, callerVars, serverVars, Errors
<1>6. ASSUME NEW w \in Workers, Replay(w) PROVE TypeOK'
  <2>1. /\ call[w] \in CallType /\ call[w].op \in Ops /\ call[w].key \in Keys /\ call[w].try # 0
        /\ call[w].conn + 1 \in 0..MaxReplays
    BY <1>6 DEF TypeOK, CallsOwned, CallOwned, Replay, IdleCall, CallType
  <2>2. Request(call[w], call[w].conn + 1) \in RequestType
    BY <2>1, RequestTyped
  <2>3. call' \in [Workers -> CallType]
    BY <1>6, <2>1 DEF TypeOK, Replay, CallType
  <2>4. QED
    BY <1>6, <2>2, <2>3 DEF TypeOK, Replay, RepliesWithout, callerVars, serverVars
<1>7. ASSUME NEW w \in Workers, Receive(w) PROVE TypeOK'
  <2>1. PICK r \in replies : /\ \E got \in Arrivals(r) : Return(w, ResultError(got), ResultPending(got), ResultTx(got))
                             /\ replies' = replies \ {r}
    BY <1>7 DEF Receive
  <2>2. PICK got \in Arrivals(r) : Return(w, ResultError(got), ResultPending(got), ResultTx(got))
    BY <2>1
  <2>3. got \in ReplyType
    <3>1. r \in ReplyType
      BY DEF TypeOK
    <3>2. \A s \in ReplyType, body \in Bodies : [s EXCEPT !.body = body] \in ReplyType
      BY DEF ReplyType
    <3>3. [r EXCEPT !.code = 502, !.body = "nonJSON"] \in ReplyType
      <4> DEFINE s == [r EXCEPT !.code = 502]
      <4>1. s \in ReplyType
        BY <3>1 DEF ReplyType
      <4>2. \A t \in ReplyType : [t EXCEPT !.body = "nonJSON"] \in ReplyType
        BY <3>2 DEF Bodies
      <4>3. [s EXCEPT !.body = "nonJSON"] \in ReplyType
        <5> HIDE DEF s
        <5>1. QED
          BY <4>1, <4>2
      <4>4. [r EXCEPT !.code = 502, !.body = "nonJSON"] = [s EXCEPT !.body = "nonJSON"]
        OBVIOUS
      <4>5. QED
        BY <4>3, <4>4
    <3>4. [r EXCEPT !.body = "unreadable"] \in ReplyType /\ [r EXCEPT !.body = "badData"] \in ReplyType
      BY <3>1, <3>2 DEF Bodies
    <3>5. Arrivals(r) \subseteq ReplyType
      BY <3>1, <3>3, <3>4 DEF Arrivals
    <3>6. QED
      BY <3>5
  <2>4. ResultError(got) \in Errors /\ ResultPending(got) \in BOOLEAN /\ ResultTx(got) \in Nat
    <3>1. ResultError(got) \in Errors /\ got.pending \in BOOLEAN /\ got.tx \in Nat
      BY <2>3, ErrorsTyped DEF ResultError, ReplyType
    <3>2. QED
      BY <3>1 DEF ResultPending, ResultTx
  <2>5. QED
    BY <1>7, <2>1, <2>2, <2>4, ReturnTyped DEF TypeOK, Receive, callerVars, serverVars
<1>8. ASSUME NEW w \in Workers, Record(w) PROVE TypeOK'
  <2>1. call[w].op \in Ops /\ call[w].tx \in Nat
    BY <1>8 DEF TypeOK, CallsOwned, CallOwned, Record, IdleCall, CallType
  <2>2. QED
    BY <1>8, <2>1, <1>0 DEF TypeOK, Record, serverVars
<1>9. ASSUME NEW w \in Workers, AssumeCommitted(w) PROVE TypeOK'
  BY <1>9, <1>0 DEF TypeOK, AssumeCommitted, serverVars
<1>10. ASSUME NEW w \in Workers, LeaveOpen(w) \/ Crash(w) PROVE TypeOK'
  BY <1>10, <1>0 DEF TypeOK, LeaveOpen, Crash, RepliesWithout, callerVars, serverVars
<1>11. ASSUME NEW m \in wire, Execute(m) PROVE TypeOK'
  <2>1. m \in RequestType
    BY DEF TypeOK
  <2>2. Delta(m) \in Int /\ m.key \in Keys
    BY <2>1 DEF Delta, RequestType
  <2>3. Len(ledger) + 1 \in Nat
    BY DEF TypeOK
  <2>4. PICK state \in {"pending", "success"} : Accept(m, state)
    BY <1>11 DEF Execute
  <2>5. wire' \subseteq wire /\ \A r \in replies' : r \in ReplyType
    <3>1. PICK pending \in BOOLEAN : Reply(m, 200, "goodData", pending, Len(ledger) + 1)
      BY <2>4 DEF Accept
    <3>2. QED
      BY <2>3, <3>1, ReplyTyped DEF Bodies
  <2>6. ledger' \in Seq([key : Keys, delta : Int]) /\ seen' \subseteq Keys /\ balance' \in Int
    BY <2>2, <2>4 DEF TypeOK, Accept
  <2>7. outcome' \in Seq({"pending", "success", "reversed"}) /\ DOMAIN outcome' = DOMAIN ledger'
    <3>1. outcome \in Seq({"pending", "success", "reversed"}) /\ DOMAIN outcome = DOMAIN ledger
          /\ ledger \in Seq([key : Keys, delta : Int])
      BY DEF TypeOK
    <3>2. outcome' = Append(outcome, state) /\ ledger' = Append(ledger, [key |-> m.key, delta |-> Delta(m)])
      BY <2>4 DEF Accept
    <3>3. Len(outcome) = Len(ledger)
      BY <3>1
    <3>4. QED
      BY <2>2, <3>1, <3>2, <3>3
  <2>8. QED
    BY <2>4, <2>5, <2>6, <2>7 DEF TypeOK, Accept, callerVars
<1>12. ASSUME NEW m \in wire, RejectDuplicate(m) \/ Decline(m) PROVE TypeOK'
  <2>1. PICK code \in Nat : Reply(m, code, "statusFalse", FALSE, 0)
    <3>1. 409 \in Nat /\ {400, 413, 429, 500} \subseteq Nat
      OBVIOUS
    <3>2. CASE RejectDuplicate(m)
      BY <3>1, <3>2, Zenon DEF RejectDuplicate
    <3>3. CASE Decline(m)
      BY <3>1, <3>3, Zenon DEF Decline
    <3>4. QED
      BY <1>12, <3>2, <3>3
  <2>2. wire' \subseteq wire /\ \A r \in replies' : r \in ReplyType
    BY <2>1, ReplyTyped DEF Bodies
  <2>3. UNCHANGED <<callerVars, call, serverVars>>
    BY <1>12 DEF RejectDuplicate, Decline
  <2>4. QED
    BY <2>2, <2>3 DEF TypeOK, callerVars, serverVars
<1>13. ASSUME NEW m \in wire, Lose(m) PROVE TypeOK'
  BY <1>13 DEF TypeOK, Lose, callerVars, serverVars
<1>14. ASSUME NEW k \in Keys, Expire(k) PROVE TypeOK'
  BY <1>14 DEF TypeOK, Expire, callerVars
<1>15. ASSUME NEW i \in DOMAIN ledger, Settle(i) PROVE TypeOK'
  <2>1. ledger[i].delta \in Int
    BY RowTyped
  <2>2. balance' \in Int
    BY <1>15, <2>1 DEF Settle, TypeOK
  <2>3. outcome' \in Seq({"pending", "success", "reversed"}) /\ DOMAIN outcome' = DOMAIN ledger
    <3>1. outcome \in Seq({"pending", "success", "reversed"}) /\ DOMAIN outcome = DOMAIN ledger
      BY DEF TypeOK
    <3>2. PICK decision \in {"pending", "success", "reversed"} : outcome' = [outcome EXCEPT ![i] = decision]
      BY <1>15 DEF Settle
    <3>3. i \in 1..Len(outcome)
      BY <1>15, <3>1
    <3>4. QED
      BY <3>1, <3>2, <3>3, ExceptSeq
  <2>4. QED
    BY <1>15, <2>2, <2>3 DEF Settle, TypeOK, callerVars
<1>16. CASE UNCHANGED vars
  BY <1>16 DEF TypeOK, vars, callerVars, serverVars
<1>17. QED
  BY <1>1, <1>2, <1>3, <1>4, <1>5, <1>6, <1>7, <1>8, <1>9, <1>10, <1>11, <1>12, <1>13, <1>14, <1>15, <1>16
  DEF Next, CallStep, CallerStep, ServerStep

-----------------------------------------------------------------------------
(* What the actions do to a call, field by field.                          *)

LEMMA ReturnEffect ==
    ASSUME TypeOK, NEW w \in Workers, NEW err, NEW pending, NEW tx, Return(w, err, pending, tx)
    PROVE  /\ call'[w].pc = "returned" /\ call'[w].err = err
           /\ call'[w].pending = pending /\ call'[w].tx = tx
           /\ call'[w].op = call[w].op /\ call'[w].key = call[w].key /\ call'[w].try = call[w].try
           /\ \A v \in Workers \ {w} : call'[v] = call[v]
<1>1. call[w] \in CallType /\ call'[w] = [call[w] EXCEPT !.pc = "returned", !.err = err, !.pending = pending, !.tx = tx]
  BY DEF TypeOK, Return
<1>2. \A v \in Workers \ {w} : call'[v] = call[v]
  BY DEF TypeOK, Return
<1>3. QED
  BY <1>1, <1>2 DEF CallType

\* Send and Replay put exactly one request on the wire, for the call's key.
LEMMA SendEffect ==
    ASSUME TypeOK, CallsOwned, NEW w \in Workers, Send(w) \/ Replay(w)
    PROVE  /\ call[w].pc \in {"called", "sent"} /\ call'[w].pc = "sent"
           /\ call'[w].op = call[w].op /\ call'[w].key = call[w].key /\ call'[w].try = call[w].try
           /\ call'[w].err = call[w].err /\ call'[w].tx = call[w].tx
           /\ \A v \in Workers \ {w} : call'[v] = call[v]
           /\ call[w].op \in Ops /\ call[w].key \in Keys /\ owner[call[w].key] = call[w].op
           /\ \E conn \in Nat : wire' = wire \cup {Request(call[w], conn)}
           /\ replies' \subseteq replies
<1>1. call[w] \in CallType
  BY DEF TypeOK
<1>2. /\ call[w].op \in Ops /\ call[w].key \in Keys /\ owner[call[w].key] = call[w].op
      /\ call[w].pc \in {"called", "sent"}
  <2>1. call[w].pc \in {"called", "sent"} /\ call[w].key # EmptyKey
    <3>1. CASE Send(w)
      BY <3>1 DEF Send, Invalid
    <3>2. CASE Replay(w)
      BY <3>2, BalanceAssumption DEF Replay, CallsOwned, CallOwned, IdleCall
    <3>3. QED
      BY <3>1, <3>2
  <2>2. call[w] # IdleCall
    BY <2>1 DEF IdleCall
  <2>3. QED
    BY <2>1, <2>2 DEF CallsOwned, CallOwned
<1>3. CASE Send(w)
  <2>1. call'[w] = [call[w] EXCEPT !.pc = "sent"] /\ \A v \in Workers \ {w} : call'[v] = call[v]
    BY <1>3 DEF TypeOK, Send
  <2>2. wire' = wire \cup {Request(call[w], 0)} /\ replies' = replies
    BY <1>3 DEF Send
  <2>3. QED
    BY <1>1, <1>2, <2>1, <2>2 DEF CallType
<1>4. CASE Replay(w)
  <2>1. /\ call'[w] = [call[w] EXCEPT !.conn = @ + 1] /\ call[w].pc = "sent"
        /\ \A v \in Workers \ {w} : call'[v] = call[v]
    BY <1>4 DEF TypeOK, Replay
  <2>2. /\ wire' = wire \cup {Request(call[w], call[w].conn + 1)} /\ call[w].conn + 1 \in Nat
        /\ replies' \subseteq replies
    BY <1>1, <1>4, BalanceAssumption DEF Replay, CallType, RepliesWithout
  <2>3. QED
    BY <1>1, <1>2, <2>1, <2>2 DEF CallType
<1>5. QED
  BY <1>3, <1>4

LEMMA RequestEffect ==
    ASSUME NEW c, NEW conn, c.op \in Ops
    PROVE  LET m == Request(c, conn)
           IN  m.key = c.key /\ m.id = RequestId(c) /\ Delta(m) = Amount[c.op]
<1>1. Amount[c.op] \in Int
  BY BalanceAssumption
<1>2. QED
  BY <1>1 DEF Request, Delta, BalanceBody

\* A call begins with its operation's own key, and an old owner is never lost.
LEMMA BeginEffect ==
    ASSUME TypeOK, StoreOwned, NEW w \in Workers, NEW op \in Ops, Begin(w, op)
    PROVE  /\ call'[w].pc = "called" /\ call'[w].op = op /\ call'[w].try = attempts[op] + 1
           /\ \A v \in Workers \ {w} : call'[v] = call[v]
           /\ attempts' = [attempts EXCEPT ![op] = @ + 1]
           /\ \A k \in Keys : owner[k] # NoOp => owner'[k] = owner[k]
           /\ call'[w].key # EmptyKey =>
                 /\ call'[w].key \in Keys /\ owner'[call'[w].key] = op
                 /\ \/ owner[call'[w].key] = NoOp
                    \/ op \notin Fresh /\ owner[call'[w].key] = op /\ status[op] = "open"
           /\ StoreOwned'
<1>1. PICK k \in KeysFor(op) :
        /\ owner' = IF k = EmptyKey THEN owner ELSE [owner EXCEPT ![k] = op]
        /\ storeKey' = IF k = EmptyKey \/ op \in Fresh THEN storeKey
                       ELSE [storeKey EXCEPT ![op] = k]
        /\ call' = [call EXCEPT ![w] = [IdleCall EXCEPT !.pc = "called", !.op = op, !.key = k,
                                                        !.try = attempts[op] + 1]]
  BY DEF Begin
<1>2. k # EmptyKey => /\ k \in Keys
                      /\ \/ owner[k] = NoOp /\ (op \in Fresh \/ storeKey[op] = NoKey)
                         \/ op \notin Fresh /\ owner[k] = op /\ storeKey[op] = k
  BY DEF KeysFor, Unused, StoreOwned, TypeOK
<1>3. call'[w] = [IdleCall EXCEPT !.pc = "called", !.op = op, !.key = k, !.try = attempts[op] + 1]
  BY <1>1 DEF TypeOK
<1>4. /\ call'[w].pc = "called" /\ call'[w].op = op /\ call'[w].key = k
      /\ call'[w].try = attempts[op] + 1
  BY <1>3 DEF IdleCall
<1>5. \A v \in Workers \ {w} : call'[v] = call[v]
  BY <1>1 DEF TypeOK
<1>6. /\ \A j \in Keys : owner[j] # NoOp => owner'[j] = owner[j]
      /\ k # EmptyKey => owner'[k] = op
  BY <1>1, <1>2, BalanceAssumption DEF TypeOK
<1>7. StoreOwned'
  <2>1. CASE k = EmptyKey
    BY <1>1, <2>1 DEF StoreOwned
  <2>2. CASE k # EmptyKey /\ op \in Fresh
    <3>1. storeKey' = storeKey /\ owner' = [owner EXCEPT ![k] = op] /\ owner[k] \in {NoOp, op}
      BY <1>1, <1>2, <2>2
    <3>2. QED
      BY <1>6, <2>2, <3>1, BalanceAssumption DEF TypeOK, StoreOwned
  <2>3. CASE k # EmptyKey /\ op \notin Fresh
    <3>1. /\ storeKey' = [storeKey EXCEPT ![op] = k] /\ owner' = [owner EXCEPT ![k] = op]
          /\ storeKey[op] \in {NoKey, k} /\ k \in Keys
      BY <1>1, <1>2, <2>3
    <3>2. \A p \in Ops : storeKey'[p] # NoKey => p \notin Fresh /\ owner'[storeKey'[p]] = p
      BY <1>6, <2>3, <3>1, BalanceAssumption DEF TypeOK, StoreOwned
    <3>3. \A j \in Keys : owner'[j] \in Ops \ Fresh => storeKey'[owner'[j]] = j
      BY <1>2, <2>3, <3>1, BalanceAssumption DEF TypeOK, StoreOwned
    <3>4. QED
      BY <3>2, <3>3 DEF StoreOwned
  <2>4. QED
    BY <2>1, <2>2, <2>3
<1>8. QED
  BY <1>2, <1>4, <1>5, <1>6, <1>7 DEF Begin

\* A call that ends touches nothing but itself and the answers it gives up.
LEMMA EndEffect ==
    ASSUME TypeOK, CallsOwned, NEW w \in Workers,
           Refuse(w) \/ FailLocally(w) \/ Abandon(w) \/ Receive(w)
    PROVE  /\ call[w].pc \in {"called", "sent"} /\ call'[w].pc = "returned"
           /\ call'[w].op = call[w].op /\ call'[w].key = call[w].key /\ call'[w].try = call[w].try
           /\ \A v \in Workers \ {w} : call'[v] = call[v]
           /\ UNCHANGED <<callerVars, wire, serverVars>> /\ replies' \subseteq replies
<1>1. \E err, pending, tx : Return(w, err, pending, tx)
  BY DEF Refuse, FailLocally, Abandon, Receive
<1>2. /\ call[w].pc \in {"called", "sent"}
      /\ UNCHANGED <<callerVars, wire, serverVars>> /\ replies' \subseteq replies
  BY DEF Refuse, FailLocally, Abandon, Receive, RepliesWithout, Awaits
<1>3. QED
  BY <1>1, <1>2, ReturnEffect

\* A worker that is done with its call, or dies, forgets it; only its own
\* operation's status and recorded transaction may change.
LEMMA ForgetEffect ==
    ASSUME TypeOK, NEW w \in Workers,
           Record(w) \/ AssumeCommitted(w) \/ LeaveOpen(w) \/ Crash(w)
    PROVE  /\ call'[w] = IdleCall /\ call[w].pc # "idle"
           /\ \A v \in Workers \ {w} : call'[v] = call[v]
           /\ UNCHANGED <<storeKey, attempts, owner, wire, serverVars>> /\ replies' \subseteq replies
           /\ \A op \in Ops : status[op] # "open" => status'[op] # "open"
BY DEF Record, AssumeCommitted, LeaveOpen, Crash, TypeOK, RepliesWithout, callerVars, serverVars

\* The server and the network only take requests off the wire.
LEMMA ServerEffect ==
    ASSUME TypeOK, NEW m \in wire, ServerStep(m)
    PROVE  UNCHANGED <<callerVars, call>> /\ wire' \subseteq wire
BY DEF ServerStep, Execute, Accept, RejectDuplicate, Decline, Lose, Reply, callerVars

-----------------------------------------------------------------------------
(* The inductive invariant.                                                *)

LEMMA CallsOwnedStep == IInv /\ [Next]_vars => CallsOwned'
<1> SUFFICES ASSUME IInv, [Next]_vars, NEW v \in Workers PROVE CallOwned(v)'
  BY DEF CallsOwned
<1>0. TypeOK /\ CallsOwned /\ StoreOwned /\ CallOwned(v)
  BY DEF IInv, CallsOwned
<1>1. ASSUME NEW w \in Workers, NEW op \in Ops, Begin(w, op) PROVE CallOwned(v)'
  <2>1. CASE v = w
    <3>1. attempts[op] \in Nat /\ attempts'[op] = attempts[op] + 1
      BY <1>0, <1>1, BeginEffect, BalanceAssumption DEF TypeOK
    <3>2. QED
      BY <1>0, <1>1, <2>1, <3>1, BeginEffect DEF CallOwned
  <2>2. CASE v # w
    <3>1. call'[v] = call[v] /\ \A k \in Keys : owner[k] # NoOp => owner'[k] = owner[k]
      BY <1>0, <1>1, <2>2, BeginEffect
    <3>2. \A p \in Ops : attempts[p] \in Nat /\ attempts'[p] \in {attempts[p], attempts[p] + 1}
      BY <1>0, <1>1, BeginEffect, BalanceAssumption DEF TypeOK
    <3>3. CASE call[v].op \in Ops
      <4>1. 1..attempts[call[v].op] \subseteq 1..attempts'[call[v].op]
        BY <3>2, <3>3
      <4>2. QED
        BY <1>0, <3>1, <3>3, <4>1, BalanceAssumption DEF CallOwned
    <3>4. CASE call[v].op \notin Ops
      BY <1>0, <3>1, <3>4 DEF CallOwned
    <3>5. QED
      BY <3>3, <3>4
  <2>3. QED
    BY <2>1, <2>2
<1>2. ASSUME NEW w \in Workers, Refuse(w) \/ FailLocally(w) \/ Abandon(w) \/ Receive(w)
      PROVE  CallOwned(v)'
  <2>1. /\ attempts' = attempts /\ owner' = owner
    BY <1>0, <1>2, EndEffect DEF callerVars
  <2>2. CASE v = w
    BY <1>0, <1>2, <2>1, <2>2, EndEffect DEF CallOwned, IdleCall
  <2>3. CASE v # w
    BY <1>0, <1>2, <2>1, <2>3, EndEffect DEF CallOwned
  <2>4. QED
    BY <2>2, <2>3
<1>3. ASSUME NEW w \in Workers, Send(w) \/ Replay(w) PROVE CallOwned(v)'
  <2>1. /\ attempts' = attempts /\ owner' = owner
    BY <1>3 DEF Send, Replay, callerVars
  <2>2. CASE v = w
    BY <1>0, <1>3, <2>1, <2>2, SendEffect DEF CallOwned, IdleCall
  <2>3. CASE v # w
    BY <1>0, <1>3, <2>1, <2>3, SendEffect DEF CallOwned
  <2>4. QED
    BY <2>2, <2>3
<1>4. ASSUME NEW w \in Workers, Record(w) \/ AssumeCommitted(w) \/ LeaveOpen(w) \/ Crash(w)
      PROVE  CallOwned(v)'
  BY <1>0, <1>4, ForgetEffect DEF CallOwned, IdleCall
<1>5. ASSUME NEW m \in wire, ServerStep(m) PROVE CallOwned(v)'
  BY <1>0, <1>5, ServerEffect DEF CallOwned, callerVars
<1>6. ASSUME NEW k, Expire(k) \/ Settle(k) PROVE CallOwned(v)'
  BY <1>0, <1>6 DEF CallOwned, Expire, Settle, callerVars
<1>7. CASE UNCHANGED vars
  BY <1>0, <1>7 DEF CallOwned, vars, callerVars
<1>8. QED
  BY <1>1, <1>2, <1>3, <1>4, <1>5, <1>6, <1>7 DEF Next, CallStep, CallerStep

LEMMA RequestsOwnedStep == IInv /\ [Next]_vars => RequestsOwned'
<1> SUFFICES ASSUME IInv, [Next]_vars, NEW m \in wire'
             PROVE  owner'[m.key] \in Ops /\ Delta(m) = Amount[owner'[m.key]]
  BY DEF RequestsOwned
<1>0. TypeOK /\ CallsOwned /\ RequestsOwned /\ StoreOwned
  BY DEF IInv
<1>1. ASSUME NEW w \in Workers, NEW op \in Ops, Begin(w, op) PROVE owner'[m.key] = owner[m.key] /\ m \in wire
  <2>1. m \in wire /\ m.key \in Keys /\ owner[m.key] # NoOp
    BY <1>0, <1>1, BalanceAssumption DEF Begin, TypeOK, RequestsOwned, RequestType
  <2>2. QED
    BY <1>0, <1>1, <2>1, BeginEffect
<1>2. ASSUME NEW w \in Workers, Send(w) \/ Replay(w)
      PROVE  owner'[m.key] \in Ops /\ Delta(m) = Amount[owner'[m.key]]
  <2>1. owner' = owner
    BY <1>2 DEF Send, Replay, callerVars
  <2>2. CASE m \in wire
    BY <1>0, <2>1, <2>2 DEF RequestsOwned
  <2>3. CASE \E conn : m = Request(call[w], conn)
    BY <1>0, <1>2, <2>1, <2>3, SendEffect, RequestEffect
  <2>4. QED
    BY <1>0, <1>2, <2>2, <2>3, SendEffect
<1>3. ASSUME wire' \subseteq wire, owner' = owner
      PROVE  owner'[m.key] \in Ops /\ Delta(m) = Amount[owner'[m.key]]
  BY <1>0, <1>3 DEF RequestsOwned
<1>4. ASSUME NEW w \in Workers,
             \/ Refuse(w) \/ FailLocally(w) \/ Abandon(w) \/ Receive(w)
             \/ Record(w) \/ AssumeCommitted(w) \/ LeaveOpen(w) \/ Crash(w)
      PROVE  wire' \subseteq wire /\ owner' = owner
  BY <1>0, <1>4, EndEffect, ForgetEffect DEF callerVars
<1>5. ASSUME NEW r \in wire, ServerStep(r) PROVE wire' \subseteq wire /\ owner' = owner
  BY <1>0, <1>5, ServerEffect DEF callerVars
<1>6. ASSUME NEW k, Expire(k) \/ Settle(k) PROVE wire' \subseteq wire /\ owner' = owner
  BY <1>6 DEF Expire, Settle, callerVars
<1>7. CASE UNCHANGED vars
  BY <1>3, <1>7 DEF vars, callerVars
<1>8. QED
  BY <1>0, <1>1, <1>2, <1>3, <1>4, <1>5, <1>6, <1>7 DEF Next, CallStep, CallerStep, RequestsOwned

\* A key stands for one operation for ever.
LEMMA OwnerKept ==
    ASSUME TypeOK, CallsOwned, StoreOwned, [Next]_vars, NEW k \in Keys, owner[k] # NoOp
    PROVE  owner'[k] = owner[k]
<1>1. ASSUME NEW w \in Workers, NEW op \in Ops, Begin(w, op) PROVE owner'[k] = owner[k]
  BY <1>1, BeginEffect
<1>2. ASSUME NEW w \in Workers, CallStep(w) \/ CallerStep(w) PROVE owner' = owner
  BY <1>2 DEF CallStep, CallerStep, Refuse, FailLocally, Send, Abandon, Replay, Receive,
              Record, AssumeCommitted, LeaveOpen, Crash, callerVars
<1>3. ASSUME NEW m \in wire, ServerStep(m) PROVE owner' = owner
  BY <1>3, ServerEffect DEF callerVars
<1>4. ASSUME NEW j, Expire(j) \/ Settle(j) PROVE owner' = owner
  BY <1>4 DEF Expire, Settle, callerVars
<1>5. CASE UNCHANGED vars
  BY <1>5 DEF vars, callerVars
<1>6. QED
  BY <1>1, <1>2, <1>3, <1>4, <1>5 DEF Next

\* A dead key stays dead: its operation is settled, or drew it for one call.
LEMMA DeadStays ==
    ASSUME IInv, [Next]_vars, NEW k \in Keys, owner[k] \in Ops, Dead(k)
    PROVE  Dead(k)'
<1>0. TypeOK /\ CallsOwned /\ StoreOwned /\ NoKey # k /\ owner'[k] = owner[k]
  BY OwnerKept, BalanceAssumption DEF IInv
<1>1. ASSUME NEW w \in Workers, NEW op \in Ops, Begin(w, op) PROVE Dead(k)'
  <2>1. wire' = wire /\ status' = status
    BY <1>1 DEF Begin
  <2>2. call'[w].key # k
    BY <1>0, <1>1, BeginEffect, BalanceAssumption DEF Dead
  <2>3. QED
    BY <1>0, <1>1, <2>1, <2>2, BeginEffect DEF Dead
<1>2. ASSUME NEW w \in Workers, Refuse(w) \/ FailLocally(w) \/ Abandon(w) \/ Receive(w)
      PROVE  Dead(k)'
  BY <1>0, <1>2, EndEffect DEF Dead, callerVars
<1>3. ASSUME NEW w \in Workers, Send(w) \/ Replay(w) PROVE Dead(k)'
  <2>1. status' = status
    BY <1>3 DEF Send, Replay, callerVars
  <2>2. PICK conn \in Nat : wire' = wire \cup {Request(call[w], conn)}
    BY <1>0, <1>3, SendEffect
  <2>3. Request(call[w], conn).key # k
    BY <1>0, <1>3, SendEffect, RequestEffect DEF Dead
  <2>4. QED
    BY <1>0, <1>3, <2>1, <2>2, <2>3, SendEffect DEF Dead
<1>4. ASSUME NEW w \in Workers, Record(w) \/ AssumeCommitted(w) \/ LeaveOpen(w) \/ Crash(w)
      PROVE  Dead(k)'
  BY <1>0, <1>4, ForgetEffect DEF Dead, IdleCall
<1>5. ASSUME NEW m \in wire, ServerStep(m) PROVE Dead(k)'
  BY <1>0, <1>5, ServerEffect DEF Dead, callerVars
<1>6. ASSUME NEW j, Expire(j) \/ Settle(j) PROVE Dead(k)'
  BY <1>0, <1>6 DEF Dead, Expire, Settle, callerVars
<1>7. CASE UNCHANGED vars
  BY <1>0, <1>7 DEF Dead, vars, callerVars
<1>8. QED
  BY <1>1, <1>2, <1>3, <1>4, <1>5, <1>6, <1>7 DEF Next, CallStep, CallerStep

\* The ledger grows by one row, for a key that was not in it.
RowAdded(m) ==
    /\ m.key \in Keys /\ m.key \notin Accepted
    /\ Len(ledger) + 1 \notin DOMAIN ledger
    /\ DOMAIN ledger' = DOMAIN ledger \cup {Len(ledger) + 1}
    /\ \A i \in DOMAIN ledger : ledger'[i] = ledger[i]
    /\ ledger'[Len(ledger) + 1] = [key |-> m.key, delta |-> Delta(m)]
    /\ Accepted' = Accepted \cup {m.key}

LEMMA ExecuteEffect ==
    ASSUME IInv, NEW m \in wire, Execute(m)
    PROVE  RowAdded(m)
<1>1. m \in RequestType /\ ledger \in Seq([key : Keys, delta : Int])
  BY DEF IInv, TypeOK
<1>2. m.key \in Keys /\ m.key \notin seen /\ ~Dead(m.key)
  BY <1>1 DEF Execute, Accept, RequestType, Dead
<1>3. m.key \notin Accepted
  BY <1>2 DEF IInv, LedgerOnce
<1>4. ledger' = Append(ledger, [key |-> m.key, delta |-> Delta(m)])
  BY DEF Execute, Accept
<1>5. /\ Len(ledger) + 1 \notin DOMAIN ledger
      /\ DOMAIN ledger' = DOMAIN ledger \cup {Len(ledger) + 1}
      /\ \A i \in DOMAIN ledger : ledger'[i] = ledger[i]
      /\ ledger'[Len(ledger) + 1] = [key |-> m.key, delta |-> Delta(m)]
  BY <1>1, <1>4
<1>6. Accepted' = Accepted \cup {m.key}
  BY <1>5 DEF Accepted
<1>7. QED
  BY <1>2, <1>3, <1>5, <1>6 DEF RowAdded

LEMMA LedgerFrame ==
    ASSUME TypeOK, NEW w \in Workers
    PROVE  /\ CallStep(w) \/ CallerStep(w) => UNCHANGED serverVars
           /\ \A op \in Ops : Begin(w, op) => UNCHANGED serverVars
BY DEF CallStep, CallerStep, Refuse, FailLocally, Send, Abandon, Replay, Receive, Begin,
       Record, AssumeCommitted, LeaveOpen, Crash, serverVars

LEMMA LedgerOnceStep == IInv /\ [Next]_vars => LedgerOnce'
<1> SUFFICES ASSUME IInv, [Next]_vars PROVE LedgerOnce'
  OBVIOUS
<1>0. TypeOK /\ CallsOwned /\ RequestsOwned /\ StoreOwned /\ LedgerOnce
  BY DEF IInv
<1>1. \A k \in Accepted : k \in Keys /\ owner[k] \in Ops /\ owner'[k] = owner[k] /\ (Dead(k) => Dead(k)')
  <2> SUFFICES ASSUME NEW k \in Accepted
               PROVE  k \in Keys /\ owner[k] \in Ops /\ owner'[k] = owner[k] /\ (Dead(k) => Dead(k)')
    OBVIOUS
  <2>1. k \in Keys /\ owner[k] \in Ops
    BY <1>0, RowTyped DEF Accepted, LedgerOnce
  <2>2. QED
    BY <1>0, <2>1, OwnerKept, DeadStays, BalanceAssumption
<1>2. CASE UNCHANGED <<ledger, seen>>
  <2>1. ledger' = ledger /\ seen' = seen /\ Accepted' = Accepted
    BY <1>2 DEF Accepted
  <2>2. \A i \in DOMAIN ledger : ledger[i].key \in Accepted
    BY DEF Accepted
  <2>3. QED
    BY <1>0, <1>1, <2>1, <2>2 DEF LedgerOnce
<1>3. ASSUME NEW m \in wire, Execute(m) PROVE LedgerOnce'
  <2>0. RowAdded(m)
    BY <1>3, ExecuteEffect
  <2>1. owner'[m.key] \in Ops /\ Delta(m) = Amount[owner'[m.key]]
    BY <1>0, <1>3 DEF RequestsOwned, Execute, Accept, callerVars
  <2>2. seen' = seen \cup {m.key} /\ \A i \in DOMAIN ledger : ledger[i].key \in Accepted
    BY <1>3 DEF Execute, Accept, Accepted
  <2>3. ASSUME NEW i \in DOMAIN ledger'
        PROVE  /\ owner'[ledger'[i].key] \in Ops
               /\ ledger'[i].delta = Amount[owner'[ledger'[i].key]]
    <3>1. CASE i \in DOMAIN ledger
      BY <1>0, <1>1, <2>0, <2>2, <3>1 DEF LedgerOnce, RowAdded
    <3>2. CASE i = Len(ledger) + 1
      BY <2>0, <2>1, <3>2 DEF RowAdded
    <3>3. QED
      BY <2>0, <3>1, <3>2 DEF RowAdded
  <2>4. ASSUME NEW i \in DOMAIN ledger', NEW j \in DOMAIN ledger', ledger'[i].key = ledger'[j].key
        PROVE  i = j
    <3>1. CASE i \in DOMAIN ledger /\ j \in DOMAIN ledger
      BY <1>0, <2>0, <2>4, <3>1 DEF LedgerOnce, RowAdded
    <3>2. CASE i \notin DOMAIN ledger \/ j \notin DOMAIN ledger
      BY <2>0, <2>2, <2>4, <3>2 DEF RowAdded
    <3>3. QED
      BY <3>1, <3>2
  <2>5. \A k \in Accepted' : k \in seen' \/ Dead(k)'
    BY <1>0, <1>1, <2>0, <2>2 DEF LedgerOnce, RowAdded
  <2>6. seen' \subseteq Accepted'
    BY <1>0, <2>0, <2>2 DEF LedgerOnce, RowAdded
  <2>7. QED
    BY <2>3, <2>4, <2>5, <2>6 DEF LedgerOnce
<1>4. ASSUME NEW k \in Keys, Expire(k) PROVE LedgerOnce'
  <2>1. /\ ledger' = ledger /\ Accepted' = Accepted /\ seen' = seen \ {k}
        /\ UNCHANGED <<call, wire, owner, status>>
    BY <1>4 DEF Expire, callerVars, Accepted
  <2>2. Dead(k) /\ Dead(k)'
    BY <1>4, <2>1 DEF Expire, OutOfUse, Dead
  <2>3. QED
    <3>1. \A i \in DOMAIN ledger : ledger[i].key \in Accepted
      BY DEF Accepted
    <3>2. QED
      BY <1>0, <1>1, <2>1, <2>2, <3>1 DEF LedgerOnce
<1>5. CASE UNCHANGED vars
  BY <1>2, <1>5 DEF vars, serverVars
<1>6. ASSUME NEW m \in wire, RejectDuplicate(m) \/ Decline(m) \/ Lose(m) PROVE UNCHANGED serverVars
  BY <1>6 DEF RejectDuplicate, Decline, Lose
<1>7. ASSUME NEW i, Settle(i) PROVE UNCHANGED <<ledger, seen>>
  BY <1>7 DEF Settle
<1>8. QED
  BY <1>0, <1>2, <1>3, <1>4, <1>5, <1>6, <1>7, LedgerFrame DEF Next, ServerStep, serverVars

LEMMA InitIInv == Init => IInv
BY BalanceAssumption, IdleTyped
DEF Init, IInv, TypeOK, CallsOwned, CallOwned, RequestsOwned, StoreOwned, LedgerOnce, Accepted

LEMMA StoreOwnedStep == IInv /\ [Next]_vars => StoreOwned'
<1> SUFFICES ASSUME IInv, [Next]_vars PROVE StoreOwned'
  OBVIOUS
<1>1. ASSUME NEW w \in Workers, NEW op \in Ops, Begin(w, op) PROVE StoreOwned'
  BY <1>1, BeginEffect DEF IInv
<1>2. CASE UNCHANGED <<storeKey, owner>>
  BY <1>2 DEF IInv, StoreOwned
<1>3. ASSUME NEW w \in Workers, CallStep(w) \/ CallerStep(w) PROVE UNCHANGED <<storeKey, owner>>
  BY <1>3 DEF CallStep, CallerStep, Refuse, FailLocally, Send, Abandon, Replay, Receive,
              Record, AssumeCommitted, LeaveOpen, Crash, callerVars
<1>4. ASSUME NEW m \in wire, ServerStep(m) PROVE UNCHANGED <<storeKey, owner>>
  BY <1>4, ServerEffect DEF callerVars, IInv
<1>5. ASSUME NEW k, Expire(k) \/ Settle(k) PROVE UNCHANGED <<storeKey, owner>>
  BY <1>5 DEF Expire, Settle, callerVars
<1>6. QED
  BY <1>1, <1>2, <1>3, <1>4, <1>5 DEF Next, vars, callerVars

LEMMA Inductive == Spec => []IInv
<1>1. IInv /\ [Next]_vars => IInv'
  BY TypeStep, CallsOwnedStep, RequestsOwnedStep, StoreOwnedStep, LedgerOnceStep DEF IInv
<1>2. QED
  BY <1>1, InitIInv, PTL DEF Spec

-----------------------------------------------------------------------------
(* The theorems.                                                           *)

\* Every reachable state is well typed, for any number of workers, operations
\* and retries.
THEOREM TypeCorrect == Spec => []TypeOK
BY Inductive, PTL DEF IInv

\* However retries, crashes, lost answers and re-sent requests interleave, a
\* key is accepted once, and so is every operation that reuses its key
\* (card_balance.go:42-44).
THEOREM AtMostOnce == Spec => []ExecutedAtMostOnce
<1>1. IInv => ExecutedAtMostOnce
  <2> SUFFICES ASSUME IInv, NEW i \in DOMAIN ledger, NEW j \in DOMAIN ledger
               PROVE  /\ ledger[i].key = ledger[j].key => i = j
                      /\ owner[ledger[i].key] = owner[ledger[j].key]
                            => i = j \/ owner[ledger[i].key] \in Fresh
    BY DEF ExecutedAtMostOnce
  <2>1. /\ ledger[i].key \in Keys /\ owner[ledger[i].key] \in Ops
        /\ ledger[j].key \in Keys /\ owner[ledger[j].key] \in Ops
    BY RowTyped DEF IInv, LedgerOnce
  <2>2. ledger[i].key = ledger[j].key => i = j
    BY DEF IInv, LedgerOnce
  <2>3. ASSUME owner[ledger[i].key] = owner[ledger[j].key], owner[ledger[i].key] \notin Fresh
        PROVE  i = j
    BY <2>1, <2>2, <2>3 DEF IInv, StoreOwned
  <2>4. QED
    BY <2>2, <2>3
<1>2. QED
  BY <1>1, Inductive, PTL

-----------------------------------------------------------------------------
(* CardBalance implements OnceLedger.                                      *)

\* What the abstract ledger sees.
Outcomes == <<KeysIn("pending"), KeysIn("success"), KeysIn("reversed")>>

\* The keys in a state are accepted keys, and a key is in one state only.
LEMMA KeysInEffect ==
    ASSUME IInv
    PROVE  /\ KeysIn("pending") \cup KeysIn("success") \cup KeysIn("reversed") = Accepted
           /\ \A i \in DOMAIN ledger, state \in {"pending", "success", "reversed"} :
                 ledger[i].key \in KeysIn(state) <=> outcome[i] = state
<1>1. DOMAIN outcome = DOMAIN ledger /\ outcome \in Seq({"pending", "success", "reversed"})
  BY DEF IInv, TypeOK
<1>2. \A i \in DOMAIN ledger : outcome[i] \in {"pending", "success", "reversed"}
  BY <1>1
<1>3. \A i, j \in DOMAIN ledger : ledger[i].key = ledger[j].key => i = j
  BY DEF IInv, LedgerOnce
<1>4. KeysIn("pending") \cup KeysIn("success") \cup KeysIn("reversed") = Accepted
  BY <1>2 DEF KeysIn, Accepted
<1>5. ASSUME NEW i \in DOMAIN ledger, NEW state PROVE ledger[i].key \in KeysIn(state) <=> outcome[i] = state
  BY <1>3 DEF KeysIn
<1>6. QED
  BY <1>4, <1>5

LEMMA LedgerInitRefined == Init => OnceLedger!LedgerInit
BY DEF Init, OnceLedger!LedgerInit, KeysIn

\* Accepting a request queues its key or applies it at once.
LEMMA AcceptRefined ==
    ASSUME IInv, NEW m \in wire, NEW state \in {"pending", "success"}, Accept(m, state)
    PROVE  OnceLedger!LedgerNext
<1>0. TypeOK /\ RequestsOwned
  BY DEF IInv
<1>1. RowAdded(m)
  BY ExecuteEffect DEF Execute
<1>2. owner[m.key] # NoOp /\ Delta(m) = Amount[owner[m.key]] /\ owner' = owner
  BY <1>0, BalanceAssumption DEF RequestsOwned, Accept, callerVars
<1>3. OnceLedger!New(m.key)
  BY <1>1, <1>2, KeysInEffect DEF RowAdded, OnceLedger!New
<1>4. /\ \A i \in DOMAIN ledger : outcome'[i] = outcome[i]
      /\ outcome'[Len(ledger) + 1] = state
  <2>1. outcome \in Seq({"pending", "success", "reversed"}) /\ DOMAIN outcome = DOMAIN ledger
        /\ ledger \in Seq([key : Keys, delta : Int])
    BY <1>0 DEF TypeOK
  <2>2. outcome' = Append(outcome, state) /\ Len(outcome) = Len(ledger)
    BY <2>1 DEF Accept
  <2>3. QED
    BY <2>1, <2>2
<1>5. ASSUME NEW s PROVE KeysIn(s)' = KeysIn(s) \cup (IF s = state THEN {m.key} ELSE {})
  <2>1. DOMAIN ledger' = DOMAIN ledger \cup {Len(ledger) + 1}
        /\ (\A i \in DOMAIN ledger : ledger'[i] = ledger[i])
        /\ ledger'[Len(ledger) + 1].key = m.key /\ Len(ledger) + 1 \notin DOMAIN ledger
    BY <1>1 DEF RowAdded
  <2>2. QED
    BY <1>4, <2>1 DEF KeysIn
<1>6. CASE state = "pending"
  <2>1. balance' = balance
    BY <1>6 DEF Accept
  <2>2. /\ KeysIn("pending")' = KeysIn("pending") \cup {m.key}
        /\ KeysIn("success")' = KeysIn("success") /\ KeysIn("reversed")' = KeysIn("reversed")
    BY <1>5, <1>6
  <2>3. OnceLedger!Queue(m.key)
    BY <1>2, <1>3, <2>1, <2>2 DEF OnceLedger!Queue
  <2>4. QED
    BY <1>1, <2>3 DEF RowAdded, OnceLedger!LedgerNext
<1>7. CASE state = "success"
  <2>1. balance' = balance + Amount[owner[m.key]]
    BY <1>2, <1>7 DEF Accept
  <2>2. m.key \notin KeysIn("pending")
    BY <1>3 DEF OnceLedger!New
  <2>3. /\ KeysIn("success")' = KeysIn("success") \cup {m.key}
        /\ KeysIn("pending")' = KeysIn("pending") \ {m.key} /\ KeysIn("reversed")' = KeysIn("reversed")
    BY <1>5, <1>7, <2>2
  <2>4. OnceLedger!Apply(m.key)
    BY <1>2, <1>3, <2>1, <2>3 DEF OnceLedger!Apply
  <2>5. QED
    BY <1>1, <2>4 DEF RowAdded, OnceLedger!LedgerNext
<1>8. QED
  BY <1>6, <1>7

\* Deciding a pending row applies its key or reverses it.
LEMMA SettleRefined ==
    ASSUME IInv, NEW i \in DOMAIN ledger, Settle(i)
    PROVE  OnceLedger!LedgerNext
<1> DEFINE k == ledger[i].key
<1>1. /\ k \in Keys /\ owner[k] \in Ops /\ ledger[i].delta = Amount[owner[k]]
      /\ \A j \in DOMAIN ledger : ledger[j].key = k => j = i
  BY RowTyped DEF IInv, LedgerOnce
<1>2. k \in KeysIn("pending") /\ k \notin KeysIn("success") /\ k \notin KeysIn("reversed")
  BY KeysInEffect DEF Settle
<1>3. /\ owner' = owner /\ ledger' = ledger
      /\ DOMAIN outcome = DOMAIN ledger
  BY DEF Settle, callerVars, IInv, TypeOK
<1>4. ASSUME NEW decision, outcome' = [outcome EXCEPT ![i] = decision], decision # "pending", NEW s
      PROVE  KeysIn(s)' = IF s = decision THEN KeysIn(s) \cup {k}
                          ELSE IF s = "pending" THEN KeysIn(s) \ {k} ELSE KeysIn(s)
  <2>1. outcome'[i] = decision /\ \A j \in DOMAIN ledger \ {i} : outcome'[j] = outcome[j]
    BY <1>3, <1>4
  <2>2. outcome[i] = "pending"
    BY DEF Settle
  <2>3. DOMAIN ledger' = DOMAIN ledger
    BY <1>3
  <2>4. \A x : x \in KeysIn(s)' <=> \E j \in DOMAIN ledger : x = ledger[j].key /\ outcome'[j] = s
    BY <1>3 DEF KeysIn
  <2>5. \A x : x \in KeysIn(s) <=> \E j \in DOMAIN ledger : x = ledger[j].key /\ outcome[j] = s
    BY DEF KeysIn
  <2>6. QED
    BY <1>1, <1>4, <2>1, <2>2, <2>4, <2>5
<1>5. CASE outcome' = [outcome EXCEPT ![i] = "success"] /\ balance' = balance + ledger[i].delta
  <2>1. /\ KeysIn("success")' = KeysIn("success") \cup {k}
        /\ KeysIn("pending")' = KeysIn("pending") \ {k} /\ KeysIn("reversed")' = KeysIn("reversed")
    BY <1>4, <1>5
  <2>2. OnceLedger!Apply(k)
    BY <1>1, <1>2, <1>3, <1>5, <2>1 DEF OnceLedger!Apply
  <2>3. QED
    BY <1>1, <2>2 DEF OnceLedger!LedgerNext
<1>6. CASE outcome' = [outcome EXCEPT ![i] = "reversed"] /\ balance' = balance
  <2>1. /\ KeysIn("reversed")' = KeysIn("reversed") \cup {k}
        /\ KeysIn("pending")' = KeysIn("pending") \ {k} /\ KeysIn("success")' = KeysIn("success")
    BY <1>4, <1>6
  <2>2. OnceLedger!Reverse(k)
    BY <1>1, <1>2, <1>3, <1>6, <2>1 DEF OnceLedger!Reverse
  <2>3. QED
    BY <1>1, <2>2 DEF OnceLedger!LedgerNext
<1>7. QED
  BY <1>5, <1>6 DEF Settle

\* Drawing a key binds it, accepting a request queues or applies its key,
\* deciding a pending row applies or reverses it, and every other step leaves
\* the abstract ledger alone.
LEMMA LedgerStepRefined ==
    IInv /\ [Next]_vars => [OnceLedger!LedgerNext]_<<owner, KeysIn("pending"), KeysIn("success"), KeysIn("reversed"), balance>>
<1> SUFFICES ASSUME IInv, [Next]_vars
             PROVE  OnceLedger!LedgerNext \/ UNCHANGED <<owner, Outcomes, balance>>
  BY DEF Outcomes
<1>0. TypeOK /\ CallsOwned /\ RequestsOwned /\ StoreOwned /\ LedgerOnce
  BY DEF IInv
<1>1. ASSUME NEW w \in Workers, NEW op \in Ops, Begin(w, op)
      PROVE  OnceLedger!LedgerNext \/ UNCHANGED <<owner, Outcomes, balance>>
  <2>1. PICK k \in KeysFor(op) :
          owner' = IF k = EmptyKey THEN owner ELSE [owner EXCEPT ![k] = op]
    BY <1>1 DEF Begin
  <2>2. UNCHANGED <<Outcomes, balance>>
    BY <1>1 DEF Begin, serverVars, Outcomes, KeysIn
  <2>3. CASE k = EmptyKey \/ (k \in Keys /\ owner[k] = op)
    BY <1>0, <2>1, <2>2, <2>3 DEF TypeOK
  <2>4. CASE k \in Keys /\ owner[k] = NoOp /\ (op \in Fresh \/ storeKey[op] = NoKey)
    <3>1. owner' = [owner EXCEPT ![k] = op]
      BY <2>1, <2>4, BalanceAssumption
    <3>2. op \notin Fresh => \A j \in Keys : owner[j] # op
      BY <1>0, <2>4, BalanceAssumption DEF StoreOwned
    <3>3. OnceLedger!Bind(k, op)
      BY <2>2, <2>4, <3>1, <3>2 DEF OnceLedger!Bind, Outcomes
    <3>4. QED
      BY <2>4, <3>3 DEF OnceLedger!LedgerNext
  <2>5. QED
    BY <1>0, <2>3, <2>4 DEF KeysFor, Unused, StoreOwned, TypeOK
<1>2. ASSUME NEW w \in Workers, CallStep(w) \/ CallerStep(w)
      PROVE  UNCHANGED <<owner, Outcomes, balance>>
  BY <1>2 DEF CallStep, CallerStep, Refuse, FailLocally, Send, Abandon, Replay, Receive,
              Record, AssumeCommitted, LeaveOpen, Crash, callerVars, serverVars, Outcomes, KeysIn
<1>3. ASSUME NEW m \in wire, Execute(m) PROVE OnceLedger!LedgerNext
  BY <1>3, AcceptRefined DEF Execute
<1>4. ASSUME NEW m \in wire, RejectDuplicate(m) \/ Decline(m) \/ Lose(m)
      PROVE  UNCHANGED <<owner, Outcomes, balance>>
  BY <1>4 DEF RejectDuplicate, Decline, Lose, callerVars, serverVars, Outcomes, KeysIn
<1>5. ASSUME NEW k \in Keys, Expire(k) PROVE UNCHANGED <<owner, Outcomes, balance>>
  BY <1>5 DEF Expire, callerVars, Outcomes, KeysIn
<1>6. CASE UNCHANGED vars
  BY <1>6 DEF vars, callerVars, serverVars, Outcomes, KeysIn
<1>7. QED
  BY <1>1, <1>2, <1>3, <1>4, <1>5, <1>6, SettleRefined DEF Next, ServerStep

\* Seen through the keys drawn, what has become of each key and the balance,
\* the SDK, its callers, the network and the server together are a ledger that
\* applies the amount of each key at most once, and nothing of a key that stays
\* pending or is reversed (card_balance.go:19-44, 97).
THEOREM Refinement == Spec => ImplementsOnceLedger
BY Inductive, LedgerInitRefined, LedgerStepRefined, PTL
DEF Spec, ImplementsOnceLedger, OnceLedger!LedgerSpec, OnceLedger!ledgerVars

-----------------------------------------------------------------------------
(* What is refused before it is sent.                                      *)

\* A call that waits for an answer was not invalid.
CallsValid == \A w \in Workers : call[w].pc = "sent" => Amount[call[w].op] # 0

AmountsValid == \A m \in wire : m.body.amount > 0

LEMMA RequestValid ==
    ASSUME TypeOK, CallsOwned, NEW w \in Workers, call[w].pc \in {"called", "sent"},
           Amount[call[w].op] # 0, NEW conn
    PROVE  Request(call[w], conn).body.amount > 0
<1>1. PICK amount : amount = Amount[call[w].op]
  OBVIOUS
<1>2. amount \in Int /\ amount # 0
  BY <1>1, BalanceAssumption DEF CallsOwned, CallOwned, IdleCall, BalanceAssumption
<1>3. BalanceBody(amount).amount = IF amount < 0 THEN -amount ELSE amount
  BY DEF BalanceBody
<1> QED BY <1>1, <1>2, <1>3 DEF Request

\* Only Send and Replay put a request on the wire.
LEMMA ValidStep == TypeOK /\ CallsOwned /\ CallsValid /\ AmountsValid /\ [Next]_vars => (CallsValid /\ AmountsValid)'
<1> SUFFICES ASSUME TypeOK, CallsOwned, CallsValid, AmountsValid, [Next]_vars
             PROVE  CallsValid' /\ AmountsValid'
  OBVIOUS
<1>1. ASSUME NEW w \in Workers, NEW t, call' = [call EXCEPT ![w] = t], t.pc # "sent"
      PROVE  CallsValid'
  BY <1>1 DEF CallsValid, TypeOK
<1>2. ASSUME NEW w \in Workers, NEW op \in Ops, Begin(w, op) PROVE CallsValid' /\ AmountsValid'
  <2>1. PICK k : call' = [call EXCEPT ![w] = [IdleCall EXCEPT !.pc = "called", !.op = op, !.key = k,
                                                             !.try = attempts[op] + 1]]
    BY <1>2 DEF Begin
  <2>2. PICK t : t = [IdleCall EXCEPT !.pc = "called", !.op = op, !.key = k, !.try = attempts[op] + 1]
    OBVIOUS
  <2>3. t.pc = "called"
    BY <2>2 DEF IdleCall
  <2> QED BY <1>1, <1>2, <2>1, <2>2, <2>3 DEF Begin, AmountsValid
<1>3. ASSUME NEW w \in Workers, NEW err, NEW pending, NEW tx, Return(w, err, pending, tx) PROVE CallsValid'
  <2>1. PICK t : t = [call[w] EXCEPT !.pc = "returned", !.err = err, !.pending = pending, !.tx = tx]
    OBVIOUS
  <2>2. call[w] \in CallType
    BY DEF TypeOK
  <2>3. t.pc = "returned"
    BY <2>1, <2>2 DEF CallType
  <2>4. call' = [call EXCEPT ![w] = t]
    BY <1>3, <2>1 DEF Return, TypeOK
  <2> QED BY <1>1, <2>3, <2>4
<1>4. ASSUME NEW w \in Workers, call' = [call EXCEPT ![w] = IdleCall] PROVE CallsValid'
  <2>1. PICK t : t = IdleCall
    OBVIOUS
  <2>2. t.pc = "idle"
    BY <2>1 DEF IdleCall
  <2> QED BY <1>1, <1>4, <2>1, <2>2
<1>5. ASSUME NEW w \in Workers, Refuse(w) \/ FailLocally(w) \/ Abandon(w) \/ Receive(w)
      PROVE  CallsValid' /\ AmountsValid'
  BY <1>3, <1>5 DEF Refuse, FailLocally, Abandon, Receive, AmountsValid
<1>6. ASSUME NEW w \in Workers, CallerStep(w) PROVE CallsValid' /\ AmountsValid'
  BY <1>4, <1>6 DEF CallerStep, Record, AssumeCommitted, LeaveOpen, Crash, AmountsValid
<1>7. ASSUME NEW w \in Workers, Send(w) PROVE CallsValid' /\ AmountsValid'
  <2>1. PICK t : t = [call[w] EXCEPT !.pc = "sent"]
    OBVIOUS
  <2>2. call[w] \in CallType /\ call[w].pc = "called" /\ Amount[call[w].op] # 0
    BY <1>7 DEF TypeOK, Send, Invalid
  <2>3. t.op = call[w].op
    BY <2>1, <2>2 DEF CallType
  <2>4. call' = [call EXCEPT ![w] = t] /\ wire' = wire \cup {Request(call[w], 0)}
    BY <1>7, <2>1 DEF Send
  <2>5. CallsValid'
    BY <2>2, <2>3, <2>4 DEF CallsValid, TypeOK
  <2>6. Request(call[w], 0).body.amount > 0
    BY <2>2, RequestValid
  <2> QED BY <2>4, <2>5, <2>6 DEF AmountsValid
<1>8. ASSUME NEW w \in Workers, Replay(w) PROVE CallsValid' /\ AmountsValid'
  <2>1. PICK conn : conn = call[w].conn + 1
    OBVIOUS
  <2>2. PICK t : t = [call[w] EXCEPT !.conn = conn]
    OBVIOUS
  <2>3. call[w] \in CallType /\ call[w].pc = "sent" /\ Amount[call[w].op] # 0
    BY <1>8 DEF TypeOK, Replay, CallsValid
  <2>4. t.op = call[w].op
    BY <2>2, <2>3 DEF CallType
  <2>5. call' = [call EXCEPT ![w] = t] /\ wire' = wire \cup {Request(call[w], conn)}
    BY <1>8, <2>1, <2>2 DEF Replay, TypeOK
  <2>6. CallsValid'
    BY <2>3, <2>4, <2>5 DEF CallsValid, TypeOK
  <2>7. Request(call[w], conn).body.amount > 0
    BY <2>3, RequestValid
  <2> QED BY <2>5, <2>6, <2>7 DEF AmountsValid
<1>9. ASSUME NEW m \in wire, ServerStep(m) PROVE CallsValid' /\ AmountsValid'
  BY <1>9 DEF ServerStep, Execute, Accept, RejectDuplicate, Decline, Lose, Reply, CallsValid, AmountsValid
<1>10. ASSUME NEW k, Expire(k) \/ Settle(k) PROVE CallsValid' /\ AmountsValid'
  BY <1>10 DEF Expire, Settle, CallsValid, AmountsValid
<1>11. CASE UNCHANGED vars
  BY <1>11 DEF vars, CallsValid, AmountsValid
<1> QED BY <1>2, <1>5, <1>6, <1>7, <1>8, <1>9, <1>10, <1>11 DEF Next, CallStep

\* For any amounts and keys: no request without a key of the caller's, and none
\* whose amount is not positive, ever leaves the SDK (card_balance.go:62-72).
THEOREM InvalidNeverSent == Spec => []OnlyValidRequests
<1>1. Init => CallsValid /\ AmountsValid
  BY DEF Init, IdleCall, CallsValid, AmountsValid
<1>2. IInv /\ CallsValid /\ AmountsValid /\ [Next]_vars => (CallsValid /\ AmountsValid)'
  BY ValidStep DEF IInv
<1>3. IInv /\ CallsValid /\ AmountsValid => OnlyValidRequests
  BY DEF IInv, TypeOK, RequestType, AmountsValid, OnlyValidRequests
<1> QED BY <1>1, <1>2, <1>3, Inductive, PTL DEF Spec

=============================================================================
