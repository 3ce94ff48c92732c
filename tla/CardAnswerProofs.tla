--------------------------- MODULE CardAnswerProofs ---------------------------
(***************************************************************************)
(* Proofs about what CardBalance tells its caller: a 409 means accepted, a *)
(* nil error that is not pending means carried out, a recorded id is the   *)
(* operation's own, and an operation the caller has settled stays so.      *)
(* AnswerInv follows an answer from the ledger over the network to the     *)
(* call that waits for it and into the caller's store.                     *)
(***************************************************************************)
EXTENDS CardBalanceProofs

\* Messages belong to counted attempts, never to a call that has not sent yet.
Counted(m) == /\ m.id[2] <= attempts[m.id[1]]
              /\ \A w \in Workers : call[w].pc = "called" => m.id # RequestId(call[w])

MessagesCounted == \A m \in wire \cup replies : Counted(m)

\* No two calls in progress are the same attempt.
CallsDistinct ==
    \A v, w \in Workers :
        call[v].pc # "idle" /\ call[w].pc # "idle" /\ RequestId(call[v]) = RequestId(call[w]) => v = w

\* Row tx of the ledger is for key k.
Executed(tx, k) == tx \in DOMAIN ledger /\ ledger[tx].key = k

\* Row tx is for key k, and carried out unless it is said to be pending.
Told(tx, pending, k) == Executed(tx, k) /\ (~pending => outcome[tx] = "success")

\* A response that tells the truth about key k.
AnswerTrue(r, k) == /\ r.code = 409 => k \in Accepted
                    /\ r.body \in {"goodData", "statusFalse"}
                    /\ r.body = "goodData" => Told(r.tx, r.pending, k)

\* What is on its way to or from a waiting call speaks of that call's key.
MatchedCall(w) == call[w].pc = "sent" =>
                     /\ \A m \in wire : m.id = RequestId(call[w]) => m.key = call[w].key
                     /\ \A r \in replies : r.id = RequestId(call[w]) => AnswerTrue(r, call[w].key)

MessagesMatch == \A w \in Workers : MatchedCall(w)

\* What a call returned is in the ledger.
ResultTrue(w) == call[w].pc = "returned" =>
                    /\ call[w].err = "ErrDuplicateIdempotencyKey" => call[w].key \in Accepted
                    /\ call[w].err = NoError => Told(call[w].tx, call[w].pending, call[w].key)

ResultsTrue == \A w \in Workers : ResultTrue(w)

\* What the caller concluded is in the ledger.
SettledTrue(op) == /\ status[op] # "open" => Rows(op) # {}
                   /\ status[op] = "recorded" => storeTx[op] \in Rows(op)

StoreTrue == \A op \in Ops : SettledTrue(op)

AnswerInv == MessagesCounted /\ CallsDistinct /\ MessagesMatch /\ ResultsTrue /\ StoreTrue

-----------------------------------------------------------------------------
(* The ledger only grows, and what is carried out stays so.                *)

LedgerGrown == /\ DOMAIN ledger \subseteq DOMAIN ledger'
               /\ \A i \in DOMAIN ledger :
                     ledger'[i] = ledger[i] /\ (outcome[i] = "success" => outcome'[i] = "success")

\* Accepting a request writes its outcome behind those of the older rows.
LEMMA OutcomeAdded ==
    ASSUME IInv, NEW m \in wire, NEW state \in {"pending", "success"}, Accept(m, state)
    PROVE  /\ \A i \in DOMAIN ledger : outcome'[i] = outcome[i]
           /\ outcome'[Len(ledger) + 1] = state
<1>1. outcome \in Seq({"pending", "success", "reversed"}) /\ DOMAIN outcome = DOMAIN ledger
      /\ ledger \in Seq([key : Keys, delta : Int])
  BY DEF IInv, TypeOK
<1>2. outcome' = Append(outcome, state) /\ Len(outcome) = Len(ledger)
  BY <1>1 DEF Accept
<1>3. QED
  BY <1>1, <1>2

LEMMA LedgerGrows == IInv /\ [Next]_vars => LedgerGrown
<1> SUFFICES ASSUME IInv, [Next]_vars PROVE LedgerGrown
  OBVIOUS
<1>1. UNCHANGED <<ledger, outcome>> => LedgerGrown
  BY DEF LedgerGrown
<1>2. ASSUME NEW m \in wire, Execute(m) PROVE LedgerGrown
  <2>1. PICK state \in {"pending", "success"} : Accept(m, state)
    BY <1>2 DEF Execute
  <2>2. QED
    BY <1>2, <2>1, OutcomeAdded, ExecuteEffect DEF RowAdded, LedgerGrown
<1>3. ASSUME NEW m \in wire, RejectDuplicate(m) \/ Decline(m) \/ Lose(m) PROVE UNCHANGED <<ledger, outcome>>
  BY <1>3 DEF RejectDuplicate, Decline, Lose, serverVars
<1>4. ASSUME NEW k \in Keys, Expire(k) PROVE UNCHANGED <<ledger, outcome>>
  BY <1>4 DEF Expire
<1>5. ASSUME NEW i \in DOMAIN ledger, Settle(i) PROVE LedgerGrown
  <2>1. outcome[i] = "pending" /\ ledger' = ledger /\ \E d : outcome' = [outcome EXCEPT ![i] = d]
    BY <1>5 DEF Settle
  <2>2. \A j \in DOMAIN ledger : outcome[j] = "success" => outcome'[j] = "success"
    BY <2>1 DEF IInv, TypeOK
  <2>3. QED
    BY <2>1, <2>2 DEF LedgerGrown
<1>6. UNCHANGED vars => UNCHANGED <<ledger, outcome>>
  BY DEF vars, serverVars
<1>7. QED
  BY <1>1, <1>2, <1>3, <1>4, <1>5, <1>6, LedgerFrame DEF Next, ServerStep, serverVars, IInv

\* What is accepted or executed stays so.
LEMMA ExecutedStays ==
    ASSUME LedgerGrown
    PROVE  /\ \A tx, pending, k : Told(tx, pending, k) => Told(tx, pending, k)'
           /\ \A k \in Accepted : k \in Accepted'
           /\ \A r, k : AnswerTrue(r, k) => AnswerTrue(r, k)'
<1>1. ASSUME NEW tx, NEW pending, NEW k, Told(tx, pending, k) PROVE Told(tx, pending, k)'
  BY <1>1 DEF Told, Executed, LedgerGrown
<1>2. \A k \in Accepted : k \in Accepted'
  BY DEF Accepted, LedgerGrown
<1>3. ASSUME NEW r, NEW k, AnswerTrue(r, k) PROVE AnswerTrue(r, k)'
  BY <1>1, <1>2, <1>3 DEF AnswerTrue
<1>4. QED
  BY <1>1, <1>2, <1>3

\* The rows of an operation are never taken from it.
LEMMA RowsGrow ==
    ASSUME IInv, [Next]_vars, NEW op \in Ops
    PROVE  Rows(op) \subseteq Rows(op)'
<1> SUFFICES ASSUME NEW i \in Rows(op) PROVE i \in Rows(op)'
  OBVIOUS
<1>1. /\ i \in DOMAIN ledger /\ owner[ledger[i].key] = op
      /\ ledger[i].key \in Keys
  BY RowTyped DEF Rows, IInv
<1>2. i \in DOMAIN ledger' /\ ledger'[i] = ledger[i]
  BY <1>1, LedgerGrows DEF LedgerGrown
<1>3. owner'[ledger[i].key] = op
  BY <1>1, OwnerKept, BalanceAssumption DEF IInv
<1>4. QED
  BY <1>2, <1>3 DEF Rows

-----------------------------------------------------------------------------
(* Messages and calls.                                                     *)

\* A step of the server turns a request into at most one true answer.
LEMMA AnswerEffect ==
    ASSUME IInv, NEW m \in wire, ServerStep(m)
    PROVE  \A r \in replies' : r \in replies \/ (r.id = m.id /\ AnswerTrue(r, m.key)')
<1> SUFFICES ASSUME NEW r \in replies', r \notin replies
             PROVE  r.id = m.id /\ AnswerTrue(r, m.key)'
  OBVIOUS
<1>1. CASE Execute(m)
  <2>1. PICK tx : tx = Len(ledger) + 1
    OBVIOUS
  <2>2. PICK state \in {"pending", "success"} : Accept(m, state)
    BY <1>1 DEF Execute
  <2>3. PICK pending : pending = (state = "pending")
    OBVIOUS
  <2>4. r = [id |-> m.id, conn |-> m.conn, code |-> 200, body |-> "goodData",
             pending |-> pending, tx |-> tx]
    BY <2>1, <2>2, <2>3 DEF Accept, Reply
  <2>5. Told(tx, pending, m.key)'
    <3>1. RowAdded(m)
      BY <1>1, ExecuteEffect
    <3>2. tx \in DOMAIN ledger' /\ ledger'[tx] = [key |-> m.key, delta |-> Delta(m)]
      BY <2>1, <3>1 DEF RowAdded
    <3>3. ~pending => outcome'[tx] = "success"
      BY <2>1, <2>2, <2>3, OutcomeAdded
    <3>4. QED
      BY <3>2, <3>3 DEF Told, Executed
  <2>6. r.pending = pending /\ r.tx = tx /\ r.id = m.id /\ r.code = 200 /\ r.body = "goodData"
    BY <2>4
  <2>7. Told(r.tx, r.pending, m.key)'
    BY <2>5, <2>6
  <2>8. QED
    BY <2>6, <2>7 DEF AnswerTrue
<1>2. CASE RejectDuplicate(m)
  <2>1. r = [id |-> m.id, conn |-> m.conn, code |-> 409, body |-> "statusFalse",
             pending |-> FALSE, tx |-> 0]
    BY <1>2 DEF RejectDuplicate, Reply
  <2>2. m.key \in Accepted'
    BY <1>2 DEF RejectDuplicate, serverVars, Accepted, IInv, LedgerOnce
  <2>3. QED
    BY <2>1, <2>2 DEF AnswerTrue
<1>3. CASE Decline(m)
  <2>1. PICK code \in {400, 413, 429, 500} : Reply(m, code, "statusFalse", FALSE, 0)
    BY <1>3 DEF Decline
  <2>2. r = [id |-> m.id, conn |-> m.conn, code |-> code, body |-> "statusFalse",
             pending |-> FALSE, tx |-> 0]
    BY <2>1 DEF Reply
  <2>3. QED
    BY <2>2 DEF AnswerTrue
<1>4. CASE Lose(m)
  BY <1>4 DEF Lose
<1>5. QED
  BY <1>1, <1>2, <1>3, <1>4 DEF ServerStep

LEMMA CallsDistinctStep == IInv /\ AnswerInv /\ [Next]_vars => CallsDistinct'
<1> SUFFICES ASSUME IInv, AnswerInv, [Next]_vars, NEW u \in Workers, NEW v \in Workers,
                    call'[u].pc # "idle", call'[v].pc # "idle",
                    RequestId(call'[u]) = RequestId(call'[v])
             PROVE  u = v
  BY DEF CallsDistinct
<1>0. TypeOK /\ CallsOwned /\ StoreOwned /\ CallsDistinct
  BY DEF IInv, AnswerInv
\* Calls that keep their attempt stay distinct.
<1>1. ASSUME \A w \in {u, v} : call[w].pc # "idle" /\ call'[w].op = call[w].op /\ call'[w].try = call[w].try
      PROVE  u = v
  BY <1>0, <1>1 DEF CallsDistinct, RequestId
<1>2. ASSUME NEW w \in Workers, NEW op \in Ops, Begin(w, op) PROVE u = v
  <2>1. /\ call'[w].op = op /\ call'[w].try = attempts[op] + 1 /\ attempts[op] \in Nat
        /\ \A x \in Workers \ {w} : call'[x] = call[x]
    BY <1>0, <1>2, BeginEffect, BalanceAssumption DEF TypeOK
  <2>2. ASSUME NEW x \in Workers \ {w}, call[x].pc # "idle" PROVE RequestId(call'[w]) # RequestId(call[x])
    <3>1. call[x].try \in 1..attempts[call[x].op]
      BY <1>0, <2>2 DEF CallsOwned, CallOwned, IdleCall
    <3>2. QED
      BY <2>1, <3>1 DEF RequestId
  <2>3. QED
    BY <1>1, <2>1, <2>2
<1>3. ASSUME NEW w \in Workers, Refuse(w) \/ FailLocally(w) \/ Abandon(w) \/ Receive(w) PROVE u = v
  BY <1>0, <1>1, <1>3, EndEffect
<1>4. ASSUME NEW w \in Workers, Send(w) \/ Replay(w) PROVE u = v
  BY <1>0, <1>1, <1>4, SendEffect
<1>5. ASSUME NEW w \in Workers, Record(w) \/ AssumeCommitted(w) \/ LeaveOpen(w) \/ Crash(w) PROVE u = v
  BY <1>0, <1>1, <1>5, ForgetEffect DEF IdleCall
<1>6. ASSUME call' = call PROVE u = v
  BY <1>1, <1>6
<1>7. ASSUME NEW m \in wire, ServerStep(m) PROVE call' = call
  BY <1>0, <1>7, ServerEffect
<1>8. ASSUME NEW k, Expire(k) \/ Settle(k) PROVE call' = call
  BY <1>8 DEF Expire, Settle
<1>9. QED
  BY <1>2, <1>3, <1>4, <1>5, <1>6, <1>7, <1>8 DEF Next, CallStep, CallerStep, vars

\* A call that waits for an answer is the one that was made, and every message
\* comes from an older one or from a call that sends.
LEMMA SentCallKept ==
    ASSUME IInv, [Next]_vars, NEW u \in Workers, call'[u].pc = "sent"
    PROVE  /\ call[u].pc \in {"called", "sent"}
           /\ call'[u].op = call[u].op /\ call'[u].key = call[u].key /\ call'[u].try = call[u].try
<1>0. TypeOK /\ CallsOwned /\ StoreOwned
  BY DEF IInv
<1>1. ASSUME call'[u] = call[u] PROVE call[u].pc = "sent"
  BY <1>1
<1>2. ASSUME NEW w \in Workers, NEW op \in Ops, Begin(w, op) PROVE call'[u] = call[u]
  BY <1>0, <1>2, BeginEffect
<1>3. ASSUME NEW w \in Workers, Refuse(w) \/ FailLocally(w) \/ Abandon(w) \/ Receive(w)
      PROVE  call'[u] = call[u]
  BY <1>0, <1>3, EndEffect
<1>4. ASSUME NEW w \in Workers, Send(w) \/ Replay(w)
      PROVE  \/ call'[u] = call[u]
             \/ /\ call[u].pc \in {"called", "sent"}
                /\ call'[u].op = call[u].op /\ call'[u].key = call[u].key /\ call'[u].try = call[u].try
  BY <1>0, <1>4, SendEffect
<1>5. ASSUME NEW w \in Workers, Record(w) \/ AssumeCommitted(w) \/ LeaveOpen(w) \/ Crash(w)
      PROVE  call'[u] = call[u]
  BY <1>0, <1>5, ForgetEffect DEF IdleCall
<1>6. ASSUME NEW m \in wire, ServerStep(m) PROVE call' = call
  BY <1>0, <1>6, ServerEffect
<1>7. ASSUME NEW k, Expire(k) \/ Settle(k) PROVE call' = call
  BY <1>7 DEF Expire, Settle
<1>8. QED
  BY <1>1, <1>2, <1>3, <1>4, <1>5, <1>6, <1>7 DEF Next, CallStep, CallerStep, vars

NewRequest(m) == \E w \in Workers : /\ Send(w) \/ Replay(w)
                                    /\ m.id = RequestId(call[w]) /\ m.key = call[w].key

LEMMA WireOrigin ==
    ASSUME IInv, [Next]_vars, NEW m \in wire', m \notin wire
    PROVE  NewRequest(m)
<1>0. TypeOK /\ CallsOwned /\ StoreOwned
  BY DEF IInv
<1>1. ASSUME NEW w \in Workers, NEW op \in Ops, Begin(w, op) PROVE wire' = wire
  BY <1>1 DEF Begin
<1>2. ASSUME NEW w \in Workers, Send(w) \/ Replay(w) PROVE NewRequest(m)
  <2>1. PICK conn \in Nat : m = Request(call[w], conn)
    BY <1>0, <1>2, SendEffect
  <2>2. QED
    BY <1>2, <2>1 DEF NewRequest, Request
<1>3. ASSUME NEW w \in Workers,
             \/ Refuse(w) \/ FailLocally(w) \/ Abandon(w) \/ Receive(w)
             \/ Record(w) \/ AssumeCommitted(w) \/ LeaveOpen(w) \/ Crash(w)
      PROVE  wire' = wire
  BY <1>0, <1>3, EndEffect, ForgetEffect
<1>4. ASSUME NEW q \in wire, ServerStep(q) PROVE wire' \subseteq wire
  BY <1>0, <1>4, ServerEffect
<1>5. ASSUME NEW k, Expire(k) \/ Settle(k) PROVE wire' = wire
  BY <1>5 DEF Expire, Settle
<1>6. QED
  BY <1>1, <1>2, <1>3, <1>4, <1>5 DEF Next, CallStep, CallerStep, vars

LEMMA ReplyOrigin ==
    ASSUME IInv, [Next]_vars, NEW r \in replies', r \notin replies
    PROVE  \E m \in wire : r.id = m.id /\ AnswerTrue(r, m.key)'
<1>0. TypeOK /\ CallsOwned /\ StoreOwned
  BY DEF IInv
<1>1. ASSUME NEW w \in Workers, NEW op \in Ops, Begin(w, op) PROVE replies' = replies
  BY <1>1 DEF Begin
<1>2. ASSUME NEW w \in Workers, CallStep(w) \/ CallerStep(w) PROVE replies' \subseteq replies
  BY <1>0, <1>2, SendEffect, EndEffect, ForgetEffect DEF CallStep, CallerStep
<1>3. ASSUME NEW m \in wire, ServerStep(m) PROVE r.id = m.id /\ AnswerTrue(r, m.key)'
  BY <1>3, AnswerEffect
<1>4. ASSUME NEW k, Expire(k) \/ Settle(k) PROVE replies' = replies
  BY <1>4 DEF Expire, Settle
<1>5. QED
  BY <1>1, <1>2, <1>3, <1>4 DEF Next, vars

\* A call that begins takes a new attempt; what was counted stays so.
LEMMA CountedKept ==
    ASSUME IInv, [Next]_vars, NEW m, m.id \in Ops \X Nat, Counted(m)
    PROVE  Counted(m)'
<1>0. TypeOK /\ CallsOwned /\ StoreOwned
  BY DEF IInv
<1>1. m.id[1] \in Ops /\ m.id[2] \in Nat /\ m.id = <<m.id[1], m.id[2]>>
  OBVIOUS
<1>2. ASSUME NEW w \in Workers, NEW op \in Ops, Begin(w, op) PROVE Counted(m)'
  <2>1. \A p \in Ops : attempts[p] \in Nat /\ attempts'[p] = IF p = op THEN attempts[p] + 1 ELSE attempts[p]
    BY <1>0, <1>2, BeginEffect, BalanceAssumption DEF TypeOK
  <2>2. m.id[2] <= attempts'[m.id[1]]
    BY <1>1, <2>1 DEF Counted
  <2>3. RequestId(call'[w]) = <<op, attempts[op] + 1>>
    BY <1>0, <1>2, BeginEffect DEF RequestId
  <2>4. m.id # RequestId(call'[w])
    <3>1. ASSUME m.id = <<op, attempts[op] + 1>> PROVE FALSE
      <4>1. m.id[1] = op /\ m.id[2] = attempts[op] + 1
        BY <3>1
      <4>2. QED
        BY <2>1, <4>1 DEF Counted
    <3>2. QED
      BY <2>3, <3>1
  <2>5. \A v \in Workers \ {w} : call'[v] = call[v]
    BY <1>0, <1>2, BeginEffect
  <2>6. ASSUME NEW v \in Workers, call'[v].pc = "called" PROVE m.id # RequestId(call'[v])
    BY <2>4, <2>5, <2>6 DEF Counted
  <2>7. QED
    BY <2>2, <2>6 DEF Counted
<1>3. ASSUME attempts' = attempts,
             \A v \in Workers : call'[v].pc = "called" => call'[v] = call[v]
      PROVE  Counted(m)'
  <2>1. \A v \in Workers : call'[v].pc = "called" => call[v].pc = "called" /\ m.id # RequestId(call'[v])
    BY <1>3 DEF Counted
  <2>2. QED
    BY <1>3, <2>1 DEF Counted
<1>4. ASSUME NEW w \in Workers, Refuse(w) \/ FailLocally(w) \/ Abandon(w) \/ Receive(w)
      PROVE  Counted(m)'
  BY <1>0, <1>3, <1>4, EndEffect DEF callerVars
<1>5. ASSUME NEW w \in Workers, Send(w) \/ Replay(w) PROVE Counted(m)'
  <2>1. attempts' = attempts
    BY <1>5 DEF Send, Replay, callerVars
  <2>2. QED
    BY <1>0, <1>3, <1>5, <2>1, SendEffect
<1>6. ASSUME NEW w \in Workers, Record(w) \/ AssumeCommitted(w) \/ LeaveOpen(w) \/ Crash(w)
      PROVE  Counted(m)'
  BY <1>0, <1>3, <1>6, ForgetEffect DEF IdleCall
<1>7. ASSUME NEW q \in wire, ServerStep(q) PROVE Counted(m)'
  BY <1>0, <1>3, <1>7, ServerEffect DEF callerVars
<1>8. ASSUME NEW k, Expire(k) \/ Settle(k) PROVE Counted(m)'
  BY <1>3, <1>8 DEF Expire, Settle, callerVars
<1>9. CASE UNCHANGED vars
  BY <1>3, <1>9 DEF vars, callerVars
<1>10. QED
  BY <1>2, <1>4, <1>5, <1>6, <1>7, <1>8, <1>9 DEF Next, CallStep, CallerStep

\* A call that sends is a counted attempt, and no other call is the same one.
LEMMA NewRequestCounted ==
    ASSUME IInv, AnswerInv, NEW m, NewRequest(m)
    PROVE  Counted(m)'
<1>0. TypeOK /\ CallsOwned /\ StoreOwned /\ CallsDistinct
  BY DEF IInv, AnswerInv
<1>1. PICK w \in Workers : (Send(w) \/ Replay(w)) /\ m.id = RequestId(call[w])
  BY DEF NewRequest
<1>2. /\ call[w].pc \in {"called", "sent"} /\ call'[w].pc = "sent"
      /\ \A v \in Workers \ {w} : call'[v] = call[v]
  BY <1>0, <1>1, SendEffect
<1>3. attempts' = attempts
  BY <1>1 DEF Send, Replay, callerVars
<1>4. call[w].try \in 1..attempts[call[w].op]
  BY <1>0, <1>2 DEF CallsOwned, CallOwned, IdleCall
<1>5. m.id[1] = call[w].op /\ m.id[2] = call[w].try
  BY <1>1 DEF RequestId
<1>6. m.id[2] <= attempts'[m.id[1]]
  BY <1>3, <1>4, <1>5
<1>7. ASSUME NEW v \in Workers, call'[v].pc = "called" PROVE m.id # RequestId(call'[v])
  <2>1. v # w /\ call'[v] = call[v] /\ call[v].pc # "idle" /\ call[w].pc # "idle"
    BY <1>2, <1>7
  <2>2. QED
    BY <1>0, <1>1, <2>1 DEF CallsDistinct
<1>8. QED
  BY <1>6, <1>7 DEF Counted

LEMMA MessagesCountedStep == IInv /\ AnswerInv /\ [Next]_vars => MessagesCounted'
<1> SUFFICES ASSUME IInv, AnswerInv, [Next]_vars, NEW m \in (wire \cup replies)' PROVE Counted(m)'
  BY DEF MessagesCounted
<1>1. \A q \in wire \cup replies : q.id \in Ops \X Nat /\ Counted(q)
  BY DEF IInv, TypeOK, RequestType, ReplyType, AnswerInv, MessagesCounted
<1>2. CASE m \in wire \cup replies
  BY <1>1, <1>2, CountedKept
<1>3. CASE m \in wire' /\ m \notin wire
  BY <1>3, WireOrigin, NewRequestCounted
<1>4. CASE m \in replies' /\ m \notin replies
  <2>1. PICK q \in wire : m.id = q.id
    BY <1>4, ReplyOrigin
  <2>2. Counted(m) /\ m.id \in Ops \X Nat
    BY <1>1, <2>1 DEF Counted
  <2>3. QED
    BY <2>2, CountedKept
<1>5. QED
  BY <1>2, <1>3, <1>4

\* What a waiting call is answered is about its own key.
LEMMA MessagesMatchStep == IInv /\ AnswerInv /\ [Next]_vars => MessagesMatch'
<1> SUFFICES ASSUME IInv, AnswerInv, [Next]_vars, NEW u \in Workers, call'[u].pc = "sent",
                    NEW k, k = call'[u].key
             PROVE  /\ \A m \in wire' : m.id = RequestId(call'[u]) => m.key = k
                    /\ \A r \in replies' : r.id = RequestId(call'[u]) => AnswerTrue(r, k)'
  BY DEF MessagesMatch, MatchedCall, AnswerTrue, Told, Executed, Accepted, RequestId
<1>0. TypeOK /\ CallsOwned /\ StoreOwned /\ CallsDistinct /\ MatchedCall(u) /\ LedgerGrown
  BY LedgerGrows DEF IInv, AnswerInv, MessagesMatch
<1>1. /\ call[u].pc \in {"called", "sent"} /\ call'[u].key = call[u].key
      /\ RequestId(call'[u]) = RequestId(call[u])
  BY SentCallKept DEF RequestId
<1>2. ASSUME NEW m \in wire, m.id = RequestId(call[u]) PROVE m.key = call[u].key
  BY <1>0, <1>1, <1>2 DEF MatchedCall, AnswerInv, MessagesCounted, Counted
<1>3. ASSUME NEW m \in wire', m \notin wire, m.id = RequestId(call[u]) PROVE m.key = call[u].key
  <2>1. PICK w \in Workers : (Send(w) \/ Replay(w)) /\ m.id = RequestId(call[w]) /\ m.key = call[w].key
    BY <1>3, WireOrigin DEF NewRequest
  <2>2. call[w].pc \in {"called", "sent"}
    BY <1>0, <2>1, SendEffect
  <2>3. QED
    BY <1>0, <1>1, <1>3, <2>1, <2>2 DEF CallsDistinct
<1>4. k = call[u].key
  BY <1>1
<1>5. ASSUME NEW r \in replies, r.id = RequestId(call[u]) PROVE AnswerTrue(r, k)'
  <2>1. AnswerTrue(r, k)
    BY <1>0, <1>1, <1>4, <1>5 DEF MatchedCall, AnswerInv, MessagesCounted, Counted
  <2>2. QED
    BY <1>0, <2>1, ExecutedStays
<1>6. ASSUME NEW r \in replies', r \notin replies, r.id = RequestId(call[u]) PROVE AnswerTrue(r, k)'
  <2>1. PICK m \in wire : r.id = m.id /\ AnswerTrue(r, m.key)'
    BY <1>6, ReplyOrigin
  <2>2. m.key = k
    BY <1>2, <1>4, <1>6, <2>1
  <2>3. QED
    BY <2>1, <2>2
<1>7. \A r \in replies' : r.id = RequestId(call[u]) => AnswerTrue(r, k)'
  BY <1>5, <1>6
<1>8. \A m \in wire' : m.id = RequestId(call[u]) => m.key = k
  BY <1>2, <1>3, <1>4
<1>9. QED
  BY <1>1, <1>7, <1>8

-----------------------------------------------------------------------------
(* Results and the caller's store.                                         *)

\* An answer arrives as it was sent, or with a body that says nothing.
LEMMA ArrivalEffect ==
    ASSUME NEW r \in ReplyType, NEW got \in Arrivals(r)
    PROVE  \/ got = r
           \/ got.code = r.code /\ got.body \in {"unreadable", "badData"}
           \/ got.code = 502 /\ got.body = "nonJSON"
<1>1. ASSUME NEW body, got = [r EXCEPT !.body = body] PROVE got.code = r.code /\ got.body = body
  BY <1>1 DEF ReplyType
<1>2. ASSUME got = [r EXCEPT !.code = 502, !.body = "nonJSON"] PROVE got.code = 502 /\ got.body = "nonJSON"
  BY <1>2 DEF ReplyType
<1>3. \/ got = r \/ got = [r EXCEPT !.body = "unreadable"] \/ got = [r EXCEPT !.body = "badData"]
      \/ got = [r EXCEPT !.code = 502, !.body = "nonJSON"]
  BY DEF Arrivals
<1>4. QED
  BY <1>1, <1>2, <1>3

\* A call that receives an answer returns what the answer says.
LEMMA ReceiveTrue ==
    ASSUME IInv, AnswerInv, NEW u \in Workers, Receive(u)
    PROVE  /\ call'[u].err = "ErrDuplicateIdempotencyKey" => call[u].key \in Accepted
           /\ call'[u].err = NoError => Told(call'[u].tx, call'[u].pending, call[u].key)
<1>1. PICK r \in replies : /\ Awaits(call[u], r)
                           /\ \E got \in Arrivals(r) : Return(u, ResultError(got), ResultPending(got), ResultTx(got))
  BY DEF Receive
<1>2. PICK got \in Arrivals(r) : Return(u, ResultError(got), ResultPending(got), ResultTx(got))
  BY <1>1
<1>3. /\ call'[u].err = ResultError(got) /\ call'[u].pending = ResultPending(got)
      /\ call'[u].tx = ResultTx(got)
  BY <1>2, ReturnEffect DEF IInv
<1>4. AnswerTrue(r, call[u].key)
  BY <1>1 DEF Awaits, AnswerInv, MessagesMatch, MatchedCall
<1>5. r \in ReplyType
  BY DEF IInv, TypeOK
<1>6. ResultError(got) = "ErrDuplicateIdempotencyKey" => got.code = 409
  BY DEF ResultError, CallError, RequestAPIError, ClassifyStatus, EnvelopeError, NoError
<1>7. got = r \/ (got.code = r.code /\ got.body \in {"unreadable", "badData"})
              \/ (got.code = 502 /\ got.body = "nonJSON")
  BY <1>5, ArrivalEffect
<1>8. ResultError(got) = NoError => got.body \notin {"unreadable", "nonJSON", "statusFalse", "badData"}
  BY DEF ResultError, CallError, RequestAPIError, ClassifyStatus, EnvelopeError, NoError
<1>9. CASE ResultError(got) = NoError
  <2>1. got = r /\ r.body = "goodData"
    BY <1>4, <1>7, <1>8, <1>9 DEF AnswerTrue
  <2>2. ResultTx(got) = r.tx /\ ResultPending(got) = r.pending
    <3>1. r.pending \in BOOLEAN
      BY <1>5 DEF ReplyType
    <3>2. QED
      BY <1>9, <2>1, <3>1 DEF ResultTx, ResultPending, Decodes
  <2>3. QED
    BY <1>3, <1>4, <1>9, <2>1, <2>2 DEF AnswerTrue, NoError
<1>10. CASE ResultError(got) # NoError
  BY <1>3, <1>4, <1>6, <1>7, <1>10 DEF AnswerTrue
<1>11. QED
  BY <1>9, <1>10

\* Refusing, failing locally and giving up say nothing about the ledger.
LEMMA OtherEnds ==
    ASSUME IInv, NEW u \in Workers, Refuse(u) \/ FailLocally(u) \/ Abandon(u)
    PROVE  call'[u].err \notin {"ErrDuplicateIdempotencyKey", NoError}
<1>1. \/ Return(u, "InvalidArgument", FALSE, 0) \/ Return(u, "LocalError", FALSE, 0)
      \/ Return(u, "TransportError", FALSE, 0)
  BY DEF Refuse, FailLocally, Abandon
<1>2. call'[u].err \in {"InvalidArgument", "LocalError", "TransportError"}
  BY <1>1, ReturnEffect DEF IInv
<1>3. QED
  BY <1>2 DEF NoError

LEMMA ResultsTrueStep == IInv /\ AnswerInv /\ [Next]_vars => ResultsTrue'
<1> SUFFICES ASSUME IInv, AnswerInv, [Next]_vars, NEW u \in Workers, call'[u].pc = "returned",
                    NEW k, k = call'[u].key, NEW tx, tx = call'[u].tx,
                    NEW pending, pending = call'[u].pending
             PROVE  /\ call'[u].err = "ErrDuplicateIdempotencyKey" => (k \in Accepted)'
                    /\ call'[u].err = NoError => Told(tx, pending, k)'
  BY DEF ResultsTrue, ResultTrue, Told, Executed, Accepted
<1>0. TypeOK /\ CallsOwned /\ StoreOwned /\ ResultTrue(u) /\ LedgerGrown
  BY LedgerGrows DEF IInv, AnswerInv, ResultsTrue
<1>1. SUFFICES /\ call'[u].err = "ErrDuplicateIdempotencyKey" => k \in Accepted
               /\ call'[u].err = NoError => Told(tx, pending, k)
  BY <1>0, ExecutedStays
<1>2. CASE call'[u] = call[u]
  BY <1>0, <1>2 DEF ResultTrue
<1>3. ASSUME Receive(u)
      PROVE  /\ call'[u].err = "ErrDuplicateIdempotencyKey" => k \in Accepted
             /\ call'[u].err = NoError => Told(tx, pending, k)
  <2>1. k = call[u].key
    BY <1>0, <1>3, EndEffect
  <2>2. QED
    BY <1>3, <2>1, ReceiveTrue
<1>4. ASSUME Refuse(u) \/ FailLocally(u) \/ Abandon(u)
      PROVE  call'[u].err \notin {"ErrDuplicateIdempotencyKey", NoError}
  BY <1>4, OtherEnds
<1>5. ASSUME NEW w \in Workers, NEW op \in Ops, Begin(w, op) PROVE call'[u] = call[u]
  BY <1>0, <1>5, BeginEffect
<1>6. ASSUME NEW w \in Workers \ {u}, Refuse(w) \/ FailLocally(w) \/ Abandon(w) \/ Receive(w)
      PROVE  call'[u] = call[u]
  BY <1>0, <1>6, EndEffect
<1>7. ASSUME NEW w \in Workers, Send(w) \/ Replay(w) PROVE call'[u] = call[u]
  BY <1>0, <1>7, SendEffect
<1>8. ASSUME NEW w \in Workers, Record(w) \/ AssumeCommitted(w) \/ LeaveOpen(w) \/ Crash(w)
      PROVE  call'[u] = call[u]
  BY <1>0, <1>8, ForgetEffect DEF IdleCall
<1>9. ASSUME NEW m \in wire, ServerStep(m) PROVE call' = call
  BY <1>0, <1>9, ServerEffect
<1>10. ASSUME NEW j, Expire(j) \/ Settle(j) PROVE call' = call
  BY <1>10 DEF Expire, Settle
<1>11. QED
  BY <1>2, <1>3, <1>4, <1>5, <1>6, <1>7, <1>8, <1>9, <1>10 DEF Next, CallStep, CallerStep, vars

\* Only Record and AssumeCommitted touch the store, and only for the operation
\* of a call that came back.
StoreKept == UNCHANGED <<storeTx, status>>

LEMMA StoreEffect ==
    ASSUME IInv, [Next]_vars
    PROVE  \/ StoreKept
           \/ \E w \in Workers : Record(w) \/ AssumeCommitted(w)
<1>1. ASSUME NEW w \in Workers, CallStep(w) \/ LeaveOpen(w) \/ Crash(w) PROVE StoreKept
  BY <1>1 DEF CallStep, Refuse, FailLocally, Send, Abandon, Replay, Receive, LeaveOpen, Crash,
              callerVars, StoreKept
<1>2. ASSUME NEW w \in Workers, NEW op \in Ops, Begin(w, op) PROVE StoreKept
  BY <1>2 DEF Begin, StoreKept
<1>3. ASSUME NEW m \in wire, ServerStep(m) PROVE StoreKept
  BY <1>3, ServerEffect DEF callerVars, IInv, StoreKept
<1>4. ASSUME NEW k, Expire(k) \/ Settle(k) PROVE StoreKept
  BY <1>4 DEF Expire, Settle, callerVars, StoreKept
<1>5. UNCHANGED vars => StoreKept
  BY DEF vars, callerVars, StoreKept
<1>6. QED
  BY <1>1, <1>2, <1>3, <1>4, <1>5 DEF Next, CallerStep

\* A call in progress with an accepted key has had its operation accepted.
LEMMA OwnRow ==
    ASSUME IInv, NEW w \in Workers, call[w].pc # "idle", NEW i, Executed(i, call[w].key)
    PROVE  call[w].op \in Ops /\ i \in Rows(call[w].op)
<1>1. ledger[i].key \in Keys /\ ledger[i].key = call[w].key
  BY RowTyped DEF Executed, IInv
<1>2. call[w].op \in Ops /\ owner[call[w].key] = call[w].op
  BY <1>1, BalanceAssumption DEF IInv, CallsOwned, CallOwned, IdleCall
<1>3. QED
  BY <1>1, <1>2 DEF Rows, Executed

LEMMA RecordEffect ==
    ASSUME IInv, AnswerInv, NEW w \in Workers, Record(w)
    PROVE  \E op \in Ops : \E tx \in Rows(op) :
              /\ \A p \in Ops : Rows(p)' = Rows(p)
              /\ storeTx' = [storeTx EXCEPT ![op] = tx]
              /\ status' = [status EXCEPT ![op] = "recorded"]
<1>1. call[w].pc = "returned" /\ call[w].err = NoError
  BY DEF Record
<1>2. Executed(call[w].tx, call[w].key)
  BY <1>1 DEF AnswerInv, ResultsTrue, ResultTrue, Told
<1>3. call[w].op \in Ops /\ call[w].tx \in Rows(call[w].op)
  BY <1>1, <1>2, OwnRow
<1>4. \A p \in Ops : Rows(p)' = Rows(p)
  BY DEF Record, serverVars, Rows
<1>5. QED
  BY <1>3, <1>4 DEF Record

LEMMA AssumeEffect ==
    ASSUME IInv, AnswerInv, NEW w \in Workers, AssumeCommitted(w)
    PROVE  \E op \in Ops :
              /\ Rows(op) # {}
              /\ \A p \in Ops : Rows(p)' = Rows(p)
              /\ storeTx' = storeTx
              /\ status' = [status EXCEPT ![op] = IF @ = "open" THEN "assumed" ELSE @]
<1>1. call[w].pc = "returned" /\ call[w].err = "ErrDuplicateIdempotencyKey"
  BY DEF AssumeCommitted, IsDuplicateIdempotencyKey
<1>2. call[w].key \in Accepted
  BY <1>1 DEF AnswerInv, ResultsTrue, ResultTrue
<1>3. PICK i : Executed(i, call[w].key)
  BY <1>2 DEF Accepted, Executed
<1>4. call[w].op \in Ops /\ Rows(call[w].op) # {}
  BY <1>1, <1>3, OwnRow
<1>5. \A p \in Ops : Rows(p)' = Rows(p)
  BY DEF AssumeCommitted, serverVars, Rows
<1>6. QED
  BY <1>4, <1>5 DEF AssumeCommitted

LEMMA StoreTrueStep == IInv /\ AnswerInv /\ [Next]_vars => StoreTrue'
<1> SUFFICES ASSUME IInv, AnswerInv, [Next]_vars, NEW op \in Ops
             PROVE  /\ status'[op] # "open" => Rows(op)' # {}
                    /\ status'[op] = "recorded" => storeTx'[op] \in Rows(op)'
  BY DEF StoreTrue, SettledTrue
<1>0. TypeOK /\ SettledTrue(op) /\ Rows(op) \subseteq Rows(op)'
  BY RowsGrow DEF IInv, AnswerInv, StoreTrue
<1>1. CASE StoreKept
  BY <1>0, <1>1 DEF SettledTrue, StoreKept
<1>2. ASSUME NEW w \in Workers, Record(w)
      PROVE  /\ status'[op] # "open" => Rows(op)' # {}
             /\ status'[op] = "recorded" => storeTx'[op] \in Rows(op)'
  BY <1>0, <1>2, RecordEffect DEF SettledTrue, TypeOK
<1>3. ASSUME NEW w \in Workers, AssumeCommitted(w)
      PROVE  /\ status'[op] # "open" => Rows(op)' # {}
             /\ status'[op] = "recorded" => storeTx'[op] \in Rows(op)'
  BY <1>0, <1>3, AssumeEffect DEF SettledTrue, TypeOK
<1>4. QED
  BY <1>1, <1>2, <1>3, StoreEffect

-----------------------------------------------------------------------------
(* The theorems.                                                           *)

LEMMA InitAnswerInv == Init => AnswerInv
BY DEF Init, AnswerInv, MessagesCounted, CallsDistinct, MessagesMatch, MatchedCall,
       ResultsTrue, ResultTrue, StoreTrue, SettledTrue, IdleCall

LEMMA AnswersInductive == Spec => [](IInv /\ AnswerInv)
<1>1. IInv /\ AnswerInv /\ [Next]_vars => AnswerInv'
  BY CallsDistinctStep, MessagesCountedStep, MessagesMatchStep, ResultsTrueStep, StoreTrueStep
  DEF AnswerInv
<1>2. QED
  BY <1>1, Inductive, InitAnswerInv, PTL DEF Spec

\* A call that returns ErrDuplicateIdempotencyKey used a key whose operation has
\* been accepted, for any number of retries, workers and re-sent requests
\* (card_balance.go:55).
THEOREM DuplicateIsCommitted == Spec => []DuplicateMeansCommitted
<1>1. IInv /\ AnswerInv => DuplicateMeansCommitted
  BY DEF AnswerInv, ResultsTrue, ResultTrue, DuplicateMeansCommitted, IsDuplicateIdempotencyKey
<1>2. QED
  BY <1>1, AnswersInductive, PTL

\* A call that returns a nil error and says that the operation is not pending
\* has had its own operation carried out with its amount, however retries, late
\* answers and the server's later decisions interleave (card_balance.go:30, 97).
THEOREM NotPendingDone == Spec => []NotPendingIsDone
<1>1. ASSUME IInv, AnswerInv, NEW w \in Workers, call[w].pc = "returned", call[w].err = NoError,
             ~call[w].pending
      PROVE  /\ call[w].tx \in Rows(call[w].op)
             /\ ledger[call[w].tx].delta = Amount[call[w].op]
             /\ outcome[call[w].tx] = "success"
  <2>1. Told(call[w].tx, call[w].pending, call[w].key)
    BY <1>1 DEF AnswerInv, ResultsTrue, ResultTrue
  <2>2. Executed(call[w].tx, call[w].key) /\ outcome[call[w].tx] = "success"
    BY <1>1, <2>1 DEF Told
  <2>3. call[w].op \in Ops /\ call[w].tx \in Rows(call[w].op)
    BY <1>1, <2>2, OwnRow
  <2>4. QED
    BY <1>1, <2>2, <2>3 DEF Rows, IInv, LedgerOnce
<1>2. IInv /\ AnswerInv => NotPendingIsDone
  BY <1>1 DEF NotPendingIsDone
<1>3. QED
  BY <1>2, AnswersInductive, PTL

\* The transaction id a caller records was accepted for its own operation with
\* its own amount, whichever attempt the answer belongs to (card_balance.go:59).
THEOREM RecordedIsOwn == Spec => []RecordedTxIsOwn
<1>1. ASSUME IInv, AnswerInv, NEW op \in Ops, status[op] = "recorded"
      PROVE  storeTx[op] \in Rows(op) /\ ledger[storeTx[op]].delta = Amount[op]
  <2>1. storeTx[op] \in Rows(op)
    BY <1>1 DEF AnswerInv, StoreTrue, SettledTrue
  <2>2. QED
    BY <1>1, <2>1 DEF Rows, IInv, LedgerOnce
<1>2. IInv /\ AnswerInv => RecordedTxIsOwn
  BY <1>1 DEF RecordedTxIsOwn
<1>3. QED
  BY <1>2, AnswersInductive, PTL

\* A settled operation is never reopened.
LEMMA StatusKept ==
    ASSUME IInv, AnswerInv, [Next]_vars, NEW op \in Ops
    PROVE  /\ status[op] # "open" => status'[op] # "open"
           /\ status[op] = "recorded" => status'[op] = "recorded"
<1>0. TypeOK
  BY DEF IInv
<1>1. ASSUME NEW w \in Workers, Record(w)
      PROVE  /\ status[op] # "open" => status'[op] # "open"
             /\ status[op] = "recorded" => status'[op] = "recorded"
  BY <1>0, <1>1, RecordEffect DEF TypeOK
<1>2. ASSUME NEW w \in Workers, AssumeCommitted(w)
      PROVE  /\ status[op] # "open" => status'[op] # "open"
             /\ status[op] = "recorded" => status'[op] = "recorded"
  BY <1>0, <1>2, AssumeEffect DEF TypeOK
<1>3. QED
  BY <1>1, <1>2, StoreEffect DEF StoreKept

\* An operation with a stored key has at most one row.
OneRowEach == \A op \in Ops \ Fresh : \A i, j \in Rows(op) : i = j

LEMMA OneRow == IInv => OneRowEach
<1> SUFFICES ASSUME IInv, NEW op \in Ops \ Fresh, NEW i \in Rows(op), NEW j \in Rows(op)
             PROVE  i = j
  BY DEF OneRowEach
<1>1. /\ i \in DOMAIN ledger /\ ledger[i].key \in Keys /\ owner[ledger[i].key] = op
      /\ j \in DOMAIN ledger /\ ledger[j].key \in Keys /\ owner[ledger[j].key] = op
  BY RowTyped DEF Rows, IInv
<1>2. ledger[i].key = ledger[j].key
  BY <1>1 DEF IInv, StoreOwned
<1>3. QED
  BY <1>1, <1>2 DEF IInv, LedgerOnce

\* What the caller no longer retries was accepted with its amount (whether it was
\* carried out by then is NotPendingDone's), and with a stored key this is final:
\* it is not reopened, not accepted again by a retry still in flight, and a late
\* answer does not replace its transaction id (card_balance.go:42-60).
THEOREM SettledStays == Spec => SettledIsFinal
<1>1. ASSUME IInv, AnswerInv, OneRowEach', AnswerInv', [Next]_vars, NEW op \in Ops, status[op] # "open"
      PROVE  /\ \E i \in Rows(op) : ledger[i].delta = Amount[op]
             /\ status'[op] # "open"
             /\ op \notin Fresh => /\ Rows(op)' = Rows(op)
                                   /\ status[op] = "recorded" => storeTx'[op] = storeTx[op]
  <2>1. PICK i \in Rows(op) : TRUE
    BY <1>1 DEF AnswerInv, StoreTrue, SettledTrue
  <2>2. ledger[i].delta = Amount[op]
    BY <1>1, <2>1 DEF Rows, IInv, LedgerOnce
  <2>3. Rows(op) \subseteq Rows(op)'
    BY <1>1, RowsGrow
  <2>4. ASSUME op \notin Fresh, NEW j \in Rows(op)' PROVE j = i
    <3>1. i \in Rows(op)'
      BY <2>1, <2>3
    <3>2. QED
      BY <1>1, <2>4, <3>1 DEF OneRowEach
  <2>5. ASSUME op \notin Fresh, status[op] = "recorded" PROVE storeTx'[op] = storeTx[op]
    <3>1. storeTx[op] \in Rows(op)
      BY <1>1, <2>5 DEF AnswerInv, StoreTrue, SettledTrue
    <3>2. storeTx'[op] \in Rows(op)'
      BY <1>1, <2>5, StatusKept DEF AnswerInv, StoreTrue, SettledTrue
    <3>3. QED
      BY <2>3, <2>4, <2>5, <3>1, <3>2
  <2>6. QED
    BY <1>1, <2>1, <2>2, <2>3, <2>4, <2>5, StatusKept
<1>2. IInv /\ AnswerInv /\ OneRowEach' /\ AnswerInv' /\ [Next]_vars =>
        \A op \in Ops : status[op] # "open" =>
          /\ \E i \in Rows(op) : ledger[i].delta = Amount[op]
          /\ status'[op] # "open"
          /\ op \notin Fresh => /\ Rows(op)' = Rows(op)
                                /\ status[op] = "recorded" => storeTx'[op] = storeTx[op]
  BY <1>1
<1>3. QED
  BY <1>2, AnswersInductive, OneRow, PTL DEF SettledIsFinal, Spec

=============================================================================
