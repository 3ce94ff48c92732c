------------------------ MODULE CardTransactionsProofs ------------------------
(***************************************************************************)
(* Proofs about CardTransactions, for any transactions, queries, operators *)
(* and bounds.  The inductive invariant follows a request by its name from *)
(* the call over the wire and the server into the reply.                   *)
(***************************************************************************)
EXTENDS CardTransactions, TLAPS

-----------------------------------------------------------------------------
(* What a list is asked for and what it shows.                             *)

LEMMA StringFields ==
    ASSUME NEW text
    PROVE  String(text).text = text
BY DEF String

LEMMA StringSelects ==
    ASSUME NEW text, NEW fact
    PROVE  Selects(String(text), fact) <=> text \in {"", fact}
<1>1. ASSUME String(text) = String(fact) PROVE text = fact
  <2>1. String(text).text = String(fact).text
    BY <1>1, Zenon
  <2> QED BY <2>1, StringFields
<1>2. IsBlank(String(text)) <=> text = ""
  BY StringFields DEF IsBlank
<1> QED BY <1>1, <1>2, Zenon DEF Selects

\* An id is sent as it is spelled, without the white space around it.
LEMMA IdSelects ==
    ASSUME NEW s \in Strings, NEW id
    PROVE  Selects(TrimSpace(s), id) <=> AsksId(s, id)
<1> PICK t : t = TrimSpace(s)
  OBVIOUS
<1>1. t.text = s.text /\ t = [text |-> s.text, padded |-> FALSE, upper |-> s.upper]
  BY DEF TrimSpace
<1>2. s.upper \in BOOLEAN
  BY DEF Strings
<1>3. t = String(id) <=> s.text = id /\ s.upper = FALSE
  <2>1. ASSUME t = String(id) PROVE s.text = id /\ s.upper = FALSE
    <3>1. t.text = id /\ t.upper = FALSE
      BY <2>1 DEF String
    <3>2. t.upper = s.upper
      BY <1>1
    <3> QED BY <1>1, <3>1, <3>2
  <2>2. ASSUME s.text = id, s.upper = FALSE PROVE t = String(id)
    BY <1>1, <2>2 DEF String
  <2> QED BY <2>1, <2>2
<1> QED BY <1>1, <1>2, <1>3, Zenon DEF Selects, IsBlank, AsksId

LEMMA NameSelects ==
    ASSUME NEW s \in Strings, NEW name
    PROVE  Selects(Filter(s), name) <=> AsksName(s, name)
<1>1. Filter(s) = String(s.text)
  BY DEF Filter, ToLower, TrimSpace, String
<1>2. Selects(String(s.text), name) <=> s.text \in {"", name}
  BY ONLY StringSelects, Zenon
<1> QED BY ONLY <1>1, <1>2, Zenon DEF AsksName

LEMMA TimeSelects ==
    ASSUME NEW from \in Nat \cup {NoTime}, NEW to \in Nat \cup {NoTime}, NEW time \in Nat
    PROVE  Within(time, WholeSecond(from), WholeSecond(to)) <=> AsksTime(from, to, time)
<1>1. ASSUME NEW t \in Nat PROVE /\ WholeSecond(t) = 2 * Second(t) /\ WholeSecond(t) # NoTime
                                 /\ Second(t) \in Nat
  BY DEF WholeSecond, Second, NoTime
<1>2. WholeSecond(NoTime) = NoTime
  BY DEF WholeSecond
<1>3. ASSUME NEW t \in Nat PROVE 2 * Second(t) <= time <=> Second(t) <= Second(time)
  BY DEF Second
<1>4. NoTime \notin Nat
  BY DEF NoTime
<1> HIDE DEF NoTime
<1> QED BY <1>1, <1>2, <1>3, <1>4 DEF Within, AsksTime

LEMMA ParametersMeanQuery ==
    ASSUME NEW q \in TransactionListQueries,
           Client \in [userID : Strings, cardID : Strings], \A tx \in Txs : Facts[tx].created \in Nat
    PROVE  RowsFor(ListParameters(q, Client)) = Wanted(q)
<1> DEFINE p == ListParameters(q, Client)
           Own(s, own) == IF s.text = "" THEN own ELSE s
<1>1. /\ q.BankID \in Strings /\ q.CardID \in Strings /\ q.UserID \in Strings
      /\ q.Type \in Strings /\ q.Status \in Strings /\ q.Page \in Int /\ q.Limit \in Int
      /\ q.FromDate \in Nat \cup {NoTime} /\ q.ToDate \in Nat \cup {NoTime}
  BY DEF TransactionListQueries
<1>2. \A s, own : Fallback(s, own) = TrimSpace(Own(s, own))
  BY DEF Fallback, IsBlank
<1>3. Own(q.CardID, Client.cardID) \in Strings /\ Own(q.UserID, Client.userID) \in Strings
  BY <1>1
<1>4. /\ p.bank_id = TrimSpace(q.BankID)
      /\ p.card_id = TrimSpace(Own(q.CardID, Client.cardID))
      /\ p.user_id = TrimSpace(Own(q.UserID, Client.userID))
      /\ p.type = Filter(q.Type) /\ p.status = Filter(q.Status)
      /\ p.from_date = WholeSecond(q.FromDate) /\ p.to_date = WholeSecond(q.ToDate)
  BY <1>2 DEF ListParameters, StatusParameter
<1>5. /\ p.page = IF q.Page > 0 THEN q.Page ELSE DefaultPage
      /\ p.limit = CASE q.Limit <= 0 -> DefaultLimit [] q.Limit \in 1..MaxLimit -> q.Limit [] OTHER -> MaxLimit
  BY <1>1 DEF ListParameters, CoercePage, CoerceLimit, DefaultLimit, MaxLimit
<1> HIDE DEF p, Own
<1> DEFINE Selected(tx) == /\ Selects(p.bank_id, Facts[tx].bank_id)
                           /\ Selects(p.card_id, Facts[tx].card_id)
                           /\ Selects(p.user_id, Facts[tx].user_id)
                           /\ Selects(p.type, Facts[tx].type)
                           /\ Selects(p.status, status[tx])
                           /\ Within(Facts[tx].created, p.from_date, p.to_date)
           Asked(tx) == /\ AsksId(q.BankID, Facts[tx].bank_id)
                        /\ AsksId(Own(q.CardID, Client.cardID), Facts[tx].card_id)
                        /\ AsksId(Own(q.UserID, Client.userID), Facts[tx].user_id)
                        /\ AsksName(q.Type, Facts[tx].type)
                        /\ AsksName(q.Status, status[tx])
                        /\ AsksTime(q.FromDate, q.ToDate, Facts[tx].created)
<1>6. ASSUME NEW tx \in Txs PROVE Selected(tx) <=> Asked(tx)
  <2>1. /\ Selects(p.bank_id, Facts[tx].bank_id) <=> AsksId(q.BankID, Facts[tx].bank_id)
        /\ Selects(p.card_id, Facts[tx].card_id) <=> AsksId(Own(q.CardID, Client.cardID), Facts[tx].card_id)
        /\ Selects(p.user_id, Facts[tx].user_id) <=> AsksId(Own(q.UserID, Client.userID), Facts[tx].user_id)
    BY <1>1, <1>3, <1>4, IdSelects, Zenon
  <2>2. /\ Selects(p.type, Facts[tx].type) <=> AsksName(q.Type, Facts[tx].type)
        /\ Selects(p.status, status[tx]) <=> AsksName(q.Status, status[tx])
    BY <1>1, <1>4, NameSelects, Zenon
  <2>3. Within(Facts[tx].created, p.from_date, p.to_date) <=> AsksTime(q.FromDate, q.ToDate, Facts[tx].created)
    BY <1>1, <1>4, TimeSelects
  <2> QED BY <2>1, <2>2, <2>3, Zenon
<1>7. Chosen(p) = {tx \in Txs : Selected(tx)}
  BY Zenon DEF Chosen
<1>8. Meant(q) = {tx \in Txs : Asked(tx)}
  BY Zenon DEF Meant, Own
<1>9. Chosen(p) = Meant(q)
  BY <1>6, <1>7, <1>8
<1>10. Wanted(q) = Rows(OnPage(Meant(q), p.page, p.limit))
  BY <1>5, Zenon DEF Wanted
<1> QED BY <1>9, <1>10, Zenon DEF RowsFor, p

\* The bounds sent lose less than a second: a transaction they admit was created
\* at most a second before FromDate began and not after ToDate, and one from
\* FromDate on that is a second or more older than ToDate is admitted, for any
\* query and time (card_transactions.go:191-196).
THEOREM BoundsWithinASecond ==
    ASSUME NEW q \in TransactionListQueries, NEW time \in Nat
    PROVE  LET p == ListParameters(q, Client)
           IN  /\ Within(time, p.from_date, p.to_date) =>
                      /\ q.FromDate # NoTime => q.FromDate < time + 2
                      /\ q.ToDate # NoTime => time <= q.ToDate
               /\ /\ q.FromDate # NoTime => q.FromDate <= time
                  /\ q.ToDate # NoTime => time + 2 <= q.ToDate
                  => Within(time, p.from_date, p.to_date)
<1> PICK from, to : from = q.FromDate /\ to = q.ToDate
  OBVIOUS
<1>1. from \in Nat \cup {NoTime} /\ to \in Nat \cup {NoTime}
  BY DEF TransactionListQueries
<1>2. /\ ListParameters(q, Client).from_date = WholeSecond(from)
      /\ ListParameters(q, Client).to_date = WholeSecond(to)
  BY DEF ListParameters
<1>3. /\ Within(time, WholeSecond(from), WholeSecond(to)) =>
            (from # NoTime => from < time + 2) /\ (to # NoTime => time <= to)
      /\ (from # NoTime => from <= time) /\ (to # NoTime => time + 2 <= to) =>
            Within(time, WholeSecond(from), WholeSecond(to))
  BY <1>1 DEF Within, WholeSecond, NoTime
<1> QED BY <1>2, <1>3

-----------------------------------------------------------------------------
(* The inductive invariant.                                                *)

Pending == wire \cup working

\* Operator id[1] has come to its call number id[2].
Used(id) == id[2] <= call[id[1]].try

\* No request of this name has settled anything.
NothingDone(id) == \A tx \in Txs : doneBy[tx] # id

NothingPending(id) == \A m \in Pending : m.id # id

\* The request of this name has settled the transaction of call c.
SettledBy(c, id) == c.tx \in Txs /\ doneBy[c.tx] = id /\ status[c.tx] = Outcome(c.kind)

\* Rows that were asked for as reversed are.
ShowsReversed(q, rows) == q.Status.text = "reversed" => \A row \in rows : status[row.tx] = "reversed"

Matches(m, c) == c.kind = m.kind /\ c.tx = m.tx /\ c.asked = m.query

\* A request is counted, the only one of its name, not yet carried out, and
\* says what the call that waits for it says.
RequestTrue(m) == /\ Used(m.id) /\ NothingDone(m.id)
                  /\ \A other \in Pending : other.id = m.id => other = m
                  /\ \A w \in Workers : Awaits(w, m) => Matches(m, call[w])

RequestsTrue == /\ \A m \in Pending : RequestTrue(m)
                /\ wire \cap working = {}
                /\ \A m \in working : m.kind # "list"

\* A reply tells the call that waits for it what has become of its request.
AnswerTrue(r, c) ==
    IF c.kind = "list"
    THEN /\ r.code = 200 /\ r.body = "goodData" /\ r.rows = c.due
         /\ ShowsReversed(c.asked, c.due)
    ELSE \/ r.code = 200 /\ r.body = "goodData" /\ SettledBy(c, r.id)
         \/ r.body = "statusFalse" /\ c.tx \in Txs /\ NothingDone(r.id)

ReplyTrue(r) == /\ NothingPending(r.id)
                /\ \E w \in Workers : Awaits(w, r) /\ AnswerTrue(r, call[w])

RepliesTrue == \A r \in replies : ReplyTrue(r)

\* A call that has returned knows what became of its request, if anything.
ResultTrue(w, c) ==
    /\ c.pc = "returned" /\ c.err = NoError =>
           IF c.kind = "list" THEN c.rows = c.due /\ ShowsReversed(c.asked, c.due)
           ELSE SettledBy(c, <<w, c.try>>)
    /\ c.pc = "returned" /\ c.kind # "list" /\ Refused(c) =>
           c.tx \in Txs /\ NothingDone(<<w, c.try>>) /\ NothingPending(<<w, c.try>>)

ResultsTrue == \A w \in Workers : ResultTrue(w, call[w])

Final == {"success", "reversed"}

\* A transaction is settled for good, by a call that was made.
Settled(tx) == /\ doneBy[tx] # Free => Used(doneBy[tx]) /\ status[tx] \in Final
               /\ told[tx] \subseteq {status[tx]} \cap Final
               /\ tx \in refunded => status[tx] = "reversed"

AllSettled == \A tx \in Txs : Settled(tx)

IInv == TypeOK /\ RequestsTrue /\ RepliesTrue /\ ResultsTrue /\ AllSettled

-----------------------------------------------------------------------------
(* What the steps do, in facts that the provers can use.                   *)

LEMMA CallFields ==
    ASSUME NEW pc, NEW kind, NEW tx, NEW q, NEW try, NEW err
    PROVE  LET c == Call(pc, kind, tx, q, try, err)
           IN  c.pc = pc /\ c.kind = kind /\ c.tx = tx /\ c.asked = q /\ c.try = try /\ c.err = err
BY DEF Call

LEMMA NoCallFields ==
    ASSUME NEW try
    PROVE  NoCall(try).pc = "idle" /\ NoCall(try).try = try /\ NoCall(try).kind = "list"
BY CallFields DEF NoCall

LEMMA ReturnedFields ==
    ASSUME NEW c, NEW err, NEW code, NEW rows
    PROVE  LET d == Returned(c, err, code, rows)
           IN  /\ d.pc = "returned" /\ d.kind = c.kind /\ d.tx = c.tx /\ d.asked = c.asked
               /\ d.try = c.try /\ d.err = err /\ d.code = code /\ d.rows = rows /\ d.due = c.due
BY DEF Returned

LEMMA DueFields ==
    ASSUME NEW c, NEW rows
    PROVE  LET d == Due(c, rows)
           IN  /\ d.pc = c.pc /\ d.kind = c.kind /\ d.tx = c.tx /\ d.asked = c.asked
               /\ d.try = c.try /\ d.err = c.err /\ d.code = c.code /\ d.rows = c.rows /\ d.due = rows
BY DEF Due

LEMMA CallTyped ==
    ASSUME NEW pc \in {"idle", "sent", "returned"}, NEW kind \in Kinds, NEW tx \in Txs \cup {BadId},
           NEW q \in Lists \cup {NoQuery}, NEW try \in 0..MaxCalls, NEW err \in Errors
    PROVE  Call(pc, kind, tx, q, try, err) \in CallType
BY DEF Call, CallType

LEMMA NoCallTyped ==
    ASSUME NEW try \in 0..MaxCalls
    PROVE  NoCall(try) \in CallType
BY CallTyped DEF NoCall, Kinds, Errors, NoError

LEMMA ReturnedTyped ==
    ASSUME NEW c \in CallType, NEW err \in Errors, NEW code \in Nat, NEW rows \in SUBSET RowType
    PROVE  Returned(c, err, code, rows) \in CallType
BY DEF Returned, CallType

LEMMA DueTyped ==
    ASSUME NEW c \in CallType, NEW rows \in SUBSET RowType
    PROVE  Due(c, rows) \in CallType
BY DEF Due, CallType

\* What a call begins with, whichever it is.
Request(kind, tx, q) == IF kind = "list" THEN q \in Lists ELSE tx \in Txs

LocalErrors == {"InvalidArgument", "LocalError"}

LEMMA Entering ==
    ASSUME TypeOK, NEW w \in Workers, ListTransactions(w) \/ Settle(w) \/ FailLocally(w)
    PROVE  \E kind \in Kinds, tx \in Txs \cup {BadId}, q \in Lists \cup {NoQuery} :
              \/ Request(kind, tx, q) /\ Send(w, kind, tx, q)
              \/ \E err \in LocalErrors : Refuse(w, kind, tx, q, err)
<1>1. CASE ListTransactions(w)
  BY <1>1 DEF ListTransactions, Request, Kinds, LocalErrors
<1>2. CASE Settle(w)
  BY <1>2 DEF Settle, Invalid, Request, Kinds, LocalErrors, TypeOK
<1>3. CASE FailLocally(w)
  BY <1>3 DEF FailLocally, Kinds, LocalErrors, TypeOK
<1> QED BY <1>1, <1>2, <1>3

\* Call c begins: the operator's next one.
Begins(w, c) == /\ call[w].pc = "idle" /\ call[w].try < MaxCalls /\ c.try = call[w].try + 1
                /\ call' = [call EXCEPT ![w] = c]

LEMMA SendEffect ==
    ASSUME TypeOK, NEW w \in Workers, NEW kind \in Kinds, NEW tx \in Txs \cup {BadId},
           NEW q \in Lists \cup {NoQuery}, Request(kind, tx, q), Send(w, kind, tx, q)
    PROVE  \E c \in CallType : \E m :
              /\ Begins(w, c) /\ c.pc = "sent"
              /\ IsRequest(m) /\ m.id = <<w, c.try>> /\ Matches(m, c)
              /\ wire' = wire \cup {m}
<1> DEFINE try == call[w].try + 1
           c == Call("sent", kind, tx, q, try, NoError)
           m == [id |-> <<w, try>>, conn |-> 0, kind |-> kind, tx |-> tx, query |-> q]
<1>1. call[w] \in CallType /\ call[w].pc = "idle" /\ call[w].try < MaxCalls
  BY DEF TypeOK, Send, Enter
<1>2. try \in 1..MaxCalls
  BY <1>1, TransactionsAssumption DEF CallType, TransactionsAssumption
<1>3. call' = [call EXCEPT ![w] = c] /\ wire' = wire \cup {m}
  BY DEF Send, Enter, Connections
<1> HIDE DEF try
<1>4. c \in CallType
  BY <1>2, CallTyped DEF Errors, NoError
<1>5. /\ c.pc = "sent" /\ c.kind = kind /\ c.tx = tx /\ c.asked = q /\ c.try = try
  BY CallFields
<1>6. IsRequest(m)
  BY <1>2 DEF IsRequest, CallIds, Request
<1>7. m.id = <<w, try>> /\ m.kind = kind /\ m.tx = tx /\ m.query = q
  OBVIOUS
<1> HIDE DEF c, m
<1>8. Begins(w, c)
  BY <1>1, <1>3, <1>5 DEF Begins, try
<1>9. Matches(m, c) /\ m.id = <<w, c.try>>
  BY <1>5, <1>7 DEF Matches
<1> QED BY <1>3, <1>4, <1>5, <1>6, <1>8, <1>9

LEMMA RefuseEffect ==
    ASSUME TypeOK, NEW w \in Workers, NEW kind \in Kinds, NEW tx \in Txs \cup {BadId},
           NEW q \in Lists \cup {NoQuery}, NEW err \in LocalErrors, Refuse(w, kind, tx, q, err)
    PROVE  \E c \in CallType : Begins(w, c) /\ c.pc = "returned" /\ c.err \in LocalErrors
<1> DEFINE c == Call("returned", kind, tx, q, call[w].try + 1, err)
<1>1. call[w] \in CallType /\ call[w].pc = "idle" /\ call[w].try < MaxCalls
  BY DEF TypeOK, Refuse, Enter
<1>2. call[w].try + 1 \in 0..MaxCalls
  BY <1>1, TransactionsAssumption DEF CallType, TransactionsAssumption
<1>3. call' = [call EXCEPT ![w] = c]
  BY DEF Refuse, Enter
<1>4. c \in CallType
  BY <1>2, CallTyped DEF Errors, LocalErrors
<1>5. c.pc = "returned" /\ c.err = err /\ c.try = call[w].try + 1
  BY CallFields
<1> QED BY <1>1, <1>3, <1>4, <1>5 DEF Begins

\* Call w ends as c, which knows what became of its request.
Ends(w, c) == /\ c.pc = "returned" /\ c.try = call[w].try /\ ResultTrue(w, c)
              /\ call' = [call EXCEPT ![w] = c]
              /\ replies' = RepliesWithout(w)

LEMMA ArrivalEffect ==
    ASSUME NEW r \in ReplyType, NEW got \in Arrivals(r)
    PROVE  /\ got.rows = r.rows /\ got.code \in Nat
           /\ \/ got.code = r.code /\ got.body \in {r.body, "unreadable"}
              \/ got.code = 502 /\ got.body = "nonJSON"
              \/ got.code = r.code /\ r.body = "goodData" /\ got.body = "badData"
<1>1. ASSUME NEW body, got = [r EXCEPT !.body = body]
      PROVE  got.code = r.code /\ got.body = body /\ got.rows = r.rows
  BY <1>1 DEF ReplyType
<1>2. ASSUME got = [r EXCEPT !.code = 502, !.body = "nonJSON"]
      PROVE  got.code = 502 /\ got.body = "nonJSON" /\ got.rows = r.rows
  BY <1>2 DEF ReplyType
<1>3. \/ got = r \/ got = [r EXCEPT !.body = "unreadable"]
      \/ got = [r EXCEPT !.code = 502, !.body = "nonJSON"]
      \/ r.body = "goodData" /\ got = [r EXCEPT !.body = "badData"]
  BY DEF Arrivals
<1>4. r.code \in Nat
  BY DEF ReplyType
<1>5. CASE got = r
  BY <1>4, <1>5
<1>6. CASE got = [r EXCEPT !.body = "unreadable"]
  BY <1>1, <1>4, <1>6
<1>7. CASE r.body = "goodData" /\ got = [r EXCEPT !.body = "badData"]
  BY <1>1, <1>4, <1>7
<1> QED BY <1>2, <1>3, <1>5, <1>6, <1>7

LEMMA CallErrors ==
    ASSUME NEW code \in Nat, NEW body \in Bodies
    PROVE  /\ CallError(code, body) \in Errors
           /\ CallError(code, body) = NoError => body = "goodData"
           /\ code \in {200, 502} => CallError(code, body) \notin Sentinels
BY DEF CallError, RequestAPIError, ClassifyStatus, EnvelopeError, Errors, Sentinels, Bodies, NoError

LEMMA AbandonEnds ==
    ASSUME IInv, NEW w \in Workers, Abandon(w)
    PROVE  \E c \in CallType : Ends(w, c)
<1> DEFINE c == Returned(call[w], "TransportError", 0, {})
<1>1. call[w] \in CallType
  BY DEF IInv, TypeOK
<1>2. c \in CallType
  BY <1>1, ReturnedTyped DEF Errors
<1>3. c.pc = "returned" /\ c.try = call[w].try /\ c.err = "TransportError"
  BY ReturnedFields
<1>4. call' = [call EXCEPT ![w] = c] /\ replies' = RepliesWithout(w)
  BY DEF Abandon, Return
<1> HIDE DEF c
<1>5. ResultTrue(w, c)
  BY <1>3 DEF ResultTrue, Refused, IsAPIError, Sentinels, NoError
<1> QED BY <1>2, <1>3, <1>4, <1>5 DEF Ends

LEMMA ReceiveEnds ==
    ASSUME IInv, NEW w \in Workers, Receive(w)
    PROVE  \E c \in CallType : Ends(w, c)
<1>0. PICK r \in replies :
         /\ Awaits(w, r)
         /\ \E got \in Arrivals(r) :
               Return(w, CallError(got.code, got.body),
                      IF IsAPIError(CallError(got.code, got.body)) THEN got.code ELSE 0,
                      IF CallError(got.code, got.body) = NoError THEN got.rows ELSE {})
  BY Zenon DEF Receive
<1>1. PICK got \in Arrivals(r) :
         Return(w, CallError(got.code, got.body),
                IF IsAPIError(CallError(got.code, got.body)) THEN got.code ELSE 0,
                IF CallError(got.code, got.body) = NoError THEN got.rows ELSE {})
  BY <1>0, Zenon
<1> DEFINE err  == CallError(got.code, got.body)
           code == IF IsAPIError(err) THEN got.code ELSE 0
           rows == IF err = NoError THEN got.rows ELSE {}
           c    == Returned(call[w], err, code, rows)
<1>2. /\ call[w] \in CallType /\ r \in ReplyType
      /\ r.rows \in SUBSET RowType /\ r.body \in Bodies
  BY DEF IInv, TypeOK, ReplyType
<1>3. /\ got.rows = r.rows /\ got.code \in Nat /\ got.body \in Bodies
      /\ \/ got.code = r.code /\ got.body \in {r.body, "unreadable"}
         \/ got.code = 502 /\ got.body = "nonJSON"
         \/ got.code = r.code /\ r.body = "goodData" /\ got.body = "badData"
  BY <1>2, ArrivalEffect DEF Bodies
<1>4. err \in Errors /\ (err = NoError => got.body = "goodData") /\ (got.code \in {200, 502} => err \notin Sentinels)
  BY <1>3, CallErrors
<1> HIDE DEF err
<1>5. code \in Nat /\ rows \in SUBSET RowType /\ (err = NoError => rows = r.rows)
  BY <1>2, <1>3
<1>6. call' = [call EXCEPT ![w] = c] /\ replies' = RepliesWithout(w)
  BY <1>1 DEF Return, err
<1>7. IsAPIError(err) => code = got.code
  OBVIOUS
<1> HIDE DEF code, rows
<1>8. c \in CallType
  BY <1>2, <1>4, <1>5, ReturnedTyped
<1>9. /\ c.pc = "returned" /\ c.kind = call[w].kind /\ c.tx = call[w].tx /\ c.asked = call[w].asked
      /\ c.try = call[w].try /\ c.err = err /\ c.code = code /\ c.rows = rows /\ c.due = call[w].due
  BY ReturnedFields
<1> HIDE DEF c
<1>10. NothingPending(r.id) /\ AnswerTrue(r, call[w]) /\ r.id = <<w, c.try>>
  <2>1. ReplyTrue(r)
    BY DEF IInv, RepliesTrue
  <2>2. PICK v \in Workers : Awaits(v, r) /\ AnswerTrue(r, call[v])
    BY <2>1 DEF ReplyTrue
  <2>3. v = w
    BY <1>0, <2>2 DEF Awaits, RequestId
  <2> QED BY <1>0, <1>9, <2>1, <2>2, <2>3 DEF ReplyTrue, Awaits, RequestId
<1>11. ASSUME c.kind = "list"
       PROVE  ResultTrue(w, c)
  <2>1. r.code = 200 /\ r.body = "goodData" /\ r.rows = c.due /\ ShowsReversed(c.asked, c.due)
    BY <1>9, <1>10, <1>11 DEF AnswerTrue
  <2>2. c.err = NoError => c.rows = c.due
    BY <1>5, <1>9, <2>1
  <2> QED BY <1>11, <2>1, <2>2, Zenon DEF ResultTrue
<1>12. ASSUME c.kind # "list" /\ r.code = 200 /\ r.body = "goodData" /\ SettledBy(call[w], r.id)
       PROVE  ResultTrue(w, c)
  <2>1. ~Refused(c)
    BY <1>3, <1>4, <1>7, <1>9, <1>12 DEF Refused
  <2>2. SettledBy(c, <<w, c.try>>)
    BY <1>9, <1>10, <1>12 DEF SettledBy
  <2> QED BY <1>12, <2>1, <2>2, Zenon DEF ResultTrue
<1>13. ASSUME c.kind # "list" /\ r.body = "statusFalse" /\ call[w].tx \in Txs /\ NothingDone(r.id)
       PROVE  ResultTrue(w, c)
  <2>1. c.err # NoError
    BY <1>3, <1>4, <1>9, <1>13
  <2>2. c.tx \in Txs /\ NothingDone(<<w, c.try>>) /\ NothingPending(<<w, c.try>>)
    BY <1>9, <1>10, <1>13
  <2> QED BY <1>13, <2>1, <2>2, Zenon DEF ResultTrue
<1>14. \/ c.kind = "list"
       \/ c.kind # "list" /\ r.code = 200 /\ r.body = "goodData" /\ SettledBy(call[w], r.id)
       \/ c.kind # "list" /\ r.body = "statusFalse" /\ call[w].tx \in Txs /\ NothingDone(r.id)
  BY <1>9, <1>10, Zenon DEF AnswerTrue
<1>15. ResultTrue(w, c)
  BY <1>11, <1>12, <1>13, <1>14, Zenon
<1> QED BY <1>6, <1>8, <1>9, <1>15 DEF Ends

LEMMA AnswerEffect ==
    ASSUME NEW m, NEW code, NEW body, NEW rows, Answer(m, code, body, rows)
    PROVE  \A r \in replies' : \/ r \in replies
                               \/ /\ r = [id |-> m.id, code |-> code, body |-> body, rows |-> rows]
                                  /\ \E w \in Workers : Awaits(w, m)
BY DEF Answer

\* Message m leaves the server with a refusal that changed nothing.
Refuses(m) == /\ m \in Pending /\ m.kind # "list"
              /\ wire' \cup working' = Pending \ {m} /\ wire' \subseteq wire /\ working' \subseteq working
              /\ \E code \in Nat : Answer(m, code, "statusFalse", {})
              /\ UNCHANGED <<call, told, refunded, status, doneBy>>

LEMMA RefusesEffect ==
    ASSUME IInv, NEW m \in Pending,
           RefuseStatus(m) \/ RefuseBusy(m) \/ RollBack(m) \/ (Commit(m) /\ status[m.tx] \notin Settleable(m.kind))
    PROVE  Refuses(m)
<1>1. wire \cap working = {} /\ (m \in working => m.kind # "list")
  BY DEF IInv, RequestsTrue
<1>2. CASE RefuseStatus(m)
  BY <1>1, <1>2 DEF RefuseStatus, Refuses, Pending, operatorVars, serverVars
<1>3. CASE RefuseBusy(m)
  BY <1>1, <1>3 DEF RefuseBusy, Refuses, Pending, operatorVars, serverVars
<1>4. CASE RollBack(m)
  <2>1. \E code \in Nat : Answer(m, code, "statusFalse", {})
    BY <1>4 DEF RollBack
  <2> QED BY <1>1, <1>4, <2>1 DEF RollBack, Refuses, Pending, operatorVars
<1>5. CASE Commit(m) /\ status[m.tx] \notin Settleable(m.kind)
  BY <1>1, <1>5 DEF Commit, Refuses, Pending, operatorVars
<1> QED BY <1>2, <1>3, <1>4, <1>5

\* Message m settles its transaction.
Settles(m) == /\ m \in working /\ m.kind # "list"
              /\ wire' = wire /\ working' = working \ {m}
              /\ Answer(m, 200, "goodData", {})
              /\ status[m.tx] \in {"pending", "failed"}
              /\ status' = [status EXCEPT ![m.tx] = Outcome(m.kind)]
              /\ doneBy' = [doneBy EXCEPT ![m.tx] = m.id]
              /\ UNCHANGED <<call, told, refunded>>

LEMMA SettlesEffect ==
    ASSUME IInv, NEW m \in Pending, Commit(m), status[m.tx] \in Settleable(m.kind)
    PROVE  Settles(m)
BY DEF IInv, RequestsTrue, Commit, Settles, Settleable, operatorVars

-----------------------------------------------------------------------------
(* Types.                                                                  *)

LEMMA RowsTyped ==
    ASSUME TypeOK, NEW q
    PROVE  Wanted(q) \in SUBSET RowType
<1>1. ASSUME NEW txs \in SUBSET Txs PROVE Rows(txs) \in SUBSET RowType
  BY DEF TypeOK, Rows, RowType
<1>2. ASSUME NEW txs \in SUBSET Txs, NEW page, NEW limit PROVE OnPage(txs, page, limit) \in SUBSET Txs
  BY DEF OnPage
<1>3. Meant(q) \in SUBSET Txs
  BY DEF Meant
<1> QED BY <1>1, <1>2, <1>3 DEF Wanted

LEMMA AnswerTyped ==
    ASSUME \A r \in replies : r \in ReplyType, NEW m, m.id \in CallIds,
           NEW code \in Nat, NEW body \in Bodies, NEW rows \in SUBSET RowType, Answer(m, code, body, rows)
    PROVE  (\A r \in replies : r \in ReplyType)'
<1>1. ASSUME NEW r \in replies' PROVE r \in ReplyType
  BY <1>1, AnswerEffect DEF ReplyType
<1> QED BY <1>1

LEMMA CallsTyped ==
    ASSUME TypeOK, NEW w \in Workers, NEW c \in CallType, call' = [call EXCEPT ![w] = c]
    PROVE  call' \in [Workers -> CallType]
BY DEF TypeOK

LEMMA TypeStep == IInv /\ [Next]_vars => TypeOK'
<1> SUFFICES ASSUME IInv, [Next]_vars PROVE TypeOK'
  OBVIOUS
<1> USE DEF Pending
<1>0. TypeOK
  BY DEF IInv
<1>1. ASSUME NEW w \in Workers, ListTransactions(w) \/ Settle(w) \/ FailLocally(w) PROVE TypeOK'
  <2>1. PICK kind \in Kinds, tx \in Txs \cup {BadId}, q \in Lists \cup {NoQuery} :
           \/ Request(kind, tx, q) /\ Send(w, kind, tx, q)
           \/ \E err \in LocalErrors : Refuse(w, kind, tx, q, err)
    BY <1>0, <1>1, Entering
  <2>2. CASE Request(kind, tx, q) /\ Send(w, kind, tx, q)
    <3> PICK c \in CallType : \E m : Begins(w, c) /\ IsRequest(m) /\ wire' = wire \cup {m}
      BY <1>0, <2>2, SendEffect
    <3>1. PICK m : Begins(w, c) /\ IsRequest(m) /\ wire' = wire \cup {m}
      OBVIOUS
    <3>2. call' \in [Workers -> CallType]
      BY <1>0, <3>1, CallsTyped DEF Begins
    <3> QED BY <1>0, <2>2, <3>1, <3>2 DEF TypeOK, Send, operatorVars, serverVars
  <2>3. ASSUME NEW err \in LocalErrors, Refuse(w, kind, tx, q, err) PROVE TypeOK'
    <3>1. PICK c \in CallType : Begins(w, c)
      BY <1>0, <2>3, RefuseEffect
    <3>2. call' \in [Workers -> CallType]
      BY <1>0, <3>1, CallsTyped DEF Begins
    <3> QED BY <1>0, <2>3, <3>2 DEF TypeOK, Refuse, operatorVars, serverVars
  <2> QED BY <2>1, <2>2, <2>3
<1>2. ASSUME NEW w \in Workers, Abandon(w) \/ Receive(w) PROVE TypeOK'
  <2>1. PICK c \in CallType : Ends(w, c)
    BY <1>2, AbandonEnds, ReceiveEnds
  <2>2. call' \in [Workers -> CallType]
    BY <1>0, <2>1, CallsTyped DEF Ends
  <2>3. UNCHANGED <<operatorVars, wire, working, serverVars>>
    BY <1>2 DEF Abandon, Receive, Return
  <2>4. replies' \subseteq replies
    BY <2>1 DEF Ends, RepliesWithout
  <2> QED BY <1>0, <2>2, <2>3, <2>4 DEF TypeOK, operatorVars, serverVars
<1>3. ASSUME NEW w \in Workers, Acknowledge(w) PROVE TypeOK'
  <2> DEFINE c == call[w]
  <2>1. c \in CallType
    BY <1>0 DEF TypeOK
  <2>2. call' = [call EXCEPT ![w] = NoCall(c.try)] /\ UNCHANGED <<wire, working, replies, serverVars>>
    BY <1>3 DEF Acknowledge
  <2>3. NoCall(c.try) \in CallType
    BY <2>1, NoCallTyped DEF CallType
  <2>4. call' \in [Workers -> CallType]
    BY <1>0, <2>2, <2>3, CallsTyped
  <2>5. /\ view' \in [Workers -> SUBSET Txs] /\ told' \in [Txs -> SUBSET TransactionStatuses]
        /\ refunded' \subseteq Txs
    <3>1. CASE c.err # NoError
      <4>1. UNCHANGED operatorVars
        BY <1>3, <3>1 DEF Acknowledge, operatorVars
      <4>2. view' = view /\ told' = told /\ refunded' = refunded
        BY <4>1 DEF operatorVars
      <4>3. /\ view \in [Workers -> SUBSET Txs] /\ told \in [Txs -> SUBSET TransactionStatuses]
            /\ refunded \subseteq Txs
        BY <1>0 DEF TypeOK
      <4> QED BY <4>2, <4>3
    <3>2. CASE c.err = NoError /\ c.kind = "list"
      <4>1. c.rows \in SUBSET RowType
        BY <2>1 DEF CallType
      <4>2. Shown(c.rows) \subseteq Txs /\ \A row \in c.rows : row.tx \in Txs
        BY <4>1 DEF Shown, RowType
      <4>3. ReadList(w, c)
        BY <1>3, <3>2 DEF Acknowledge
      <4> HIDE DEF c
      <4> QED BY <1>0, <4>2, <4>3 DEF ReadList, TypeOK
    <3>3. CASE c.err = NoError /\ c.kind # "list"
      <4>1. told' = [told EXCEPT ![c.tx] = @ \cup {Outcome(c.kind)}] /\ UNCHANGED <<view, refunded>>
        BY <1>3, <3>3 DEF Acknowledge
      <4> QED BY <1>0, <4>1 DEF TypeOK, Outcome, TransactionStatuses
    <3> QED BY <3>1, <3>2, <3>3
  <2> QED BY <1>0, <2>2, <2>4, <2>5 DEF TypeOK, serverVars
<1>4. ASSUME NEW m \in Pending, ServeList(m) PROVE TypeOK'
  <2>1. IsRequest(m) /\ m.query \in Lists
    BY <1>0, <1>4 DEF TypeOK, IsRequest, ServeList
  <2>2. Wanted(m.query) \in SUBSET RowType /\ RowsFor(ListParameters(m.query, Client)) = Wanted(m.query)
    BY <1>0, <2>1, RowsTyped, ParametersMeanQuery, TransactionsAssumption DEF TransactionsAssumption
  <2>3. Answer(m, 200, "goodData", Wanted(m.query))
    BY <1>4, <2>2 DEF ServeList
  <2>4. \A r \in replies' : r \in ReplyType
    BY <1>0, <2>1, <2>2, <2>3, AnswerTyped DEF TypeOK, Bodies, IsRequest
  <2>5. call' \in [Workers -> CallType]
    BY <1>0, <1>4, <2>2, DueTyped DEF ServeList, TypeOK
  <2> QED BY <1>0, <1>4, <2>4, <2>5 DEF ServeList, TypeOK, operatorVars, serverVars
<1>5. ASSUME NEW m \in Pending, Start(m) PROVE TypeOK'
  <2>1. IsRequest(m) /\ m.kind # "list"
    BY <1>0, <1>5 DEF TypeOK, Start
  <2> QED BY <1>0, <1>5, <2>1 DEF Start, TypeOK, operatorVars, IsRequest
<1>6. ASSUME NEW m \in Pending, RefuseStatus(m) \/ RefuseBusy(m) \/ RollBack(m) \/ Commit(m) PROVE TypeOK'
  <2>1. IsRequest(m) /\ m.id \in CallIds
    BY <1>0 DEF TypeOK, IsRequest
  <2>2. /\ lock' \in CallIds \cup {Free} /\ heard' = heard /\ view' = view
        /\ wire' \subseteq wire /\ working' \subseteq working
    BY <1>0, <1>6 DEF TypeOK, RefuseStatus, RefuseBusy, RollBack, Commit, Released, operatorVars, serverVars
  <2>3. Refuses(m) \/ Settles(m)
    BY <1>6, RefusesEffect, SettlesEffect
  <2>4. \A r \in replies' : r \in ReplyType
    BY <1>0, <2>1, <2>3, AnswerTyped DEF TypeOK, Refuses, Settles, Bodies
  <2>5. CASE Refuses(m)
    BY <1>0, <2>2, <2>4, <2>5 DEF Refuses, TypeOK
  <2>6. CASE Settles(m)
    <3>1. m.tx \in Txs
      BY <2>1, <2>6 DEF IsRequest, Settles
    <3>2. status' \in [Txs -> TransactionStatuses]
      BY <1>0, <2>6, <3>1 DEF Settles, TypeOK, Outcome, TransactionStatuses
    <3>3. doneBy' \in [Txs -> CallIds \cup {Free}]
      BY <1>0, <2>1, <2>6, <3>1 DEF Settles, TypeOK
    <3> QED BY <1>0, <2>2, <2>4, <2>6, <3>2, <3>3 DEF Settles, TypeOK
  <2> QED BY <2>3, <2>5, <2>6
<1>7. CASE UNCHANGED vars
  BY <1>0, <1>7 DEF TypeOK, vars, operatorVars, serverVars
<1> QED BY <1>1, <1>2, <1>3, <1>4, <1>5, <1>6, <1>7 DEF Next, OperatorStep, CallStep, ServerStep

-----------------------------------------------------------------------------
(* Requests, replies, results and the ledger agree.                        *)

Agree == RequestsTrue /\ RepliesTrue /\ ResultsTrue /\ AllSettled

\* No operator goes back to an earlier call.
TriesGrow == \A v \in Workers : call[v].try <= call'[v].try

LEMMA UsedStays ==
    ASSUME TypeOK, TypeOK', TriesGrow, NEW id \in CallIds, Used(id)
    PROVE  Used(id)'
<1>1. PICK v \in Workers, n \in 1..MaxCalls : id = <<v, n>>
  BY DEF CallIds
<1>2. call[v].try \in Nat /\ call'[v].try \in Nat /\ n <= call[v].try /\ call[v].try <= call'[v].try
  BY <1>1 DEF TypeOK, CallType, TriesGrow, Used
<1>3. n <= call'[v].try
  BY <1>1, <1>2, TransactionsAssumption DEF TransactionsAssumption
<1> QED BY <1>1, <1>3 DEF Used

LEMMA SettledStays ==
    ASSUME TypeOK, TypeOK', AllSettled, TriesGrow, UNCHANGED <<told, refunded, status, doneBy>>
    PROVE  AllSettled'
<1>1. ASSUME NEW tx \in Txs PROVE Settled(tx)'
  <2>1. Settled(tx) /\ doneBy[tx] \in CallIds \cup {Free}
    BY DEF AllSettled, TypeOK
  <2>2. doneBy[tx] # Free => Used(doneBy[tx])'
    BY <2>1, UsedStays DEF Settled
  <2> QED BY <2>1, <2>2 DEF Settled
<1> QED BY <1>1 DEF AllSettled

\* A call that begins waits for nothing that is under way.
LEMMA BeginFacts ==
    ASSUME IInv, NEW w \in Workers, NEW c \in CallType, Begins(w, c)
    PROVE  /\ TriesGrow /\ call'[w] = c /\ \A v \in Workers \ {w} : call'[v] = call[v]
           /\ \A m \in Pending : m.id # <<w, c.try>>
           /\ \A tx \in Txs : doneBy[tx] # <<w, c.try>>
           /\ \A r \in replies : r.id[1] # w
<1>1. call \in [Workers -> CallType] /\ call' = [call EXCEPT ![w] = c]
  BY DEF IInv, TypeOK, Begins
<1>2. call[w].try \in Nat /\ c.try = call[w].try + 1 /\ call[w].pc = "idle"
  BY <1>1, TransactionsAssumption DEF CallType, Begins, TransactionsAssumption
<1>3. call'[w] = c /\ \A v \in Workers \ {w} : call'[v] = call[v]
  BY <1>1
<1>4. ASSUME NEW v \in Workers PROVE call[v].try <= call'[v].try
  <2>1. call[v].try \in Nat
    BY <1>1, TransactionsAssumption DEF CallType, TransactionsAssumption
  <2> QED BY <1>2, <1>3, <2>1
<1>5. ~Used(<<w, c.try>>)
  BY <1>2 DEF Used
<1>6. \A m \in Pending : m.id # <<w, c.try>>
  BY <1>5 DEF IInv, RequestsTrue, RequestTrue
<1>7. \A tx \in Txs : doneBy[tx] # <<w, c.try>>
  BY <1>5 DEF IInv, AllSettled, Settled, Free
<1>8. ASSUME NEW r \in replies PROVE r.id[1] # w
  <2>1. PICK v \in Workers : Awaits(v, r)
    BY DEF IInv, RepliesTrue, ReplyTrue
  <2>2. v # w /\ r.id = <<v, call[v].try>>
    BY <1>2, <2>1 DEF Awaits, RequestId
  <2> QED BY <2>2
<1> QED BY <1>3, <1>4, <1>6, <1>7, <1>8 DEF TriesGrow

\* What the others have under way is not touched when call w begins or ends.
LEMMA OtherReplies ==
    ASSUME IInv, NEW w \in Workers, \A v \in Workers \ {w} : call'[v] = call[v],
           UNCHANGED <<status, doneBy>>, NEW r \in replies, ~Awaits(w, r), NothingPending(r.id)'
    PROVE  ReplyTrue(r)'
<1>1. PICK v \in Workers : Awaits(v, r) /\ AnswerTrue(r, call[v])
  BY DEF IInv, RepliesTrue, ReplyTrue
<1>2. v # w /\ call'[v] = call[v]
  BY <1>1
<1>3. Awaits(v, r)'
  BY <1>1, <1>2 DEF Awaits, RequestId
<1>4. AnswerTrue(r, call[v])'
  BY <1>1, <1>2 DEF AnswerTrue, ShowsReversed, SettledBy, NothingDone
<1> QED BY <1>3, <1>4 DEF ReplyTrue

LEMMA OtherResults ==
    ASSUME IInv, NEW w \in Workers, \A v \in Workers \ {w} : call'[v] = call[v],
           UNCHANGED <<status, doneBy>>,
           \A v \in Workers \ {w} : \A n : NothingPending(<<v, n>>) => NothingPending(<<v, n>>)'
    PROVE  \A v \in Workers \ {w} : ResultTrue(v, call[v])'
<1> SUFFICES ASSUME NEW v \in Workers \ {w} PROVE ResultTrue(v, call[v])'
  OBVIOUS
<1>1. PICK c : c = call[v]
  OBVIOUS
<1>2. ResultTrue(v, c) /\ call'[v] = c
  BY <1>1 DEF IInv, ResultsTrue
<1>3. ResultTrue(v, c)'
  <2>1. NothingPending(<<v, c.try>>) => NothingPending(<<v, c.try>>)'
    OBVIOUS
  <2>2. NothingDone(<<v, c.try>>)' <=> NothingDone(<<v, c.try>>)
    BY DEF NothingDone
  <2>3. /\ SettledBy(c, <<v, c.try>>)' <=> SettledBy(c, <<v, c.try>>)
        /\ ShowsReversed(c.asked, c.due)' <=> ShowsReversed(c.asked, c.due)
    BY DEF SettledBy, ShowsReversed
  <2> QED BY <1>2, <2>1, <2>2, <2>3, Zenon DEF ResultTrue
<1> QED BY <1>2, <1>3, Zenon

LEMMA SendKeeps ==
    ASSUME IInv, TypeOK', NEW w \in Workers, NEW c \in CallType, NEW m,
           Begins(w, c), c.pc = "sent", m.id = <<w, c.try>>, Matches(m, c), IsRequest(m),
           wire' = wire \cup {m}, UNCHANGED <<working, replies, told, refunded, status, doneBy>>
    PROVE  Agree'
<1>1. /\ TriesGrow /\ call'[w] = c /\ \A v \in Workers \ {w} : call'[v] = call[v]
      /\ \A other \in Pending : other.id # m.id
      /\ \A tx \in Txs : doneBy[tx] # m.id
      /\ \A r \in replies : r.id[1] # w
  BY BeginFacts
<1>2. Pending' = Pending \cup {m} /\ TypeOK /\ RequestsTrue
  BY DEF Pending, IInv
<1>3. ASSUME NEW other \in Pending PROVE RequestTrue(other)'
  <2>1. RequestTrue(other) /\ other.id \in CallIds
    BY <1>2 DEF RequestsTrue, TypeOK, IsRequest, Pending
  <2>2. Used(other.id)' /\ NothingDone(other.id)'
    BY <1>1, <1>2, <2>1, UsedStays DEF RequestTrue, NothingDone
  <2>3. \A another \in Pending' : another.id = other.id => another = other
    BY <1>1, <1>2, <2>1 DEF RequestTrue
  <2>4. ASSUME NEW v \in Workers, Awaits(v, other)' PROVE Matches(other, call'[v])
    <3>1. v # w
      BY <1>1, <2>4 DEF Awaits, RequestId
    <3>2. Awaits(v, other) /\ call'[v] = call[v]
      BY <1>1, <2>4, <3>1 DEF Awaits, RequestId
    <3> QED BY <2>1, <3>2 DEF RequestTrue
  <2> QED BY <2>2, <2>3, <2>4 DEF RequestTrue, Matches
<1>4. RequestTrue(m)'
  <2>1. Used(m.id)'
    BY <1>1 DEF Used, CallType
  <2>2. NothingDone(m.id)'
    BY <1>1 DEF NothingDone
  <2>3. \A v \in Workers : Awaits(v, m)' => v = w
    BY DEF Awaits, RequestId
  <2>4. \A v \in Workers : Awaits(v, m)' => Matches(m, call'[v])
    BY <1>1, <2>3
  <2> QED BY <1>1, <1>2, <2>1, <2>2, <2>4 DEF RequestTrue, Matches
<1>5. RequestsTrue'
  <2>1. m \notin working
    BY <1>1 DEF Pending
  <2> QED BY <1>2, <1>3, <1>4, <2>1 DEF RequestsTrue
<1>6. RepliesTrue'
  <2>1. ASSUME NEW r \in replies PROVE ReplyTrue(r)'
    <3>1. NothingPending(r.id) /\ r.id # m.id
      BY <1>1 DEF IInv, RepliesTrue, ReplyTrue
    <3>2. NothingPending(r.id)'
      BY <1>2, <3>1 DEF NothingPending
    <3>3. ~Awaits(w, r)
      BY <1>1 DEF Awaits, RequestId
    <3> QED BY <1>1, <3>2, <3>3, OtherReplies
  <2> QED BY <2>1 DEF RepliesTrue
<1>7. ResultsTrue'
  <2>1. ASSUME NEW v \in Workers \ {w}, NEW n, NothingPending(<<v, n>>) PROVE NothingPending(<<v, n>>)'
    BY <1>2, <2>1 DEF NothingPending
  <2>2. \A v \in Workers \ {w} : ResultTrue(v, call[v])'
    BY <1>1, <2>1, OtherResults
  <2>3. ResultTrue(w, call[w])'
    BY <1>1 DEF ResultTrue
  <2> QED BY <2>2, <2>3 DEF ResultsTrue
<1>8. AllSettled'
  BY <1>1, SettledStays DEF IInv
<1> QED BY <1>5, <1>6, <1>7, <1>8 DEF Agree

LEMMA RefuseKeeps ==
    ASSUME IInv, TypeOK', NEW w \in Workers, NEW c \in CallType,
           Begins(w, c), c.pc = "returned", c.err \in LocalErrors,
           UNCHANGED <<wire, working, replies, told, refunded, status, doneBy>>
    PROVE  Agree'
<1>1. /\ TriesGrow /\ call'[w] = c /\ \A v \in Workers \ {w} : call'[v] = call[v]
      /\ \A other \in Pending : other.id # <<w, c.try>>
      /\ \A r \in replies : r.id[1] # w
  BY BeginFacts
<1>2. Pending' = Pending /\ TypeOK /\ RequestsTrue
  BY DEF Pending, IInv
<1>3. ASSUME NEW other \in Pending PROVE RequestTrue(other)'
  <2>1. RequestTrue(other) /\ other.id \in CallIds
    BY <1>2 DEF RequestsTrue, TypeOK, IsRequest, Pending
  <2>2. Used(other.id)' /\ NothingDone(other.id)'
    BY <1>1, <1>2, <2>1, UsedStays DEF RequestTrue, NothingDone
  <2>3. ASSUME NEW v \in Workers, Awaits(v, other)' PROVE Matches(other, call'[v])
    <3>1. v # w
      BY <1>1, <2>3 DEF Awaits, RequestId
    <3>2. Awaits(v, other) /\ call'[v] = call[v]
      BY <1>1, <2>3, <3>1 DEF Awaits, RequestId
    <3> QED BY <2>1, <3>2 DEF RequestTrue
  <2> QED BY <1>2, <2>1, <2>2, <2>3 DEF RequestTrue, Matches
<1>4. RequestsTrue'
  BY <1>2, <1>3 DEF RequestsTrue
<1>5. RepliesTrue'
  <2>1. ASSUME NEW r \in replies PROVE ReplyTrue(r)'
    <3>1. NothingPending(r.id)'
      BY <1>2 DEF IInv, RepliesTrue, ReplyTrue, NothingPending
    <3>2. ~Awaits(w, r)
      BY <1>1 DEF Awaits, RequestId
    <3> QED BY <1>1, <3>1, <3>2, OtherReplies
  <2> QED BY <2>1 DEF RepliesTrue
<1>6. ResultsTrue'
  <2>1. ASSUME NEW v \in Workers \ {w}, NEW n, NothingPending(<<v, n>>) PROVE NothingPending(<<v, n>>)'
    BY <1>2, <2>1 DEF NothingPending
  <2>2. \A v \in Workers \ {w} : ResultTrue(v, call[v])'
    BY <1>1, <2>1, OtherResults
  <2>3. ResultTrue(w, c)'
    BY DEF ResultTrue, Refused, IsAPIError, LocalErrors, Sentinels, NoError
  <2> QED BY <1>1, <2>2, <2>3, Zenon DEF ResultsTrue
<1>7. AllSettled'
  BY <1>1, SettledStays DEF IInv
<1> QED BY <1>4, <1>5, <1>6, <1>7 DEF Agree

LEMMA EndKeeps ==
    ASSUME IInv, TypeOK', NEW w \in Workers, NEW c \in CallType, Ends(w, c),
           UNCHANGED <<wire, working, told, refunded, status, doneBy>>
    PROVE  Agree'
<1>1. TypeOK /\ RequestsTrue /\ RepliesTrue /\ Pending' = Pending
  BY DEF IInv, Pending
<1>2. call'[w] = c /\ c.try = call[w].try /\ \A v \in Workers \ {w} : call'[v] = call[v]
  BY <1>1 DEF Ends, TypeOK
<1>3. TriesGrow
  <2>1. ASSUME NEW v \in Workers PROVE call[v].try <= call'[v].try
    <3>1. call[v].try \in Nat
      BY <1>1, TransactionsAssumption DEF TypeOK, CallType, TransactionsAssumption
    <3> QED BY <1>2, <3>1
  <2> QED BY <2>1 DEF TriesGrow
<1>4. ASSUME NEW m \in Pending PROVE RequestTrue(m)'
  <2>1. RequestTrue(m) /\ m.id \in CallIds
    BY <1>1 DEF RequestsTrue, TypeOK, IsRequest, Pending
  <2>2. Used(m.id)' /\ NothingDone(m.id)'
    BY <1>1, <1>3, <2>1, UsedStays DEF RequestTrue, NothingDone
  <2>3. ASSUME NEW v \in Workers, Awaits(v, m)' PROVE Matches(m, call'[v])
    <3>1. v # w
      BY <1>2, <2>3 DEF Awaits, Ends
    <3>2. Awaits(v, m) /\ call'[v] = call[v]
      BY <1>2, <2>3, <3>1 DEF Awaits, RequestId
    <3> QED BY <2>1, <3>2 DEF RequestTrue
  <2> QED BY <1>1, <2>1, <2>2, <2>3 DEF RequestTrue, Matches
<1>5. RequestsTrue'
  BY <1>1, <1>4 DEF RequestsTrue
<1>6. RepliesTrue'
  <2>1. ASSUME NEW r \in replies, ~Awaits(w, r) PROVE ReplyTrue(r)'
    <3>1. NothingPending(r.id)'
      BY <1>1 DEF RepliesTrue, ReplyTrue, NothingPending
    <3> QED BY <1>2, <2>1, <3>1, OtherReplies
  <2> QED BY <2>1 DEF RepliesTrue, Ends, RepliesWithout
<1>7. ResultsTrue'
  <2>1. ASSUME NEW v \in Workers, NEW n, NothingPending(<<v, n>>) PROVE NothingPending(<<v, n>>)'
    BY <1>1, <2>1 DEF NothingPending
  <2>2. \A v \in Workers \ {w} : ResultTrue(v, call[v])'
    BY <1>2, <2>1, OtherResults
  <2>3. ResultTrue(w, c)'
    <3>1. ResultTrue(w, c)
      BY DEF Ends
    <3>2. NothingDone(<<w, c.try>>)' <=> NothingDone(<<w, c.try>>)
      BY DEF NothingDone
    <3>3. /\ SettledBy(c, <<w, c.try>>)' <=> SettledBy(c, <<w, c.try>>)
          /\ ShowsReversed(c.asked, c.due)' <=> ShowsReversed(c.asked, c.due)
      BY DEF SettledBy, ShowsReversed
    <3>4. NothingPending(<<w, c.try>>) => NothingPending(<<w, c.try>>)'
      BY <2>1
    <3> QED BY <3>1, <3>2, <3>3, <3>4, Zenon DEF ResultTrue
  <2> QED BY <1>2, <2>2, <2>3, Zenon DEF ResultsTrue
<1>8. AllSettled'
  BY <1>1, <1>3, SettledStays DEF IInv
<1> QED BY <1>5, <1>6, <1>7, <1>8 DEF Agree

LEMMA AcknowledgeKeeps ==
    ASSUME IInv, TypeOK', NEW w \in Workers, Acknowledge(w)
    PROVE  Agree'
<1> DEFINE c == call[w]
<1>1. TypeOK /\ RequestsTrue /\ RepliesTrue /\ Pending' = Pending
  BY DEF IInv, Pending, Acknowledge
<1>2. /\ c.pc = "returned" /\ call' = [call EXCEPT ![w] = NoCall(c.try)]
      /\ UNCHANGED <<wire, working, replies, status, doneBy>>
  BY DEF Acknowledge, serverVars
<1>3. /\ call'[w].pc = "idle" /\ call'[w].try = call[w].try
      /\ \A v \in Workers \ {w} : call'[v] = call[v]
  BY <1>1, <1>2, NoCallFields DEF TypeOK
<1>4. TriesGrow
  <2>1. ASSUME NEW v \in Workers PROVE call[v].try <= call'[v].try
    <3>1. call[v].try \in Nat
      BY <1>1, TransactionsAssumption DEF TypeOK, CallType, TransactionsAssumption
    <3> QED BY <1>3, <3>1
  <2> QED BY <2>1 DEF TriesGrow
<1>5. ASSUME NEW m \in Pending PROVE RequestTrue(m)'
  <2>1. RequestTrue(m) /\ m.id \in CallIds
    BY <1>1 DEF RequestsTrue, TypeOK, IsRequest, Pending
  <2>2. Used(m.id)' /\ NothingDone(m.id)'
    BY <1>1, <1>2, <1>4, <2>1, UsedStays DEF RequestTrue, NothingDone
  <2>3. ASSUME NEW v \in Workers, Awaits(v, m)' PROVE Matches(m, call'[v])
    <3>1. v # w
      BY <1>3, <2>3 DEF Awaits
    <3>2. Awaits(v, m) /\ call'[v] = call[v]
      BY <1>3, <2>3, <3>1 DEF Awaits, RequestId
    <3> QED BY <2>1, <3>2 DEF RequestTrue
  <2> QED BY <1>1, <2>1, <2>2, <2>3 DEF RequestTrue, Matches
<1>6. RequestsTrue'
  BY <1>1, <1>2, <1>5 DEF RequestsTrue
<1>7. RepliesTrue'
  <2>1. ASSUME NEW r \in replies PROVE ReplyTrue(r)'
    <3>1. NothingPending(r.id)'
      BY <1>1 DEF RepliesTrue, ReplyTrue, NothingPending
    <3>2. ~Awaits(w, r)
      BY <1>2 DEF Awaits
    <3> QED BY <1>2, <1>3, <3>1, <3>2, OtherReplies
  <2> QED BY <1>2, <2>1 DEF RepliesTrue
<1>8. ResultsTrue'
  <2>1. ASSUME NEW v \in Workers, NEW n, NothingPending(<<v, n>>) PROVE NothingPending(<<v, n>>)'
    BY <1>1, <2>1 DEF NothingPending
  <2>2. \A v \in Workers \ {w} : ResultTrue(v, call[v])'
    BY <1>2, <1>3, <2>1, OtherResults
  <2>3. ResultTrue(w, call[w])'
    BY <1>3 DEF ResultTrue
  <2> QED BY <2>2, <2>3 DEF ResultsTrue
<1>9. AllSettled'
  <2>1. ResultTrue(w, c) /\ AllSettled
    BY DEF IInv, ResultsTrue
  <2>2. ASSUME NEW tx \in Txs
        PROVE  told'[tx] \subseteq {status[tx]} \cap Final /\ (tx \in refunded' => status[tx] = "reversed")
    <3>1. told[tx] \subseteq {status[tx]} \cap Final /\ (tx \in refunded => status[tx] = "reversed")
      BY <2>1 DEF AllSettled, Settled
    <3>2. CASE c.err # NoError
      <4>1. told' = told /\ refunded' = refunded
        BY <3>2 DEF Acknowledge, operatorVars
      <4> QED BY <3>1, <4>1
    <3>3. CASE c.err = NoError /\ c.kind = "list"
      <4>1. c.rows = c.due /\ ShowsReversed(c.asked, c.due)
        BY <1>2, <2>1, <3>3 DEF ResultTrue
      <4>2. ReadList(w, c)
        BY <3>3 DEF Acknowledge
      <4>3. told' = told /\ (tx \in refunded' => tx \in refunded
                                                 \/ (c.asked.Status.text = "reversed" /\ tx \in Shown(c.rows)))
        BY <4>2 DEF ReadList
      <4> HIDE DEF c
      <4> QED BY <3>1, <4>1, <4>3 DEF Shown, ShowsReversed
    <3>4. CASE c.err = NoError /\ c.kind # "list"
      <4>1. told' = [told EXCEPT ![c.tx] = @ \cup {Outcome(c.kind)}] /\ refunded' = refunded
        BY <3>4 DEF Acknowledge
      <4>2. c.tx \in Txs /\ status[c.tx] = Outcome(c.kind)
        BY <1>2, <2>1, <3>4 DEF ResultTrue, SettledBy
      <4>3. told \in [Txs -> SUBSET TransactionStatuses] /\ Outcome(c.kind) \in Final
        BY <1>1 DEF TypeOK, Outcome, Final
      <4> HIDE DEF c
      <4> QED BY <3>1, <4>1, <4>2, <4>3
    <3> QED BY <3>2, <3>3, <3>4
  <2>3. ASSUME NEW tx \in Txs, doneBy[tx] # Free PROVE Used(doneBy[tx])' /\ status[tx] \in Final
    <3>1. Used(doneBy[tx]) /\ status[tx] \in Final /\ doneBy[tx] \in CallIds
      BY <1>1, <2>1, <2>3 DEF AllSettled, Settled, TypeOK
    <3>2. PICK id \in CallIds : id = doneBy[tx]
      BY <3>1
    <3>3. Used(id)'
      BY <1>1, <1>4, <3>1, <3>2, UsedStays
    <3>4. doneBy'[tx] = id
      BY <1>2, <3>2
    <3> QED BY <3>1, <3>3, <3>4 DEF Used
  <2> QED BY <1>2, <2>2, <2>3 DEF AllSettled, Settled
<1> QED BY <1>6, <1>7, <1>8, <1>9 DEF Agree

\* The server forgets requests and leaves the calls alone.
LEMMA RequestsStay ==
    ASSUME IInv, TypeOK', TriesGrow, wire' \subseteq wire, wire' \cap working' = {},
           \A m \in working' : m \in Pending /\ m.kind # "list",
           \A v \in Workers : \A id : call'[v].pc = "sent" /\ id = <<v, call'[v].try>> =>
               /\ call[v].pc = "sent" /\ id = <<v, call[v].try>>
               /\ call'[v].kind = call[v].kind /\ call'[v].tx = call[v].tx /\ call'[v].asked = call[v].asked,
           \A m \in Pending' : \A tx \in Txs : doneBy'[tx] # m.id
    PROVE  RequestsTrue'
<1>1. ASSUME NEW m \in Pending' PROVE RequestTrue(m)'
  <2>1. m \in Pending /\ Pending' \subseteq Pending
    BY <1>1 DEF Pending
  <2>2. RequestTrue(m) /\ m.id \in CallIds
    BY <2>1 DEF IInv, RequestsTrue, TypeOK, IsRequest, Pending
  <2>3. Used(m.id)'
    BY <2>2, UsedStays DEF RequestTrue, IInv
  <2>4. NothingDone(m.id)'
    BY <1>1 DEF NothingDone
  <2>5. ASSUME NEW v \in Workers, Awaits(v, m)' PROVE Matches(m, call'[v])
    <3>1. Awaits(v, m)
      BY <2>5 DEF Awaits, RequestId
    <3>2. Matches(m, call[v])
      BY <2>2, <3>1 DEF RequestTrue
    <3> QED BY <2>5, <3>2 DEF Awaits, RequestId, Matches
  <2> QED BY <2>1, <2>2, <2>3, <2>4, <2>5 DEF RequestTrue, Matches
<1> QED BY <1>1 DEF RequestsTrue

LEMMA RefusesKeeps ==
    ASSUME IInv, TypeOK', NEW m \in Pending, Refuses(m)
    PROVE  Agree'
<1>1. /\ TypeOK /\ RequestsTrue /\ RepliesTrue /\ Pending' = Pending \ {m}
      /\ UNCHANGED <<call, told, refunded, status, doneBy>> /\ m.kind # "list"
  BY DEF IInv, Pending, Refuses
<1>2. TriesGrow
  <2>1. \A v \in Workers : call[v].try \in Nat
    BY <1>1, TransactionsAssumption DEF TypeOK, CallType, TransactionsAssumption
  <2> QED BY <1>1, <2>1 DEF TriesGrow
<1>3. RequestTrue(m)
  BY <1>1 DEF RequestsTrue
<1>4. RequestsTrue'
  <2>1. wire' \subseteq wire /\ working' \subseteq working /\ wire \cap working = {}
    BY <1>1 DEF Refuses, RequestsTrue
  <2>2. \A n \in Pending' : \A tx \in Txs : doneBy'[tx] # n.id
    BY <1>1 DEF RequestsTrue, RequestTrue, NothingDone
  <2>3. \A n \in working' : n \in Pending /\ n.kind # "list"
    BY <1>1, <2>1 DEF RequestsTrue, Pending
  <2> QED BY <1>1, <1>2, <2>1, <2>2, <2>3, RequestsStay
<1>5. RepliesTrue'
  <2>1. ASSUME NEW r \in replies PROVE ReplyTrue(r)'
    <3>1. NothingPending(r.id) /\ \E v \in Workers : Awaits(v, r) /\ AnswerTrue(r, call[v])
      BY <1>1 DEF RepliesTrue, ReplyTrue
    <3> QED BY <1>1, <3>1 DEF ReplyTrue, NothingPending, Awaits, RequestId, AnswerTrue, SettledBy,
                              NothingDone, ShowsReversed
  <2>2. ASSUME NEW r \in replies', r \notin replies PROVE ReplyTrue(r)'
    <3>1. r.id = m.id /\ r.body = "statusFalse" /\ \E v \in Workers : Awaits(v, m)
      <4>1. PICK code \in Nat : Answer(m, code, "statusFalse", {})
        BY DEF Refuses
      <4> QED BY <2>2, <4>1, AnswerEffect
    <3>2. PICK v \in Workers : Awaits(v, m)
      BY <3>1
    <3>3. Awaits(v, r)'
      BY <1>1, <3>1, <3>2 DEF Awaits, RequestId
    <3>4. NothingPending(r.id)'
      BY <1>1, <1>3, <3>1 DEF NothingPending, RequestTrue
    <3>5. NothingDone(r.id)'
      BY <1>1, <1>3, <3>1 DEF NothingDone, RequestTrue
    <3>6. call'[v].kind # "list" /\ call'[v].tx \in Txs
      BY <1>1, <1>3, <3>2 DEF RequestTrue, Matches, TypeOK, IsRequest, Pending
    <3>7. AnswerTrue(r, call[v])'
      BY <3>1, <3>5, <3>6 DEF AnswerTrue
    <3> QED BY <3>3, <3>4, <3>7 DEF ReplyTrue
  <2> QED BY <2>1, <2>2 DEF RepliesTrue
<1>6. ResultsTrue'
  <2> SUFFICES ASSUME NEW v \in Workers PROVE ResultTrue(v, call[v])'
    BY DEF ResultsTrue
  <2>1. PICK c : c = call[v]
    OBVIOUS
  <2>2. ResultTrue(v, c) /\ call'[v] = c
    BY <1>1, <2>1 DEF IInv, ResultsTrue
  <2>3. NothingPending(<<v, c.try>>) => NothingPending(<<v, c.try>>)'
    BY <1>1 DEF NothingPending
  <2>4. NothingDone(<<v, c.try>>)' <=> NothingDone(<<v, c.try>>)
    BY <1>1 DEF NothingDone
  <2>5. /\ SettledBy(c, <<v, c.try>>)' <=> SettledBy(c, <<v, c.try>>)
        /\ ShowsReversed(c.asked, c.due)' <=> ShowsReversed(c.asked, c.due)
    BY <1>1 DEF SettledBy, ShowsReversed
  <2>6. ResultTrue(v, c)'
    BY <2>2, <2>3, <2>4, <2>5, Zenon DEF ResultTrue
  <2> QED BY <2>2, <2>6, Zenon
<1>7. AllSettled'
  BY <1>1, <1>2, SettledStays DEF IInv
<1> QED BY <1>4, <1>5, <1>6, <1>7 DEF Agree

LEMMA SettlesKeeps ==
    ASSUME IInv, TypeOK', NEW m \in Pending, Settles(m)
    PROVE  Agree'
<1>1. /\ TypeOK /\ RequestsTrue /\ RepliesTrue /\ AllSettled /\ Pending' = Pending \ {m}
      /\ UNCHANGED <<call, told, refunded>> /\ m.kind # "list"
  BY DEF IInv, Pending, Settles, RequestsTrue
<1>2. TriesGrow
  <2>1. \A v \in Workers : call[v].try \in Nat
    BY <1>1, TransactionsAssumption DEF TypeOK, CallType, TransactionsAssumption
  <2> QED BY <1>1, <2>1 DEF TriesGrow
<1>3. RequestTrue(m) /\ m.tx \in Txs /\ m.id \in CallIds
  BY <1>1 DEF RequestsTrue, TypeOK, IsRequest, Pending
<1>4. /\ status'[m.tx] = Outcome(m.kind) /\ doneBy'[m.tx] = m.id /\ Outcome(m.kind) \in Final
      /\ \A tx \in Txs \ {m.tx} : status'[tx] = status[tx] /\ doneBy'[tx] = doneBy[tx]
      /\ status[m.tx] \notin Final
  BY <1>1, <1>3 DEF Settles, TypeOK, Outcome, Final
<1>5. doneBy[m.tx] = Free
  BY <1>1, <1>3, <1>4 DEF AllSettled, Settled
<1>6. ASSUME NEW id \in CallIds, id # m.id PROVE NothingDone(id) => NothingDone(id)'
  BY <1>4, <1>6 DEF NothingDone
<1>7. ASSUME NEW c, NEW id \in CallIds, SettledBy(c, id) PROVE SettledBy(c, id)'
  BY <1>4, <1>5, <1>7 DEF SettledBy, CallIds, Free
<1>8. ASSUME NEW q, NEW rows \in SUBSET RowType, ShowsReversed(q, rows) PROVE ShowsReversed(q, rows)'
  <2>1. \A row \in rows : row.tx \in Txs
    BY DEF RowType
  <2> QED BY <1>4, <1>8, <2>1 DEF ShowsReversed, Final
<1>9. RequestsTrue'
  <2>1. wire' \subseteq wire /\ working' \subseteq working /\ wire \cap working = {}
    BY <1>1 DEF Settles, RequestsTrue
  <2>2. ASSUME NEW n \in Pending' PROVE \A tx \in Txs : doneBy'[tx] # n.id
    <3>1. n \in Pending /\ n # m /\ RequestTrue(n)
      BY <1>1 DEF RequestsTrue
    <3>2. n.id # m.id
      BY <1>3, <3>1 DEF RequestTrue
    <3> QED BY <1>4, <3>1, <3>2 DEF RequestTrue, NothingDone
  <2>3. \A n \in working' : n \in Pending /\ n.kind # "list"
    BY <1>1, <2>1 DEF RequestsTrue, Pending
  <2> QED BY <1>1, <1>2, <2>1, <2>2, <2>3, RequestsStay
<1>10. RepliesTrue'
  <2>1. ASSUME NEW r \in replies PROVE ReplyTrue(r)'
    <3>1. NothingPending(r.id) /\ r.id \in CallIds /\ r.id # m.id
      BY <1>1 DEF RepliesTrue, ReplyTrue, NothingPending, TypeOK, ReplyType
    <3>2. PICK v \in Workers : Awaits(v, r) /\ AnswerTrue(r, call[v])
      BY <1>1 DEF RepliesTrue, ReplyTrue
    <3>3. PICK c \in CallType : c = call[v]
      BY <1>1 DEF TypeOK
    <3>4. c.due \in SUBSET RowType /\ call'[v] = c
      BY <1>1, <3>3 DEF CallType
    <3>5. AnswerTrue(r, c)'
      BY <1>6, <1>7, <1>8, <3>1, <3>2, <3>3, <3>4 DEF AnswerTrue
    <3>6. NothingPending(r.id)'
      BY <1>1, <3>1 DEF NothingPending
    <3>7. Awaits(v, r)'
      BY <1>1, <3>2 DEF Awaits, RequestId
    <3>8. AnswerTrue(r, call[v])'
      BY <3>4, <3>5, Zenon
    <3> QED BY <3>6, <3>7, <3>8 DEF ReplyTrue
  <2>2. ASSUME NEW r \in replies', r \notin replies PROVE ReplyTrue(r)'
    <3>1. r.id = m.id /\ r.code = 200 /\ r.body = "goodData" /\ \E v \in Workers : Awaits(v, m)
      BY <2>2, AnswerEffect DEF Settles
    <3>2. PICK v \in Workers : Awaits(v, m)
      BY <3>1
    <3>3. Awaits(v, r)'
      BY <1>1, <3>1, <3>2 DEF Awaits, RequestId
    <3>4. NothingPending(r.id)'
      BY <1>1, <1>3, <3>1 DEF NothingPending, RequestTrue
    <3>5. call'[v].kind = m.kind /\ call'[v].tx = m.tx
      BY <1>1, <1>3, <3>2 DEF RequestTrue, Matches
    <3>6. SettledBy(call[v], r.id)'
      BY <1>3, <1>4, <3>1, <3>5 DEF SettledBy
    <3>7. AnswerTrue(r, call[v])'
      BY <1>1, <3>1, <3>5, <3>6 DEF AnswerTrue
    <3> QED BY <3>3, <3>4, <3>7 DEF ReplyTrue
  <2> QED BY <2>1, <2>2 DEF RepliesTrue
<1>11. ResultsTrue'
  <2> SUFFICES ASSUME NEW v \in Workers PROVE ResultTrue(v, call[v])'
    BY DEF ResultsTrue
  <2>1. PICK c \in CallType : c = call[v]
    BY <1>1 DEF TypeOK
  <2>2. ResultTrue(v, c) /\ call'[v] = c /\ c.due \in SUBSET RowType
    BY <1>1, <2>1 DEF IInv, ResultsTrue, CallType
  <2>3. NothingPending(<<v, c.try>>) => <<v, c.try>> # m.id /\ NothingPending(<<v, c.try>>)'
    BY <1>1 DEF NothingPending
  <2>4. NothingDone(<<v, c.try>>) /\ <<v, c.try>> # m.id => NothingDone(<<v, c.try>>)'
    BY <1>4 DEF NothingDone
  <2>5. SettledBy(c, <<v, c.try>>) => SettledBy(c, <<v, c.try>>)'
    <3>1. <<v, c.try>> # Free
      BY DEF Free
    <3> QED BY <1>4, <1>5, <3>1 DEF SettledBy
  <2>6. ShowsReversed(c.asked, c.due) => ShowsReversed(c.asked, c.due)'
    BY <1>8, <2>2
  <2>7. ResultTrue(v, c)'
    BY <2>2, <2>3, <2>4, <2>5, <2>6, Zenon DEF ResultTrue
  <2> QED BY <2>2, <2>7, Zenon
<1>12. AllSettled'
  <2> SUFFICES ASSUME NEW tx \in Txs PROVE Settled(tx)'
    BY DEF AllSettled
  <2>1. Settled(tx)
    BY <1>1 DEF AllSettled
  <2>2. CASE tx = m.tx
    <3>1. Used(m.id)'
      BY <1>1, <1>2, <1>3, UsedStays DEF RequestTrue
    <3>2. told[tx] = {} /\ tx \notin refunded
      BY <1>4, <2>1, <2>2 DEF Settled, Final
    <3> QED BY <1>1, <1>4, <2>2, <3>1, <3>2 DEF Settled, Used
  <2>3. CASE tx # m.tx
    <3>1. PICK id \in CallIds \cup {Free} : id = doneBy[tx]
      BY <1>1 DEF TypeOK
    <3>2. id # Free => Used(id)'
      BY <1>1, <1>2, <2>1, <3>1, UsedStays DEF Settled
    <3>3. doneBy'[tx] = id /\ status'[tx] = status[tx] /\ told' = told /\ refunded' = refunded
      BY <1>1, <1>4, <2>3, <3>1
    <3> QED BY <2>1, <3>1, <3>2, <3>3 DEF Settled, Used
  <2> QED BY <2>2, <2>3
<1> QED BY <1>9, <1>10, <1>11, <1>12 DEF Agree

LEMMA StartKeeps ==
    ASSUME IInv, TypeOK', NEW m \in Pending, Start(m)
    PROVE  Agree'
<1>1. /\ TypeOK /\ RequestsTrue /\ RepliesTrue /\ ResultsTrue
      /\ m \in wire /\ m.kind # "list" /\ wire' = wire \ {m} /\ working' = working \cup {m}
      /\ UNCHANGED <<call, replies, told, refunded, status, doneBy>>
  BY DEF IInv, Start, operatorVars
<1>2. Pending' = Pending
  BY <1>1 DEF Pending
<1>3. TriesGrow
  <2>1. \A v \in Workers : call[v].try \in Nat
    BY <1>1, TransactionsAssumption DEF TypeOK, CallType, TransactionsAssumption
  <2> QED BY <1>1, <2>1 DEF TriesGrow
<1>4. RequestsTrue'
  <2>1. wire' \subseteq wire /\ wire' \cap working' = {}
    BY <1>1 DEF RequestsTrue
  <2>2. \A n \in working' : n \in Pending /\ n.kind # "list"
    BY <1>1 DEF RequestsTrue, Pending
  <2>3. \A n \in Pending' : \A tx \in Txs : doneBy'[tx] # n.id
    BY <1>1, <1>2 DEF RequestsTrue, RequestTrue, NothingDone
  <2> QED BY <1>1, <1>3, <2>1, <2>2, <2>3, RequestsStay
<1>5. RepliesTrue'
  BY <1>1, <1>2 DEF RepliesTrue, ReplyTrue, NothingPending, Awaits, RequestId, AnswerTrue, SettledBy,
                    NothingDone, ShowsReversed
<1>6. ResultsTrue'
  <2> SUFFICES ASSUME NEW v \in Workers PROVE ResultTrue(v, call[v])'
    BY DEF ResultsTrue
  <2>1. PICK c : c = call[v]
    OBVIOUS
  <2>2. ResultTrue(v, c) /\ call'[v] = c
    BY <1>1, <2>1 DEF ResultsTrue
  <2>3. /\ NothingPending(<<v, c.try>>)' <=> NothingPending(<<v, c.try>>)
        /\ NothingDone(<<v, c.try>>)' <=> NothingDone(<<v, c.try>>)
        /\ SettledBy(c, <<v, c.try>>)' <=> SettledBy(c, <<v, c.try>>)
        /\ ShowsReversed(c.asked, c.due)' <=> ShowsReversed(c.asked, c.due)
    BY <1>1, <1>2 DEF NothingPending, NothingDone, SettledBy, ShowsReversed
  <2>4. ResultTrue(v, c)'
    BY <2>2, <2>3, Zenon DEF ResultTrue
  <2> QED BY <2>2, <2>4, Zenon
<1>7. AllSettled'
  BY <1>1, <1>3, SettledStays DEF IInv
<1> QED BY <1>4, <1>5, <1>6, <1>7 DEF Agree

\* The rows of a list that asks for reversed transactions are reversed.
LEMMA WantedAreReversed ==
    ASSUME NEW q
    PROVE  ShowsReversed(q, Wanted(q))
<1> SUFFICES ASSUME q.Status.text = "reversed", NEW row \in Wanted(q) PROVE status[row.tx] = "reversed"
  BY DEF ShowsReversed
<1>1. PICK page, limit : row \in Rows(OnPage(Meant(q), page, limit))
  BY Zenon DEF Wanted
<1>2. PICK tx \in OnPage(Meant(q), page, limit) : row = [tx |-> tx, status |-> status[tx]]
  BY <1>1, Zenon DEF Rows
<1>3. tx \in Meant(q)
  BY <1>2 DEF OnPage
<1>4. q.Status.text \in {"", status[tx]}
  BY <1>3, Zenon DEF Meant, AsksName
<1>5. row.tx = tx
  BY <1>2
<1> QED BY <1>4, <1>5

LEMMA ServeKeeps ==
    ASSUME IInv, TypeOK', NEW m \in Pending, ServeList(m)
    PROVE  Agree'
<1>1. /\ TypeOK /\ RequestsTrue /\ RepliesTrue /\ ResultsTrue
      /\ m \in wire /\ m.kind = "list" /\ wire' = wire \ {m} /\ working' = working
      /\ UNCHANGED <<told, refunded, status, doneBy>>
  BY DEF IInv, ServeList, operatorVars, serverVars
<1>2. RequestTrue(m) /\ IsRequest(m) /\ Pending' = Pending \ {m}
  BY <1>1 DEF RequestsTrue, TypeOK, Pending
<1>3. /\ \A v \in Workers : Awaits(v, m) => call'[v] = Due(call[v], Wanted(m.query))
      /\ \A v \in Workers : ~Awaits(v, m) => call'[v] = call[v]
  BY DEF ServeList
<1>4. \A v \in Workers : /\ call'[v].pc = call[v].pc /\ call'[v].try = call[v].try
                         /\ call'[v].kind = call[v].kind /\ call'[v].tx = call[v].tx
                         /\ call'[v].asked = call[v].asked
  BY <1>3, DueFields
<1>5. TriesGrow
  <2>1. \A v \in Workers : call[v].try \in Nat
    BY <1>1, TransactionsAssumption DEF TypeOK, CallType, TransactionsAssumption
  <2> QED BY <1>4, <2>1 DEF TriesGrow
<1>6. RequestsTrue'
  <2>1. wire' \subseteq wire /\ wire' \cap working' = {}
    BY <1>1 DEF RequestsTrue
  <2>2. \A n \in working' : n \in Pending /\ n.kind # "list"
    BY <1>1 DEF RequestsTrue, Pending
  <2>3. \A n \in Pending' : \A tx \in Txs : doneBy'[tx] # n.id
    BY <1>1, <1>2 DEF RequestsTrue, RequestTrue, NothingDone
  <2> QED BY <1>4, <1>5, <2>1, <2>2, <2>3, RequestsStay
<1>7. RepliesTrue'
  <2>1. ASSUME NEW r \in replies PROVE ReplyTrue(r)'
    <3>1. NothingPending(r.id) /\ r.id # m.id
      BY <1>1 DEF RepliesTrue, ReplyTrue, NothingPending
    <3>2. PICK v \in Workers : Awaits(v, r) /\ AnswerTrue(r, call[v])
      BY <1>1 DEF RepliesTrue, ReplyTrue
    <3>3. call'[v] = call[v]
      BY <1>3, <3>1, <3>2 DEF Awaits
    <3>4. NothingPending(r.id)'
      BY <1>2, <3>1 DEF NothingPending
    <3>5. Awaits(v, r)'
      BY <3>2, <3>3 DEF Awaits, RequestId
    <3>6. AnswerTrue(r, call[v])'
      BY <1>1, <3>2, <3>3 DEF AnswerTrue, ShowsReversed, SettledBy, NothingDone
    <3> QED BY <3>4, <3>5, <3>6 DEF ReplyTrue
  <2>2. ASSUME NEW r \in replies', r \notin replies PROVE ReplyTrue(r)'
    <3>1. m.query \in Lists
      BY <1>1, <1>2 DEF IsRequest
    <3>2. RowsFor(ListParameters(m.query, Client)) = Wanted(m.query)
      BY <3>1, ParametersMeanQuery, TransactionsAssumption DEF TransactionsAssumption
    <3>3. Answer(m, 200, "goodData", Wanted(m.query))
      BY <3>2 DEF ServeList
    <3>4. /\ r.id = m.id /\ r.code = 200 /\ r.body = "goodData" /\ r.rows = Wanted(m.query)
          /\ \E v \in Workers : Awaits(v, m)
      BY <2>2, <3>3, AnswerEffect
    <3>5. PICK v \in Workers : Awaits(v, m)
      BY <3>4
    <3>6. Awaits(v, r)'
      BY <1>4, <3>4, <3>5 DEF Awaits, RequestId
    <3>7. NothingPending(r.id)'
      BY <1>2, <3>4 DEF NothingPending, RequestTrue
    <3>8. call'[v].kind = "list" /\ call'[v].asked = m.query /\ call'[v].due = Wanted(m.query)
      BY <1>1, <1>2, <1>3, <1>4, <3>5, DueFields DEF RequestTrue, Matches
    <3>9. ShowsReversed(m.query, Wanted(m.query))
      BY WantedAreReversed
    <3>10. AnswerTrue(r, call[v])'
      BY <1>1, <3>4, <3>8, <3>9 DEF AnswerTrue, ShowsReversed
    <3> QED BY <3>6, <3>7, <3>10 DEF ReplyTrue
  <2> QED BY <2>1, <2>2 DEF RepliesTrue
<1>8. ResultsTrue'
  <2> SUFFICES ASSUME NEW v \in Workers PROVE ResultTrue(v, call[v])'
    BY DEF ResultsTrue
  <2>1. CASE call[v].pc # "returned"
    BY <1>4, <2>1 DEF ResultTrue
  <2>2. CASE call[v].pc = "returned"
    <3>1. PICK c : c = call[v]
      OBVIOUS
    <3>2. ResultTrue(v, c) /\ call'[v] = c
      BY <1>1, <1>3, <2>2, <3>1 DEF ResultsTrue, Awaits
    <3>3. /\ NothingDone(<<v, c.try>>)' <=> NothingDone(<<v, c.try>>)
          /\ SettledBy(c, <<v, c.try>>)' <=> SettledBy(c, <<v, c.try>>)
          /\ ShowsReversed(c.asked, c.due)' <=> ShowsReversed(c.asked, c.due)
      BY <1>1 DEF NothingDone, SettledBy, ShowsReversed
    <3>4. NothingPending(<<v, c.try>>) => NothingPending(<<v, c.try>>)'
      BY <1>2 DEF NothingPending
    <3>5. ResultTrue(v, c)'
      BY <3>2, <3>3, <3>4, Zenon DEF ResultTrue
    <3> QED BY <3>2, <3>5, Zenon
  <2> QED BY <2>1, <2>2
<1>9. AllSettled'
  BY <1>1, <1>5, SettledStays DEF IInv
<1> QED BY <1>6, <1>7, <1>8, <1>9 DEF Agree

-----------------------------------------------------------------------------
(* The theorems.                                                           *)

LEMMA InitInv == Init => IInv
<1> SUFFICES ASSUME Init PROVE IInv
  OBVIOUS
<1>1. MaxCalls \in Nat /\ FirstStatuses \subseteq [Txs -> TransactionStatuses]
  BY TransactionsAssumption DEF TransactionsAssumption
<1>2. NoCall(0) \in CallType
  BY <1>1, NoCallTyped
<1>3. call = [w \in Workers |-> NoCall(0)]
  BY DEF Init
<1>4. call \in [Workers -> CallType]
  BY <1>2, <1>3
<1>5. TypeOK
  BY <1>1, <1>4 DEF Init, TypeOK
<1>6. RequestsTrue /\ RepliesTrue
  BY DEF Init, RequestsTrue, RepliesTrue, Pending
<1>7. \A w \in Workers : call[w].pc = "idle"
  BY <1>3, NoCallFields
<1>8. ResultsTrue
  BY <1>7 DEF ResultsTrue, ResultTrue
<1>9. AllSettled
  BY DEF Init, AllSettled, Settled
<1> QED BY <1>5, <1>6, <1>8, <1>9 DEF IInv

LEMMA StepInv == IInv /\ [Next]_vars => IInv'
<1> SUFFICES ASSUME IInv, [Next]_vars PROVE IInv'
  OBVIOUS
<1>1. TypeOK /\ TypeOK'
  BY TypeStep DEF IInv
<1>2. ASSUME NEW w \in Workers, ListTransactions(w) \/ Settle(w) \/ FailLocally(w) PROVE Agree'
  <2>1. PICK kind \in Kinds, tx \in Txs \cup {BadId}, q \in Lists \cup {NoQuery} :
           \/ Request(kind, tx, q) /\ Send(w, kind, tx, q)
           \/ \E err \in LocalErrors : Refuse(w, kind, tx, q, err)
    BY <1>1, <1>2, Entering
  <2>2. CASE Request(kind, tx, q) /\ Send(w, kind, tx, q)
    <3> PICK c \in CallType : \E m : /\ Begins(w, c) /\ c.pc = "sent"
                                     /\ IsRequest(m) /\ m.id = <<w, c.try>> /\ Matches(m, c)
                                     /\ wire' = wire \cup {m}
      BY <1>1, <2>2, SendEffect
    <3>1. PICK m : /\ Begins(w, c) /\ c.pc = "sent"
                   /\ IsRequest(m) /\ m.id = <<w, c.try>> /\ Matches(m, c)
                   /\ wire' = wire \cup {m}
      OBVIOUS
    <3>2. UNCHANGED <<working, replies, told, refunded, status, doneBy>>
      BY <2>2 DEF Send, operatorVars, serverVars
    <3> QED BY <1>1, <3>1, <3>2, SendKeeps
  <2>3. ASSUME NEW err \in LocalErrors, Refuse(w, kind, tx, q, err) PROVE Agree'
    <3>1. PICK c \in CallType : Begins(w, c) /\ c.pc = "returned" /\ c.err \in LocalErrors
      BY <1>1, <2>3, RefuseEffect
    <3>2. UNCHANGED <<wire, working, replies, told, refunded, status, doneBy>>
      BY <2>3 DEF Refuse, operatorVars, serverVars
    <3> QED BY <1>1, <3>1, <3>2, RefuseKeeps
  <2> QED BY <2>1, <2>2, <2>3
<1>3. ASSUME NEW w \in Workers, Abandon(w) \/ Receive(w) PROVE Agree'
  <2>1. PICK c \in CallType : Ends(w, c)
    BY <1>3, AbandonEnds, ReceiveEnds
  <2>2. UNCHANGED <<wire, working, told, refunded, status, doneBy>>
    BY <1>3 DEF Abandon, Receive, Return, operatorVars, serverVars
  <2> QED BY <1>1, <2>1, <2>2, EndKeeps
<1>4. ASSUME NEW w \in Workers, Acknowledge(w) PROVE Agree'
  BY <1>1, <1>4, AcknowledgeKeeps
<1>5. ASSUME NEW m \in Pending, ServerStep(m) PROVE Agree'
  <2>1. CASE ServeList(m)
    BY <1>1, <2>1, ServeKeeps
  <2>2. CASE Start(m)
    BY <1>1, <2>2, StartKeeps
  <2>3. CASE RefuseStatus(m) \/ RefuseBusy(m) \/ RollBack(m) \/ Commit(m)
    <3>1. Refuses(m) \/ Settles(m)
      BY <2>3, RefusesEffect, SettlesEffect
    <3> QED BY <1>1, <3>1, RefusesKeeps, SettlesKeeps
  <2> QED BY <1>5, <2>1, <2>2, <2>3 DEF ServerStep
<1>6. ASSUME UNCHANGED vars PROVE Agree'
  <2>1. UNCHANGED <<call, wire, working, replies, told, refunded, status, doneBy>>
    BY <1>6 DEF vars, operatorVars, serverVars
  <2>2. RequestsTrue' /\ RepliesTrue' /\ AllSettled'
    BY <2>1 DEF IInv, RequestsTrue, RequestTrue, Used, NothingDone, Awaits, RequestId, Matches, Pending,
                RepliesTrue, ReplyTrue, NothingPending, AnswerTrue, SettledBy, ShowsReversed, AllSettled, Settled
  <2>3. ResultsTrue'
    BY <2>1 DEF IInv, ResultsTrue, ResultTrue, NothingDone, NothingPending, Pending, SettledBy, ShowsReversed,
                Refused, IsAPIError
  <2> QED BY <2>2, <2>3 DEF Agree
<1>7. Agree'
  BY <1>2, <1>3, <1>4, <1>5, <1>6 DEF Next, OperatorStep, CallStep, Pending
<1> QED BY <1>1, <1>7 DEF Agree, IInv

\* The invariant says what operators and the service rely on.
LEMMA InvImplies ==
    IInv => /\ TypeOK /\ OutcomesAgree /\ SuccessIsOwn /\ RefusalChangedNothing
            /\ ListsAnswerTheirQuery /\ RefundedAreReversed
<1> SUFFICES ASSUME IInv
             PROVE  /\ TypeOK /\ OutcomesAgree /\ SuccessIsOwn /\ RefusalChangedNothing
                    /\ ListsAnswerTheirQuery /\ RefundedAreReversed
  OBVIOUS
<1>1. TypeOK /\ ResultsTrue /\ AllSettled
  BY DEF IInv
<1>2. OutcomesAgree
  BY <1>1 DEF OutcomesAgree, AllSettled, Settled
<1>3. RefundedAreReversed
  BY <1>1 DEF RefundedAreReversed, AllSettled, Settled, TypeOK
<1>4. ListsAnswerTheirQuery
  BY <1>1 DEF ListsAnswerTheirQuery, ResultsTrue, ResultTrue
<1>5. SuccessIsOwn
  BY <1>1 DEF SuccessIsOwn, ResultsTrue, ResultTrue, SettledBy, RequestId
<1>6. RefusalChangedNothing
  <2> SUFFICES ASSUME NEW w \in Workers, call[w].pc = "returned", call[w].kind # "list", Refused(call[w])
               PROVE  doneBy[call[w].tx] # RequestId(w)
    BY DEF RefusalChangedNothing
  <2>1. NothingDone(RequestId(w)) /\ call[w].tx \in Txs
    BY <1>1 DEF ResultsTrue, ResultTrue, RequestId
  <2> QED BY <2>1 DEF NothingDone
<1> QED BY <1>1, <1>2, <1>3, <1>4, <1>5, <1>6

LEMMA Invariance == Spec => []IInv
BY InitInv, StepInv, PTL DEF Spec

\* Operators and server keep to their types.
THEOREM TransactionsTyped == Spec => []TypeOK
BY Invariance, InvImplies, PTL

\* Whatever operators were told of a transaction is what it is, however many of
\* them settle it at once from stale lists.
THEOREM ReportsStayTrue == Spec => []OutcomesAgree
BY Invariance, InvImplies, PTL

\* A nil error of ConfirmTransaction or ReverseTransaction is this call's own
\* doing.
THEOREM SuccessIsEarned == Spec => []SuccessIsOwn
BY Invariance, InvImplies, PTL

\* A refused operator has settled nothing by the call that was refused.
THEOREM RefusalIsHarmless == Spec => []RefusalChangedNothing
BY Invariance, InvImplies, PTL

\* ListTransactions shows what its query means, for every query whose ids are
\* spelled as the API spells them and whose times are whole seconds.
THEOREM ListsAreWanted == Spec => []ListsAnswerTheirQuery
BY Invariance, InvImplies, PTL

\* A topup is refunded only when it stays reversed.
THEOREM RefundsAreSafe == Spec => []RefundedAreReversed
BY Invariance, InvImplies, PTL

=============================================================================
