------------------------------- MODULE Queries -------------------------------
(***************************************************************************)
(* The query parameters of ListTransactions (src/ibs/card_transactions.go) *)
(* and GetCardPendings (src/ibs/card_pendings.go).                         *)
(*                                                                         *)
(* A string is a text that may have white space around it or be in         *)
(* capitals; the text is as the API spells it.  A parameter whose text is  *)
(* empty is not sent.  The malformed text is no UUID and none of the       *)
(* constants.  Times are counted in half seconds.                          *)
(***************************************************************************)
EXTENDS Integers

String(text) == [text |-> text, padded |-> FALSE, upper |-> FALSE]

Padded(s) == [s EXCEPT !.padded = TRUE]

Upper(s) == [s EXCEPT !.upper = TRUE]

Strings == [text : STRING, padded : BOOLEAN, upper : BOOLEAN]

Malformed == "malformed"

TrimSpace(s) == [text |-> s.text, padded |-> FALSE, upper |-> s.upper]

ToLower(s) == [text |-> s.text, padded |-> s.padded, upper |-> FALSE]

IsBlank(s) == s.text = ""

IsValidUUID(s) == s.text # Malformed

TransactionTypes == {"topup", "withdraw"}

TransactionStatuses == {"pending", "success", "failed", "reversed"}

CardTypeNames == {"virtual", "physical"}

\* A parameter left blank falls back to the client's.
Fallback(s, own) == IF IsBlank(s) THEN TrimSpace(own) ELSE TrimSpace(s)

Filter(s) == ToLower(TrimSpace(s))

-----------------------------------------------------------------------------

NoTime == -1

DefaultPage == 1

DefaultLimit == 50

MaxLimit == 500

\* time.RFC3339 has no fractions of a second.
WholeSecond(time) == IF time = NoTime THEN NoTime ELSE time - (time % 2)

\* Faulty variant: page and limit are sent as they were given.
PageAsGiven(page) == page

CoercePage(page) == IF page < 1 THEN DefaultPage ELSE page

CoerceLimit(limit) == IF limit < 1 THEN DefaultLimit ELSE IF limit > MaxLimit THEN MaxLimit ELSE limit

\* Faulty variant: the status is sent along with a type only.
StatusWithType(q) == IF IsBlank(q.Type) THEN String("") ELSE Filter(q.Status)

StatusParameter(q) == Filter(q.Status)

TransactionListQueries ==
    LET Times == Nat \cup {NoTime}
    IN  [BankID : Strings, CardID : Strings, UserID : Strings, Type : Strings, Status : Strings,
         FromDate : Times, ToDate : Times, Page : Int, Limit : Int]

ListParameters(q, client) ==
    [bank_id |-> TrimSpace(q.BankID),
     card_id |-> Fallback(q.CardID, client.cardID), user_id |-> Fallback(q.UserID, client.userID),
     type |-> Filter(q.Type), status |-> StatusParameter(q),
     from_date |-> WholeSecond(q.FromDate), to_date |-> WholeSecond(q.ToDate),
     page |-> CoercePage(q.Page), limit |-> CoerceLimit(q.Limit)]

OneOf(s, names) == s \in {String(name) : name \in names}

ListRefused(p) == \/ ~IsBlank(p.card_id) /\ ~IsValidUUID(p.card_id)
                  \/ ~IsBlank(p.type) /\ ~OneOf(p.type, TransactionTypes)
                  \/ ~IsBlank(p.status) /\ ~OneOf(p.status, TransactionStatuses)

-----------------------------------------------------------------------------

PendingQueries == [userID : Strings, bankID : Strings, cardType : Strings]

PendingParameters(userID, bankID, cardType, client) ==
    [user_id |-> Fallback(userID, client.userID), bank_id |-> TrimSpace(bankID),
     card_type |-> Filter(cardType)]

PendingsRefused(p) == ~IsBlank(p.card_type) /\ ~OneOf(p.card_type, CardTypeNames)

\* The API compares a parameter with the text it stores; white space counts.
Selects(parameter, text) == IsBlank(parameter) \/ parameter = String(text)

-----------------------------------------------------------------------------
(* What the fields of a query mean.                                        *)

\* White space and capitals do not matter in a name, such as a type.
AsksName(s, name) == s.text \in {"", name}

\* Capitals do matter in an id.
AsksId(s, id) == s.text = "" \/ (s.text = id /\ ~s.upper)

Second(time) == time \div 2

\* Bounds have the precision of RFC3339: from the second of one time on, and
\* until the second of another begins.
AsksTime(from, to, time) == /\ from = NoTime \/ Second(from) <= Second(time)
                            /\ to = NoTime \/ time <= 2 * Second(to)

=============================================================================
