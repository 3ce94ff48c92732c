------------------------------- MODULE CardAdmin -------------------------------
(***************************************************************************)
(* A service that registers, updates, deletes and looks up cards, changes  *)
(* their settings, hands them to other users and looks up ledgers and      *)
(* prices (src/ibs/card_manage.go, card_settings.go, card.go,              *)
(* card_ledgers.go, card_prices.go), from several goroutines.              *)
(* None of these calls carries an idempotency key.                         *)
(*                                                                         *)
(* The service keeps what it believes of each field of each card, from the *)
(* errors and values its calls return.  It is careful: it lets no two      *)
(* calls write the same field at once, and after a call that may still be  *)
(* carried out it never trusts the fields of that call again.              *)
(*                                                                         *)
(* IBS and the network are external.  IBS may refuse any request, and a    *)
(* request whose caller has given up may be carried out later.             *)
(***************************************************************************)
EXTENDS RequestAPI, CardRequests, FiniteSets, Functions

CONSTANTS Cards,       \* cards of the service
          Registered,  \* those IBS has from the start
          Users,       \* users of the service
          Owner,       \* the user who owns the registered cards
          Infos,       \* values of the descriptive fields
          FirstInfo,   \* those of the registered cards
          Texts,       \* PINs and phone numbers
          Scopes,      \* the clients with which cards and ledgers are looked up
          LedgerPage,  \* the page of ledgers that is looked up
          PriceList,   \* what IBS sells
          PriceFilters, \* what Prices is asked
          Workers,     \* goroutines
          Absent,      \* no such card, or nothing known of it
          Unclear,     \* the belief in a field that a lost call may still change
          MaxCalls     \* bound: calls made

Fields == {"user_id", "info", "enabled", "atm", "pin", "phone", "revoked"}

CardType == [user_id : Users, info : Infos, enabled : BOOLEAN, atm : BOOLEAN,
             pin : Texts \cup {""}, phone : Texts \cup {""}, revoked : BOOLEAN]

ASSUME AdminAssumption ==
    /\ IsFiniteSet(Cards) /\ Cards \cap Users = {} /\ Registered \subseteq Cards /\ Owner \in Users /\ FirstInfo \in Infos
    /\ Scopes \subseteq [userID : Users \cup {NoId}, cardID : Cards \cup {NoId}]
    /\ {NoId, Absent, Unclear} \cap (Cards \cup Users \cup Infos \cup Texts) = {}
    /\ Absent \notin {NoId, Unclear} /\ Unclear # NoId /\ {Absent, Unclear} \cap BOOLEAN = {}
    /\ Absent \notin CardType
    /\ PriceList \cup PriceFilters \subseteq [{"bank_id", "card_type", "currency"} -> STRING]
    /\ MaxCalls \in Nat

VARIABLES cards,     \* IBS: the registry
          believed,  \* the service's belief about each field of each card
          call,      \* the call each goroutine is in
          made,      \* how many calls have been made
          wire,      \* requests IBS has not read yet
          replies,   \* responses on their way to a waiting call
          outcome,   \* history: what each call returned
          executed,  \* history: how many times its request was carried out
          moved      \* history: how many cards it handed to another user

serverVars == <<cards, executed, moved>>
vars == <<serverVars, believed, call, made, wire, replies, outcome>>

Calls == 1..MaxCalls

\* A card is registered enabled, with nothing known of its PIN and phone.
NewCard(user, info) == [user_id |-> user, info |-> info, enabled |-> TRUE, atm |-> TRUE,
                        pin |-> "", phone |-> "", revoked |-> FALSE]

NothingKnown == [f \in Fields |-> Absent]

NoResult == [err |-> NoError, code |-> 0, count |-> 0, card |-> Absent, rows |-> {}]

IdleCall == [pc |-> "idle", id |-> 0, method |-> "none", arg |-> "", due |-> {},
             client |-> [userID |-> NoId, cardID |-> NoId], result |-> NoResult]

Init == /\ cards = [c \in Cards |-> IF c \in Registered THEN NewCard(Owner, FirstInfo) ELSE Absent]
        /\ believed = [c \in Cards |-> IF c \in Registered THEN NewCard(Owner, FirstInfo) ELSE NothingKnown]
        /\ call = [w \in Workers |-> IdleCall]
        /\ made = 0
        /\ wire = {} /\ replies = {}
        /\ outcome = [id \in Calls |-> "none"]
        /\ executed = [id \in Calls |-> 0]
        /\ moved = [id \in Calls |-> 0]

-----------------------------------------------------------------------------
(* What the service calls: a method of a client, with one argument.        *)

Op(method, client, arg) == [method |-> method, client |-> client, arg |-> arg]

Known(c) == believed[c].info # Absent

\* A client's ids are fixed when it is made.  A goroutine addresses a card with
\* the client it made when the card was registered, whoever owns the card by
\* now, or with one made for the owner the service now takes the card to have.
ClientsOf(c) == {[userID |-> u, cardID |-> c] :
                    u \in {Owner, IF believed[c].user_id \in Users THEN believed[c].user_id ELSE NoId}}

Updates == [user_id : Users \cup {""}, info : Infos \cup {""}]

Calling(c, method, args) == {Op(method, client, arg) : client \in ClientsOf(c), arg \in args}

\* Nobody asks for what the service takes to be the case.
CardOps(c) ==
    LET Ops(method, args) == Calling(c, method, args)
        b == believed[c]
    IN  UNION {Ops("UpdateCardInfo", {u \in Updates : \A f \in DOMAIN u : u[f] # b[f]}),
               Ops("DeleteCard", {""}), Ops("SendPIN", {""}),
               Ops("CardEnable", BOOLEAN \ {b.enabled}), Ops("CardATM", BOOLEAN \ {b.atm}),
               Ops("ChangePIN", Texts \ {b.pin}), Ops("ChangePhone", Texts \ {b.phone}),
               Ops("UpdateOwnership", Users \ {b.user_id})}

ServiceOps ==
    (UNION {CardOps(c) : c \in {c \in Cards : Known(c)}})
    \cup {Op("AddCard", [userID |-> Owner, cardID |-> NoId], i) : i \in Infos}
    \cup {Op("UpdateUserOwnership", [userID |-> Owner, cardID |-> NoId], u) : u \in Users \ {Owner}}
    \cup {Op("GetCardInfo", client, "") : client \in Scopes}
    \cup {Op("GetCardLedgers", client, LedgerPage) : client \in Scopes}
    \cup {Op("Prices", [userID |-> NoId, cardID |-> NoId], q) : q \in PriceFilters}

RequestOf(op) ==
    CASE op.method = "AddCard"             -> AddCard(op.client, op.arg)
      [] op.method = "UpdateCardInfo"      -> UpdateCardInfo(op.client, op.arg)
      [] op.method = "DeleteCard"          -> DeleteCard(op.client)
      [] op.method = "CardEnable"          -> CardEnable(op.client, op.arg)
      [] op.method = "CardATM"             -> CardATM(op.client, op.arg)
      [] op.method = "ChangePIN"           -> ChangePIN(op.client, op.arg)
      [] op.method = "SendPIN"             -> SendPIN(op.client)
      [] op.method = "ChangePhone"         -> ChangePhone(op.client, op.arg)
      [] op.method = "UpdateOwnership"     -> UpdateOwnership(op.client, op.arg)
      [] op.method = "UpdateUserOwnership" -> UpdateUserOwnership(op.client, op.arg)
      [] op.method = "GetCardInfo"         -> GetCardInfo(op.client)
      [] op.method = "GetCardLedgers"      -> GetCardLedgers(op.client, op.arg)
      [] op.method = "Prices"              -> Prices(op.arg)

\* The fields that a call on one card is meant to set.
Intended(op) ==
    CASE op.method = "UpdateCardInfo"  -> [f \in {f \in DOMAIN op.arg : op.arg[f] # ""} |-> op.arg[f]]
      [] op.method = "DeleteCard"      -> [revoked |-> TRUE, enabled |-> FALSE]
      [] op.method = "CardEnable"      -> [enabled |-> op.arg]
      [] op.method = "CardATM"         -> [atm |-> op.arg]
      [] op.method = "ChangePIN"       -> [pin |-> op.arg]
      [] op.method = "ChangePhone"     -> [phone |-> op.arg]
      [] op.method = "UpdateOwnership" -> [user_id |-> op.arg]
      [] OTHER                         -> <<>>

\* The fields a call may write; a new card may be any card not known.
Touched(op) ==
    CASE op.method = "AddCard"             -> {c \in Cards : ~Known(c)} \X Fields
      [] op.method = "UpdateUserOwnership" -> Cards \X {"user_id"}
      [] OTHER                             -> {op.client.cardID} \X DOMAIN Intended(op)

\* A transfer of all of a user's cards depends on who owns them and on which
\* are revoked.
Concerns(op) == IF op.method = "UpdateUserOwnership" THEN Cards \X {"user_id", "revoked"} ELSE Touched(op)

Busy(w) == call[w].pc # "idle"

Enter(w, op, pc, result) ==
    /\ ~Busy(w) /\ made < MaxCalls
    /\ \A v \in Workers : Busy(v) => Concerns(op) \cap Concerns(call[v]) = {}
    /\ made' = made + 1
    /\ call' = [call EXCEPT ![w] = [IdleCall EXCEPT !.pc = pc, !.id = made + 1, !.method = op.method,
                                    !.client = op.client, !.arg = op.arg, !.result = result]]

-----------------------------------------------------------------------------
(* Inside the SDK.                                                         *)

\* Faulty variant: a key in the header lets net/http send a POST again.
Resent == {0, 1}

\* requestAPI sets no X-Idempotency-Key: net/http sends a POST once.  (It may
\* send a GET again, which is like a GET that is read late.)
Connections == {0}

\* The request is signed and sent.
Call(w, op) ==
    /\ Enter(w, op, "sent", NoResult)
    /\ wire' = wire \cup {[id |-> made + 1, conn |-> conn, request |-> RequestOf(op)] : conn \in Connections}
    /\ outcome' = [outcome EXCEPT ![made + 1] = "open"]
    /\ UNCHANGED <<serverVars, believed, replies>>

\* IBS has not carried out the request, and never will.
Refuses(result) == \/ result.err \in Sentinels \cup {"LocalError"}
                   \/ IsAPIError(result.err) /\ result.code \in 400..499

\* What the service may take from a call's error.
OutcomeOf(result) == IF result.err = NoError THEN "succeeded"
                     ELSE IF Refuses(result) THEN "refused" ELSE "unclear"

\* No request can be made: the secret does not decode, or there is no nonce.
FailLocally(w, op) ==
    /\ Enter(w, op, "returned", [NoResult EXCEPT !.err = "LocalError"])
    /\ outcome' = [outcome EXCEPT ![made + 1] = "refused"]
    /\ UNCHANGED <<serverVars, believed, wire, replies>>

Awaits(w, m) == call[w].pc = "sent" /\ m.id = call[w].id

RepliesWithout(w) == {r \in replies : ~Awaits(w, r)}

Return(w, result) ==
    /\ call' = [call EXCEPT ![w] = [@ EXCEPT !.pc = "returned", !.result = result]]
    /\ outcome' = [outcome EXCEPT ![call[w].id] = OutcomeOf(result)]
    /\ replies' = RepliesWithout(w)
    /\ UNCHANGED <<serverVars, believed, made, wire>>

Abandon(w) == /\ call[w].pc = "sent"
              /\ Return(w, [NoResult EXCEPT !.err = "TransportError"])

\* The methods that decode the body; the others drop it.
Decoding == {"AddCard", "UpdateCardInfo", "UpdateUserOwnership", "GetCardInfo", "GetCardLedgers", "Prices"}

\* Faulty variant: the error of json.Unmarshal is dropped.
DecodeErrorDropped(method, got) == RequestAPIError(got.code, got.body)

ErrorOf(method, got) == IF method \in Decoding THEN CallError(got.code, got.body)
                        ELSE RequestAPIError(got.code, got.body)

\* Prices takes an empty price list for an error.
NothingFound(method, got) == method = "Prices" /\ got.rows = {}

\* The zero values go with an error, and with a body that was not decoded.
ResultOf(method, got) ==
    LET err == ErrorOf(method, got)
    IN  IF err = NoError /\ NothingFound(method, got) THEN [NoResult EXCEPT !.err = "NoPrices"]
        ELSE IF err = NoError /\ got.body = "goodData"
        THEN [err |-> NoError, code |-> 0, count |-> got.count, card |-> got.card, rows |-> got.rows]
        ELSE [NoResult EXCEPT !.err = err, !.code = IF IsAPIError(err) THEN got.code ELSE 0]

Receive(w) == \E r \in replies : /\ Awaits(w, r)
                                 /\ \E got \in Arrivals(r) : Return(w, ResultOf(call[w].method, got))

-----------------------------------------------------------------------------
(* What the service makes of the result.                                   *)

\* A field that a lost call may still change stays unclear.
Update(belief, fields) ==
    [f \in Fields |-> IF f \in DOMAIN fields /\ belief[f] # Unclear THEN fields[f] ELSE belief[f]]

\* A transfer of all cards of user u leaves the revoked ones.
AfterTransfer(belief, u, v) ==
    IF belief.user_id # u \/ belief.revoked = TRUE THEN belief
    ELSE [belief EXCEPT !.user_id = IF belief.revoked = FALSE THEN v ELSE Unclear]

AfterSuccess(c) ==
    CASE c.method = "AddCard" ->
            [believed EXCEPT ![c.result.card] = Update(@, NewCard(c.client.userID, c.arg))]
      [] c.method = "UpdateUserOwnership" ->
            [d \in Cards |-> AfterTransfer(believed[d], c.client.userID, c.arg)]
      [] DOMAIN Intended(c) # {} ->
            [believed EXCEPT ![c.client.cardID] = Update(@, Intended(c))]
      [] OTHER -> believed

AfterDoubt(c) ==
    IF c.method = "AddCard" THEN believed
    ELSE [d \in Cards |-> [f \in Fields |-> IF <<d, f>> \in Touched(c) THEN Unclear ELSE believed[d][f]]]

Acknowledge(w) ==
    LET c == call[w]
    IN  /\ c.pc = "returned"
        /\ believed' = CASE outcome[c.id] = "succeeded" -> AfterSuccess(c)
                         [] outcome[c.id] = "unclear"   -> AfterDoubt(c)
                         [] OTHER                       -> believed
        /\ call' = [call EXCEPT ![w] = IdleCall]
        /\ UNCHANGED <<serverVars, made, wire, replies, outcome>>

-----------------------------------------------------------------------------
(* IBS.                                                                    *)

Answer(m, code, body, data) ==
    /\ wire' = wire \ {m}
    /\ replies' = IF \E w \in Workers : Awaits(w, m)
                  THEN replies \cup {[id |-> m.id, code |-> code, body |-> body,
                                      count |-> data.count, card |-> data.card, rows |-> data.rows]}
                  ELSE replies

CarryOut(m, registry, data) ==
    /\ cards' = registry
    /\ executed' = [executed EXCEPT ![m.id] = @ + 1]
    /\ moved' = [moved EXCEPT ![m.id] = @ + data.count]
    /\ Answer(m, 200, "goodData", data)
    /\ UNCHANGED <<believed, made, outcome>>

Register(m) ==
    /\ m.request.endpoint = "/card/add"
    /\ \E c \in Cards :
          /\ cards[c] = Absent
          /\ CarryOut(m, [cards EXCEPT ![c] = NewCard(m.request.body.user_id, m.request.body.info)],
                      [NoResult EXCEPT !.card = c])
    /\ UNCHANGED call

\* The fields that a request on one card sets.
Written(request) ==
    LET body == request.body
    IN  CASE request.endpoint = "/card/update/info"      -> [f \in DOMAIN body \ {"card_id"} |-> body[f]]
          [] request.endpoint = "/card/delete"           -> [revoked |-> TRUE, enabled |-> FALSE]
          [] request.endpoint = "/card/setting/enabled"  -> [enabled |-> body.enabled]
          [] request.endpoint = "/card/setting/atm"      -> [atm |-> body.enabled]
          [] request.endpoint = "/card/pin/change"       -> [pin |-> body.new_pin]
          [] request.endpoint = "/card/setting/phone"    -> [phone |-> body.new_phone]
          [] request.endpoint = "/card/update/ownership" -> [user_id |-> body.new_user_id]
          [] OTHER                                       -> <<>>

\* A card with these fields of it replaced.
Overwritten(card, fields) == [f \in Fields |-> IF f \in DOMAIN fields THEN fields[f] ELSE card[f]]

ChangeCard(m) ==
    /\ "card_id" \in DOMAIN m.request.body
    /\ LET c == m.request.body.card_id
       IN  /\ cards[c] # Absent
           /\ CarryOut(m, [cards EXCEPT ![c] = Overwritten(@, Written(m.request))], [NoResult EXCEPT !.card = c])
    /\ UNCHANGED call

Transfer(m) ==
    /\ m.request.endpoint = "/card/update/ownership/user"
    /\ LET body == m.request.body
           mine == {c \in Cards : /\ cards[c] # Absent
                                  /\ cards[c].user_id = body.user_id /\ ~cards[c].revoked}
       IN  CarryOut(m, [c \in Cards |-> IF c \in mine THEN [cards[c] EXCEPT !.user_id = body.new_user_id]
                                        ELSE cards[c]],
                    [NoResult EXCEPT !.count = Cardinality(mine)])
    /\ UNCHANGED call

\* The registered cards of a user, or of all users; one of them, or all.
Selected(user, card) ==
    {c \in Cards : cards[c] # Absent /\ user \in {NoId, cards[c].user_id} /\ card \in {NoId, c}}

\* What the API shows of a card.
Row(c) == [card_id |-> c, user_id |-> cards[c].user_id, info |-> cards[c].info,
           enabled |-> cards[c].enabled, atm |-> cards[c].atm, phone |-> cards[c].phone]

\* The path is /<user> or /<user>/<card>; ledgers have both or there is no
\* route.  A page of ledgers is known by its card and its number.
RowsAt(request) ==
    LET path == request.path
    IN  CASE request.endpoint = "/card/ledgers" ->
                {[card_id |-> c, page |-> request.query.page] : c \in Selected(path[1], path[2])}
          [] request.endpoint = "/card/prices" ->
                {row \in PriceList : \A f \in DOMAIN request.query : row[f] = request.query[f]}
          [] OTHER ->
                {Row(c) : c \in CASE Len(path) = 0 -> Selected(NoId, NoId)
                                  [] Len(path) = 1 -> Selected(path[1], NoId)
                                  [] OTHER         -> Selected(path[1], path[2])}

\* What a lookup is for.
Wanted(op) ==
    LET own == Selected(op.client.userID, op.client.cardID)
    IN  CASE op.method = "GetCardLedgers" -> {[card_id |-> c, page |-> op.arg] : c \in own}
          [] op.method = "Prices"         -> {row \in PriceList : \A f \in DOMAIN op.arg : op.arg[f] \in {"", row[f]}}
          [] OTHER                        -> {Row(c) : c \in own}

Routed(request) == request.endpoint = "/card/ledgers" => NoId \notin Range(request.path)

\* The call remembers, as history, what it should be shown at this time.
Show(m) ==
    /\ m.request.endpoint \in {"/card/get", "/card/ledgers", "/card/prices"} /\ Routed(m.request)
    /\ CarryOut(m, cards, [NoResult EXCEPT !.rows = RowsAt(m.request)])
    /\ call' = [w \in Workers |-> IF Awaits(w, m) THEN [call[w] EXCEPT !.due = Wanted(call[w])] ELSE call[w]]

\* Any request may be refused, or fail before anything is done.
Decline(m) == /\ \E code \in {400, 500} : Answer(m, code, "statusFalse", NoResult)
              /\ UNCHANGED <<serverVars, believed, call, made, outcome>>

-----------------------------------------------------------------------------

ServiceStep(w) == \/ \E op \in ServiceOps : Call(w, op) \/ FailLocally(w, op)
                  \/ Abandon(w) \/ Receive(w) \/ Acknowledge(w)

ServerStep(m) == Register(m) \/ ChangeCard(m) \/ Transfer(m) \/ Show(m) \/ Decline(m)

Next == (\E w \in Workers : ServiceStep(w)) \/ (\E m \in wire : ServerStep(m))

Spec == Init /\ [][Next]_vars

-----------------------------------------------------------------------------
(* Properties.                                                             *)

RowType == [card_id : Cards, user_id : Users, info : Infos, enabled : BOOLEAN, atm : BOOLEAN,
            phone : Texts \cup {""}]
           \cup [card_id : Cards, page : {LedgerPage}] \cup PriceList

ResultType == [err : Errors \cup {"NoPrices"}, code : Nat, count : Nat, card : Cards \cup {Absent}, rows : SUBSET RowType]

TypeOK ==
    /\ \A c \in Cards : /\ cards[c] # Absent => cards[c] \in CardType
                        /\ \A f \in Fields : believed[c][f] \notin {Absent, Unclear} =>
                              \E card \in CardType : card[f] = believed[c][f]
    /\ \A w \in Workers : /\ call[w].pc \in {"idle", "sent", "returned"}
                          /\ call[w].id \in 0..made
                          /\ call[w].result \in ResultType /\ call[w].due \subseteq RowType
    /\ made \in 0..MaxCalls
    /\ \A m \in wire : m.id \in 1..made
    /\ \A r \in replies : r.id \in 1..made /\ r.body \in Bodies
    /\ outcome \in [Calls -> {"none", "open", "succeeded", "refused", "unclear"}]
    /\ executed \in [Calls -> Nat] /\ moved \in [Calls -> Nat]

\* What the service concludes from nil errors and refusals is what IBS has: a
\* request that is carried out after its caller gave up undoes no later call
\* the service relies on, an update of one field leaves the others as they were
\* set by other goroutines, and no value ends up in another field
\* (card_manage.go:80-118, card_settings.go, with client.go:354-404).
BeliefsAreTrue ==
    \A c \in Cards, f \in Fields :
        /\ believed[c][f] \notin {Absent, Unclear}
        /\ \A w \in Workers : Busy(w) => <<c, f>> \notin Touched(call[w])
        => cards[c] # Absent /\ cards[c][f] = believed[c][f]

\* IBS has cards the service does not know, from a call it lost.
UnknownCards == {c \in Cards : cards[c] # Absent /\ ~Known(c)}

\* "UpdateUserOwnership transfers all non-revoked cards [...] and returns the
\* number of cards updated" (card_settings.go:89-91): with a nil error the count
\* is what this very call transferred, not what an earlier attempt did whose
\* answer was lost; and if no earlier call is unclear it is the number of cards
\* the service knows the user to have.
CountIsRight ==
    \A w \in Workers :
        LET c == call[w]
            mine == {d \in Cards : believed[d].user_id = c.client.userID /\ believed[d].revoked = FALSE}
        IN  c.pc = "returned" /\ c.method = "UpdateUserOwnership" /\ c.result.err = NoError =>
                /\ c.result.count = moved[c.id]
                /\ UnknownCards = {} /\ (\A id \in Calls : outcome[id] # "unclear") =>
                      c.result.count = Cardinality(mine)

\* GetCardInfo cannot tell IBS that the one id it sends is a card's.
CardWithoutUser(client) == client.userID = NoId /\ client.cardID # NoId

\* What a lookup must show: what its scope stands for; but IBS takes the id of a
\* card without a user for a user's, and nothing has that user.
DueTo(c) == IF c.method = "GetCardInfo" /\ CardWithoutUser(c.client) THEN {} ELSE c.due

\* A lookup shows what its client's scope stands for at the time IBS answers, no
\* more and no less: one user's cards, one card, or all (card.go:102-123); the
\* ledgers of the client's card and of the page asked for (card_ledgers.go:52-60);
\* the prices under the filters given (card_prices.go:67-100), of which there are
\* none if the error says so.  The exception is GetCardInfo of a client with a
\* card but no user (card.go:105-110): it shows no card at all with a nil error,
\* the card asked for left out, and never a card of another scope.
ReadsAnswerTheirScope ==
    \A w \in Workers :
        LET c == call[w]
        IN  /\ c.pc = "returned" /\ c.method \in {"GetCardInfo", "GetCardLedgers", "Prices"}
            /\ c.result.err \in {NoError, "NoPrices"}
            => c.result.rows = DueTo(c)

Effects == INSTANCE CallEffects

\* A nil error means that the request was carried out exactly once, a refusal
\* that it never will be, although these calls have no idempotency key: whatever
\* is lost, delayed or damaged, and whichever method it is
\* (client.go:303-405).
ImplementsCallEffects == Effects!Spec

=============================================================================
