--------------------------- MODULE CardBeliefProofs ---------------------------
(***************************************************************************)
(* Proofs of the properties of CardAdmin that speak of cards and fields,   *)
(* for any cards, users, goroutines and calls.  The inductive invariant    *)
(* says, of every field the service trusts, what IBS has in it, given the  *)
(* calls in progress and which of them IBS has carried out; and of every   *)
(* request on its way, in whose name it still is, or that the service no   *)
(* longer trusts what it may write.                                        *)
(***************************************************************************)
EXTENDS CardAdminProofs, FiniteSetTheorems

CardMethods == {"UpdateCardInfo", "DeleteCard", "CardEnable", "CardATM", "ChangePIN", "SendPIN",
                "ChangePhone", "UpdateOwnership"}

ReadMethods == {"GetCardInfo", "GetCardLedgers", "Prices"}

\* What a method on one card may be given.
ArgsOf(method) == CASE method = "UpdateCardInfo"               -> Updates
                    [] method \in {"CardEnable", "CardATM"}    -> BOOLEAN
                    [] method \in {"ChangePIN", "ChangePhone"} -> Texts
                    [] method = "UpdateOwnership"              -> Users
                    [] OTHER                                   -> {""}

\* A call the service may make; a card it addresses stays known.
OpTrue(op) ==
    \/ /\ op.method \in CardMethods /\ op.arg \in ArgsOf(op.method)
       /\ op.client.cardID \in Cards /\ Known(op.client.cardID)
    \/ op.method = "AddCard" /\ op.client.userID \in Users /\ op.arg \in Infos
    \/ op.method = "UpdateUserOwnership" /\ op.client.userID \in Users /\ op.arg \in Users
    \/ op.method = "GetCardInfo" /\ op.client \in Scopes
    \/ op.method = "GetCardLedgers" /\ op.client \in Scopes /\ op.arg = LedgerPage
    \/ op.method = "Prices" /\ op.arg \in PriceFilters

ValuesOf(f) == CASE f = "user_id" -> Users
                 [] f = "info" -> Infos
                 [] f \in {"enabled", "atm", "revoked"} -> BOOLEAN
                 [] OTHER -> Texts \cup {""}

-----------------------------------------------------------------------------
(* The invariant, part by part.                                            *)

Whole(b) == b = [f \in Fields |-> b[f]]

\* A known card exists, and nothing is known of the others.
BeliefTyped(c) ==
    /\ Whole(believed[c])
    /\ \A f \in Fields : believed[c][f] \in ValuesOf(f) \cup {Absent, Unclear}
    /\ Known(c) => cards[c] # Absent /\ \A f \in Fields : believed[c][f] # Absent
    /\ ~Known(c) => \A f \in Fields : believed[c][f] \in {Absent, Unclear}
    /\ \A f \in Fields : believed[c][f] = Unclear => \E id \in Calls : outcome[id] = "unclear"

RegistryTyped == /\ cards = [c \in Cards |-> cards[c]] /\ believed = [c \in Cards |-> believed[c]]
                 /\ \A c \in Cards : (cards[c] # Absent => cards[c] \in CardType) /\ BeliefTyped(c)

CallTyped(c) == /\ c.id \in 0..made /\ (c.pc # "idle" => c.id # 0 /\ OpTrue(c))
                /\ c.result \in ResultType /\ c.due \subseteq RowType

CallsTyped == /\ \A w \in Workers : CallTyped(call[w])
              /\ moved \in [Calls -> Nat] /\ \A id \in Calls : executed[id] = 0 => moved[id] = 0

\* No two calls in progress are concerned with the same field.
CallsApart == \A v, w \in Workers : v # w /\ Busy(v) /\ Busy(w) =>
                 call[v].id # call[w].id /\ Concerns(call[v]) \cap Concerns(call[w]) = {}

\* The service trusts nothing that op may still write.
Forsaken(op) == op.method # "AddCard" => \A x \in Touched(op) : believed[x[1]][x[2]] = Unclear

Owns(w, m) == Busy(w) /\ call[w].id = m.id

WireTrue(m) == \/ \E w \in Workers : Owns(w, m) /\ m.request = RequestOf(call[w])
               \/ /\ \A w \in Workers : ~Owns(w, m)
                  /\ \E op : OpTrue(op) /\ m.request = RequestOf(op) /\ Forsaken(op)

\* What a call makes of a field, as far as the service can tell.
Promised(op, c, f) == IF op.method = "UpdateUserOwnership"
                      THEN AfterTransfer(believed[c], op.client.userID, op.arg)[f] ELSE Intended(op)[f]

Touches(w, c, f) == Busy(w) /\ <<c, f>> \in Touched(call[w])

Carried(w) == executed[call[w].id] = 1

\* What IBS has in a field the service trusts.
FieldTrue(c, f) ==
    believed[c][f] \notin {Absent, Unclear} =>
        /\ \A w \in Workers : Touches(w, c, f) /\ Carried(w) => Promised(call[w], c, f) \in {cards[c][f], Unclear}
        /\ (\A w \in Workers : Touches(w, c, f) => ~Carried(w)) => cards[c][f] = believed[c][f]

FieldsTrue == \A c \in Cards, f \in Fields : FieldTrue(c, f)

\* Card c is the one that op registered.
NewTrue(op, c) ==
    /\ c \in Cards /\ ~Known(c) /\ cards[c] # Absent
    /\ \A f \in Fields : believed[c][f] # Unclear => cards[c][f] = NewCard(op.client.userID, op.arg)[f]

\* What comes with a success is true of the call.
DataTrue(c, data) ==
    /\ data.count = moved[c.id]
    /\ c.method = "AddCard" => NewTrue(c, data.card)
    /\ c.method \in ReadMethods => data.rows = DueTo(c)

DataTyped(data) == data.count \in Nat /\ data.card \in Cards \cup {Absent} /\ data.rows \subseteq RowType

RepliesGood == \A r \in replies :
    /\ DataTyped(r)
    /\ \E w \in Workers : Awaits(w, r)
    /\ \A w \in Workers : Awaits(w, r) /\ r.code = 200 => DataTrue(call[w], r)

ResultTrue(c) ==
    c.pc = "returned" =>
        /\ outcome[c.id] = OutcomeOf(c.result)
        /\ c.result.err = NoError /\ c.method \in Decoding => DataTrue(c, c.result)
        /\ c.result.err = "NoPrices" => c.method = "Prices" /\ c.result.rows = {} /\ c.due = {}

BelievedOf(user) == {d \in Cards : believed[d].user_id = user /\ believed[d].revoked = FALSE}

\* Nothing that the service has lost can change what it counts.
NothingLost == UnknownCards = {} /\ \A id \in Calls : outcome[id] # "unclear"

CountTrue(w) == Busy(w) /\ call[w].method = "UpdateUserOwnership" /\ Carried(w) /\ NothingLost =>
                   moved[call[w].id] = Cardinality(BelievedOf(call[w].client.userID))

OutcomesTrue == \A id \in Calls : /\ outcome[id] = "succeeded" => executed[id] = 1
                                  /\ outcome[id] = "refused" => executed[id] = 0

BInv == /\ IInv /\ OutcomesTrue
        /\ RegistryTyped /\ CallsTyped /\ CallsApart
        /\ \A m \in wire : WireTrue(m)
        /\ FieldsTrue
        /\ RepliesGood
        /\ \A w \in Workers : ResultTrue(call[w]) /\ CountTrue(w)

-----------------------------------------------------------------------------
(* Fields and values.                                                      *)

LEMMA Admin ==
    /\ IsFiniteSet(Cards) /\ Registered \subseteq Cards /\ Owner \in Users /\ FirstInfo \in Infos
    /\ Absent # Unclear /\ MaxCalls \in Nat
    /\ NoId \notin Users /\ NoId \notin Infos /\ NoId \notin Cards /\ Absent \notin Cards /\ Absent \notin CardType
    /\ \A f \in Fields : Absent \notin ValuesOf(f) /\ Unclear \notin ValuesOf(f)
BY AdminAssumption DEF AdminAssumption, ValuesOf, NoId

LEMMA CardShape ==
    ASSUME NEW g, g = [f \in Fields |-> g[f]], \A f \in Fields : g[f] \in ValuesOf(f)
    PROVE  g \in CardType
<1>1. /\ g["user_id"] \in Users /\ g["info"] \in Infos /\ g["enabled"] \in BOOLEAN /\ g["atm"] \in BOOLEAN
      /\ g["pin"] \in Texts \cup {""} /\ g["phone"] \in Texts \cup {""} /\ g["revoked"] \in BOOLEAN
  BY DEF Fields, ValuesOf
<1> QED BY <1>1 DEF Fields, CardType

LEMMA CardFields ==
    ASSUME NEW g \in CardType
    PROVE  /\ g = [f \in Fields |-> g[f]] /\ DOMAIN g = Fields
           /\ \A f \in Fields : g[f] \in ValuesOf(f)
BY DEF Fields, CardType, ValuesOf

LEMMA NewCardTyped ==
    ASSUME NEW u \in Users, NEW i \in Infos
    PROVE  NewCard(u, i) \in CardType
BY DEF CardType, NewCard

LEMMA OverwrittenTyped ==
    ASSUME NEW card \in CardType, NEW fields, \A f \in DOMAIN fields : fields[f] \in ValuesOf(f)
    PROVE  /\ Overwritten(card, fields) \in CardType
           /\ \A f \in Fields : Overwritten(card, fields)[f] = IF f \in DOMAIN fields THEN fields[f] ELSE card[f]
<1> PICK g : g = Overwritten(card, fields)
  OBVIOUS
<1>1. g = [f \in Fields |-> IF f \in DOMAIN fields THEN fields[f] ELSE card[f]]
  BY DEF Overwritten
<1>2. \A f \in Fields : g[f] = IF f \in DOMAIN fields THEN fields[f] ELSE card[f]
  BY <1>1
<1>3. g = [f \in Fields |-> g[f]]
  BY <1>1
<1>4. \A f \in Fields : g[f] \in ValuesOf(f)
  BY <1>2, CardFields
<1> QED BY <1>2, <1>3, <1>4, CardShape

LEMMA ValuesAre ==
    /\ ValuesOf("user_id") = Users /\ ValuesOf("info") = Infos
    /\ ValuesOf("enabled") = BOOLEAN /\ ValuesOf("atm") = BOOLEAN /\ ValuesOf("revoked") = BOOLEAN
    /\ ValuesOf("pin") = Texts \cup {""} /\ ValuesOf("phone") = Texts \cup {""}
BY DEF ValuesOf

\* What a method on one card is meant to set.
LEMMA IntendedTyped ==
    ASSUME NEW op, op.method \in CardMethods, op.arg \in ArgsOf(op.method)
    PROVE  /\ DOMAIN Intended(op) \subseteq Fields
           /\ \A f \in DOMAIN Intended(op) : Intended(op)[f] \in ValuesOf(f)
<1>1. CASE op.method = "UpdateCardInfo"
  <2>1. op.arg \in Updates
    BY <1>1 DEF ArgsOf
  <2>2. Intended(op) = [f \in {f \in DOMAIN op.arg : op.arg[f] # ""} |-> op.arg[f]]
    BY <1>1 DEF Intended
  <2>3. DOMAIN op.arg = {"user_id", "info"} /\ op.arg["user_id"] \in Users \cup {""} /\ op.arg["info"] \in Infos \cup {""}
    BY <2>1 DEF Updates
  <2> QED BY <2>2, <2>3 DEF Fields, ValuesOf
<1>2. CASE op.method = "DeleteCard"
  <2>1. Intended(op) = [revoked |-> TRUE, enabled |-> FALSE]
    BY <1>2 DEF Intended
  <2>2. /\ DOMAIN Intended(op) = {"revoked", "enabled"}
        /\ Intended(op)["revoked"] = TRUE /\ Intended(op)["enabled"] = FALSE
    BY <2>1
  <2> QED BY <2>2, ValuesAre DEF Fields
<1>3. CASE op.method = "CardEnable"
  <2>1. Intended(op) = [enabled |-> op.arg] /\ op.arg \in BOOLEAN
    BY <1>3, Zenon DEF Intended, ArgsOf
  <2> QED BY <2>1 DEF Fields, ValuesOf
<1>4. CASE op.method = "CardATM"
  <2>1. Intended(op) = [atm |-> op.arg]
    BY <1>4, Zenon DEF Intended
  <2>2. op.arg \in BOOLEAN
    BY <1>4 DEF ArgsOf
  <2> QED BY <2>1, <2>2 DEF Fields, ValuesOf
<1>5. CASE op.method = "ChangePIN"
  <2>1. Intended(op) = [pin |-> op.arg]
    BY <1>5, Zenon DEF Intended
  <2>2. op.arg \in Texts
    BY <1>5 DEF ArgsOf
  <2>3. DOMAIN Intended(op) = {"pin"} /\ Intended(op)["pin"] = op.arg
    BY <2>1
  <2> QED BY <2>2, <2>3, ValuesAre DEF Fields
<1>6. CASE op.method = "ChangePhone"
  <2>1. Intended(op) = [phone |-> op.arg]
    BY <1>6 DEF Intended
  <2>2. op.arg \in Texts
    BY <1>6 DEF ArgsOf
  <2>3. DOMAIN Intended(op) = {"phone"} /\ Intended(op)["phone"] = op.arg
    BY <2>1
  <2> QED BY <2>2, <2>3, ValuesAre DEF Fields
<1>7. CASE op.method = "UpdateOwnership"
  <2>1. Intended(op) = [user_id |-> op.arg]
    BY <1>7 DEF Intended
  <2>2. op.arg \in Users
    BY <1>7 DEF ArgsOf
  <2>3. DOMAIN Intended(op) = {"user_id"} /\ Intended(op)["user_id"] = op.arg
    BY <2>1
  <2> QED BY <2>2, <2>3, ValuesAre DEF Fields
<1>8. CASE op.method = "SendPIN"
  <2>1. Intended(op) = <<>>
    BY <1>8 DEF Intended
  <2> QED BY <2>1
<1> QED BY <1>1, <1>2, <1>3, <1>4, <1>5, <1>6, <1>7, <1>8 DEF CardMethods

LEMMA NothingIntended ==
    ASSUME NEW op, op.method \in {"AddCard", "UpdateUserOwnership"} \cup ReadMethods
    PROVE  DOMAIN Intended(op) = {}
<1>1. Intended(op) = <<>>
  BY DEF Intended, ReadMethods
<1> QED BY <1>1

-----------------------------------------------------------------------------
(* What the requests ask for.                                              *)

LEMMA PostIs ==
    ASSUME NEW endpoint, NEW body
    PROVE  LET q == Post(endpoint, body) IN q.endpoint = endpoint /\ q.body = body
BY DEF Post

LEMMA UserAndCardIs ==
    ASSUME NEW client
    PROVE  /\ DOMAIN UserAndCardOf(client) = {"card_id", "user_id"}
           /\ UserAndCardOf(client)["card_id"] = client.cardID
BY DEF UserAndCardOf

\* A request that sets one field sends the card, the user and the new value.
LEMMA SettingBody ==
    ASSUME NEW client, NEW endpoint, NEW name, name \notin {"card_id", "user_id"}, NEW value
    PROVE  LET q == Post(endpoint, With(UserAndCardOf(client), name, value))
           IN  /\ q.endpoint = endpoint /\ "card_id" \in DOMAIN q.body
               /\ q.body["card_id"] = client.cardID /\ q.body[name] = value
<1> PICK scope : scope = UserAndCardOf(client)
  OBVIOUS
<1> PICK body : body = With(scope, name, value)
  OBVIOUS
<1>1. DOMAIN scope = {"card_id", "user_id"} /\ scope["card_id"] = client.cardID
  BY UserAndCardIs
<1>2. /\ DOMAIN body = DOMAIN scope \cup {name} /\ body[name] = value
      /\ \A n \in DOMAIN scope \ {name} : body[n] = scope[n]
  BY DEF With
<1>3. "card_id" \in DOMAIN body /\ body["card_id"] = client.cardID /\ body[name] = value
  BY <1>1, <1>2
<1> QED BY <1>3, PostIs

CardEndpoints == {"/card/update/info", "/card/delete", "/card/setting/enabled", "/card/setting/atm",
                  "/card/pin/change", "/card/pin/send", "/card/setting/phone", "/card/update/ownership"}

\* A request on one card asks for what its call is meant to set.
LEMMA CardRequestMeans ==
    ASSUME NEW op, op.method \in CardMethods, op.arg \in ArgsOf(op.method)
    PROVE  LET q == RequestOf(op)
           IN  /\ q.endpoint \in CardEndpoints
               /\ "card_id" \in DOMAIN q.body /\ q.body["card_id"] = op.client.cardID
               /\ Written(q) = Intended(op)
<1> PICK q : q = RequestOf(op)
  OBVIOUS
<1>1. CASE op.method = "UpdateCardInfo"
  <2> PICK set : set = NonEmptyFields(op.arg)
    OBVIOUS
  <2>1. op.arg \in Updates
    BY <1>1 DEF ArgsOf
  <2>2. DOMAIN op.arg = {"user_id", "info"}
    BY <2>1 DEF Updates
  <2>3. Intended(op) = set
    BY <1>1 DEF Intended, NonEmptyFields
  <2>4. set = [f \in DOMAIN set |-> set[f]] /\ "card_id" \notin DOMAIN set
    BY <2>2 DEF NonEmptyFields
  <2> PICK body : body = With(set, "card_id", op.client.cardID)
    OBVIOUS
  <2>5. q = Post("/card/update/info", body)
    BY <1>1 DEF RequestOf, UpdateCardInfo
  <2>6. q.endpoint = "/card/update/info" /\ q.body = body
    BY <2>5, PostIs
  <2>7. /\ DOMAIN body = DOMAIN set \cup {"card_id"} /\ body["card_id"] = op.client.cardID
        /\ \A f \in DOMAIN set \ {"card_id"} : body[f] = set[f]
    BY DEF With
  <2>8. Written(q) = [f \in DOMAIN body \ {"card_id"} |-> body[f]]
    BY <2>6 DEF Written
  <2>9. Written(q) = set
    BY <2>4, <2>7, <2>8
  <2> QED BY <2>3, <2>6, <2>7, <2>9 DEF CardEndpoints
<1>2. CASE op.method = "DeleteCard"
  <2>1. q = Post("/card/delete", CardOf(op.client))
    BY <1>2 DEF RequestOf, DeleteCard
  <2>2. q.endpoint = "/card/delete" /\ q.body = CardOf(op.client)
    BY <2>1, PostIs
  <2>3. "card_id" \in DOMAIN q.body /\ q.body["card_id"] = op.client.cardID
    BY <2>2 DEF CardOf
  <2>4. Written(q) = [revoked |-> TRUE, enabled |-> FALSE] /\ Intended(op) = [revoked |-> TRUE, enabled |-> FALSE]
    BY <1>2, <2>2 DEF Written, Intended
  <2> QED BY <2>2, <2>3, <2>4 DEF CardEndpoints
<1>3. CASE op.method = "CardEnable"
  <2>1. q = Post("/card/setting/enabled", With(UserAndCardOf(op.client), "enabled", op.arg))
    BY <1>3 DEF RequestOf, CardEnable
  <2>2. q.endpoint = "/card/setting/enabled" /\ "card_id" \in DOMAIN q.body
        /\ q.body["card_id"] = op.client.cardID /\ q.body["enabled"] = op.arg
    BY <2>1, SettingBody
  <2>3. Written(q) = [enabled |-> op.arg] /\ Intended(op) = [enabled |-> op.arg]
    BY <1>3, <2>2 DEF Written, Intended
  <2> QED BY <2>2, <2>3 DEF CardEndpoints
<1>4. CASE op.method = "CardATM"
  <2>1. q = Post("/card/setting/atm", With(UserAndCardOf(op.client), "enabled", op.arg))
    BY <1>4 DEF RequestOf, CardATM
  <2>2. q.endpoint = "/card/setting/atm" /\ "card_id" \in DOMAIN q.body
        /\ q.body["card_id"] = op.client.cardID /\ q.body["enabled"] = op.arg
    BY <2>1, SettingBody
  <2>3. Written(q) = [atm |-> op.arg] /\ Intended(op) = [atm |-> op.arg]
    BY <1>4, <2>2 DEF Written, Intended
  <2> QED BY <2>2, <2>3 DEF CardEndpoints
<1>5. CASE op.method = "ChangePIN"
  <2>1. q = Post("/card/pin/change", With(UserAndCardOf(op.client), "new_pin", op.arg))
    BY <1>5 DEF RequestOf, ChangePIN
  <2>2. q.endpoint = "/card/pin/change" /\ "card_id" \in DOMAIN q.body
        /\ q.body["card_id"] = op.client.cardID /\ q.body["new_pin"] = op.arg
    BY <2>1, SettingBody
  <2>3. Written(q) = [pin |-> op.arg] /\ Intended(op) = [pin |-> op.arg]
    BY <1>5, <2>2 DEF Written, Intended
  <2> QED BY <2>2, <2>3 DEF CardEndpoints
<1>6. CASE op.method = "ChangePhone"
  <2>1. q = Post("/card/setting/phone", With(UserAndCardOf(op.client), "new_phone", op.arg))
    BY <1>6 DEF RequestOf, ChangePhone
  <2>2. q.endpoint = "/card/setting/phone" /\ "card_id" \in DOMAIN q.body
        /\ q.body["card_id"] = op.client.cardID /\ q.body["new_phone"] = op.arg
    BY <2>1, SettingBody
  <2>3. Written(q) = [phone |-> op.arg] /\ Intended(op) = [phone |-> op.arg]
    BY <1>6, <2>2 DEF Written, Intended
  <2> QED BY <2>2, <2>3 DEF CardEndpoints
<1>7. CASE op.method = "UpdateOwnership"
  <2>1. q = Post("/card/update/ownership", With(UserAndCardOf(op.client), "new_user_id", op.arg))
    BY <1>7 DEF RequestOf, UpdateOwnership
  <2>2. q.endpoint = "/card/update/ownership" /\ "card_id" \in DOMAIN q.body
        /\ q.body["card_id"] = op.client.cardID /\ q.body["new_user_id"] = op.arg
    BY <2>1, SettingBody
  <2>3. Written(q) = [user_id |-> op.arg] /\ Intended(op) = [user_id |-> op.arg]
    BY <1>7, <2>2 DEF Written, Intended
  <2> QED BY <2>2, <2>3 DEF CardEndpoints
<1>8. CASE op.method = "SendPIN"
  <2>1. q = Post("/card/pin/send", UserAndCardOf(op.client))
    BY <1>8 DEF RequestOf, SendPIN
  <2>2. q.endpoint = "/card/pin/send" /\ q.body = UserAndCardOf(op.client)
    BY <2>1, PostIs
  <2>3. "card_id" \in DOMAIN q.body /\ q.body["card_id"] = op.client.cardID
    BY <2>2, UserAndCardIs
  <2>4. Written(q) = <<>> /\ Intended(op) = <<>>
    BY <1>8, <2>2 DEF Written, Intended
  <2> QED BY <2>2, <2>3, <2>4 DEF CardEndpoints
<1> QED BY <1>1, <1>2, <1>3, <1>4, <1>5, <1>6, <1>7, <1>8 DEF CardMethods

LEMMA AddRequestMeans ==
    ASSUME NEW op, op.method = "AddCard"
    PROVE  LET q == RequestOf(op)
           IN  /\ q.endpoint = "/card/add" /\ "card_id" \notin DOMAIN q.body
               /\ q.body["user_id"] = op.client.userID /\ q.body["info"] = op.arg
<1> PICK q : q = RequestOf(op)
  OBVIOUS
<1>1. q = Post("/card/add", [user_id |-> op.client.userID, info |-> op.arg])
  BY DEF RequestOf, AddCard
<1>2. q.endpoint = "/card/add" /\ q.body = [user_id |-> op.client.userID, info |-> op.arg]
  BY <1>1, PostIs
<1> QED BY <1>2

LEMMA TransferRequestMeans ==
    ASSUME NEW op, op.method = "UpdateUserOwnership"
    PROVE  LET q == RequestOf(op)
           IN  /\ q.endpoint = "/card/update/ownership/user" /\ "card_id" \notin DOMAIN q.body
               /\ q.body["user_id"] = op.client.userID /\ q.body["new_user_id"] = op.arg
<1> PICK q : q = RequestOf(op)
  OBVIOUS
<1>1. q = Post("/card/update/ownership/user", [user_id |-> op.client.userID, new_user_id |-> op.arg])
  BY DEF RequestOf, UpdateUserOwnership
<1>2. q.endpoint = "/card/update/ownership/user" /\ q.body = [user_id |-> op.client.userID, new_user_id |-> op.arg]
  BY <1>1, PostIs
<1> QED BY <1>2

LEMMA ReadRequestMeans ==
    ASSUME NEW op, op.method \in ReadMethods
    PROVE  LET q == RequestOf(op)
           IN  /\ "card_id" \notin DOMAIN q.body
               /\ op.method = "GetCardInfo" => q.endpoint = "/card/get" /\ q.path = ScopeSegments(op.client)
               /\ op.method = "GetCardLedgers" => /\ q.endpoint = "/card/ledgers"
                                                  /\ q.path = <<op.client.userID, op.client.cardID>>
                                                  /\ q.query["page"] = op.arg
               /\ op.method = "Prices" => q.endpoint = "/card/prices" /\ q.query = NonEmptyFields(op.arg)
<1> PICK q : q = RequestOf(op)
  OBVIOUS
<1>1. CASE op.method = "GetCardInfo"
  <2>1. q = [endpoint |-> "/card/get", path |-> ScopeSegments(op.client), query |-> <<>>, body |-> <<>>]
    BY <1>1 DEF RequestOf, GetCardInfo, Get
  <2> QED BY <1>1, <2>1
<1>2. CASE op.method = "GetCardLedgers"
  <2>1. q = [endpoint |-> "/card/ledgers", path |-> <<op.client.userID, op.client.cardID>>,
             query |-> [page |-> op.arg], body |-> <<>>]
    BY <1>2 DEF RequestOf, GetCardLedgers, Get
  <2> QED BY <1>2, <2>1
<1>3. CASE op.method = "Prices"
  <2>1. q = [endpoint |-> "/card/prices", path |-> <<>>, query |-> NonEmptyFields(op.arg), body |-> <<>>]
    BY <1>3 DEF RequestOf, Prices, Get
  <2> QED BY <1>3, <2>1
<1> QED BY <1>1, <1>2, <1>3 DEF ReadMethods

-----------------------------------------------------------------------------
(* What a lookup shows.                                                    *)

\* The path of GetCardInfo has a segment for each id of the client.
LEMMA Segments ==
    ASSUME NEW client
    PROVE  LET path == ScopeSegments(client)
           IN  /\ client.userID = NoId /\ client.cardID = NoId => Len(path) = 0
               /\ client.userID # NoId /\ client.cardID = NoId => Len(path) = 1 /\ path[1] = client.userID
               /\ client.userID = NoId /\ client.cardID # NoId => Len(path) = 1 /\ path[1] = client.cardID
               /\ client.userID # NoId /\ client.cardID # NoId =>
                     Len(path) = 2 /\ path[1] = client.userID /\ path[2] = client.cardID
<1> PICK u : u = client.userID
  OBVIOUS
<1> PICK c : c = client.cardID
  OBVIOUS
<1> DEFINE S == {u, c}
<1>1. <<>> \in Seq(S) /\ <<u>> \in Seq(S) /\ <<c>> \in Seq(S)
  OBVIOUS
<1>2. CASE u = NoId /\ c = NoId
  <2>1. ScopeSegments(client) = <<>> \o <<>>
    BY <1>2 DEF ScopeSegments, Segment
  <2>2. Len(<<>> \o <<>>) = 0
    BY <1>1
  <2> QED BY <1>2, <2>1, <2>2
<1>3. CASE u # NoId /\ c = NoId
  <2>1. ScopeSegments(client) = <<u>> \o <<>>
    BY <1>3 DEF ScopeSegments, Segment
  <2>2. Len(<<u>> \o <<>>) = 1 /\ (<<u>> \o <<>>)[1] = u
    BY <1>1
  <2> QED BY <1>3, <2>1, <2>2
<1>4. CASE u # NoId /\ c # NoId
  <2>1. ScopeSegments(client) = <<u>> \o <<c>>
    BY <1>4 DEF ScopeSegments, Segment
  <2>2. Len(<<u>> \o <<c>>) = 2 /\ (<<u>> \o <<c>>)[1] = u /\ (<<u>> \o <<c>>)[2] = c
    BY <1>1
  <2> QED BY <1>4, <2>1, <2>2
<1>5. CASE u = NoId /\ c # NoId
  <2>1. ScopeSegments(client) = <<>> \o <<c>>
    BY <1>5 DEF ScopeSegments, Segment
  <2>2. Len(<<>> \o <<c>>) = 1 /\ (<<>> \o <<c>>)[1] = c
    BY <1>1
  <2> QED BY <1>5, <2>1, <2>2
<1> QED BY <1>2, <1>3, <1>4, <1>5

\* A lookup is answered with what it is for.
LEMMA RowsAreWanted ==
    ASSUME RegistryTyped, NEW op, OpTrue(op), op.method \in ReadMethods
    PROVE  RowsAt(RequestOf(op)) = IF op.method = "GetCardInfo" /\ CardWithoutUser(op.client) THEN {} ELSE Wanted(op)
<1> PICK q : q = RequestOf(op)
  OBVIOUS
<1>1. CASE op.method = "GetCardInfo"
  <2>1. q.endpoint = "/card/get" /\ q.path = ScopeSegments(op.client)
    BY <1>1, ReadRequestMeans
  <2> PICK path : path = q.path
    OBVIOUS
  <2>2. RowsAt(q) = {Row(c) : c \in CASE Len(path) = 0 -> Selected(NoId, NoId)
                                      [] Len(path) = 1 -> Selected(path[1], NoId)
                                      [] OTHER         -> Selected(path[1], path[2])}
    BY <2>1 DEF RowsAt
  <2>3. Wanted(op) = {Row(c) : c \in Selected(op.client.userID, op.client.cardID)}
    BY <1>1 DEF Wanted
  <2>4. CASE op.client.userID = NoId /\ op.client.cardID = NoId
    <3>1. RowsAt(q) = Wanted(op)
      BY <2>1, <2>2, <2>3, <2>4, Segments
    <3> QED BY <2>4, <3>1 DEF CardWithoutUser
  <2>5. CASE op.client.userID # NoId /\ op.client.cardID = NoId
    <3>1. RowsAt(q) = Wanted(op)
      BY <2>1, <2>2, <2>3, <2>5, Segments
    <3> QED BY <2>5, <3>1 DEF CardWithoutUser
  <2>6. CASE op.client.userID # NoId /\ op.client.cardID # NoId
    <3>1. RowsAt(q) = Wanted(op)
      BY <2>1, <2>2, <2>3, <2>6, Segments
    <3> QED BY <2>6, <3>1 DEF CardWithoutUser
  <2>7. CASE op.client.userID = NoId /\ op.client.cardID # NoId
    <3>1. op.client \in [userID : Users \cup {NoId}, cardID : Cards \cup {NoId}]
      BY <1>1, AdminAssumption DEF OpTrue, CardMethods, AdminAssumption
    <3>2. op.client.cardID \in Cards
      BY <2>7, <3>1
    <3>3. Selected(op.client.cardID, NoId) = {}
      <4> SUFFICES ASSUME NEW c \in Cards, cards[c] # Absent, op.client.cardID \in {NoId, cards[c].user_id}
                   PROVE  FALSE
        BY DEF Selected
      <4>1. cards[c].user_id \in Users
        BY DEF RegistryTyped, CardType
      <4> QED BY <2>7, <3>2, <4>1, AdminAssumption DEF AdminAssumption
    <3>4. RowsAt(q) = {}
      BY <2>1, <2>2, <2>7, <3>3, Segments
    <3> QED BY <1>1, <2>7, <3>4 DEF CardWithoutUser
  <2> QED BY <1>1, <2>4, <2>5, <2>6, <2>7 DEF CardWithoutUser
<1>2. CASE op.method = "GetCardLedgers"
  <2>1. q.endpoint = "/card/ledgers" /\ q.path = <<op.client.userID, op.client.cardID>> /\ q.query["page"] = op.arg
    BY <1>2, ReadRequestMeans
  <2>2. RowsAt(q) = {[card_id |-> c, page |-> q.query["page"]] : c \in Selected(q.path[1], q.path[2])}
    BY <2>1 DEF RowsAt
  <2>3. Wanted(op) = {[card_id |-> c, page |-> op.arg] : c \in Selected(op.client.userID, op.client.cardID)}
    BY <1>2 DEF Wanted
  <2>4. q.path[1] = op.client.userID /\ q.path[2] = op.client.cardID
    BY <2>1
  <2>5. RowsAt(q) = Wanted(op)
    BY <2>1, <2>2, <2>3, <2>4
  <2> QED BY <1>2, <2>5
<1>3. CASE op.method = "Prices"
  <2>1. q.endpoint = "/card/prices" /\ q.query = NonEmptyFields(op.arg)
    BY <1>3, ReadRequestMeans
  <2>2. RowsAt(q) = {row \in PriceList : \A f \in DOMAIN NonEmptyFields(op.arg) : row[f] = NonEmptyFields(op.arg)[f]}
    BY <2>1 DEF RowsAt
  <2>3. Wanted(op) = {row \in PriceList : \A f \in DOMAIN op.arg : op.arg[f] \in {"", row[f]}}
    BY <1>3 DEF Wanted
  <2>4. RowsAt(q) = Wanted(op)
    BY <2>2, <2>3 DEF NonEmptyFields
  <2> QED BY <1>3, <2>4
<1> QED BY <1>1, <1>2, <1>3 DEF ReadMethods

\* What IBS shows is of the type of rows.
LEMMA RowsTyped ==
    ASSUME NEW op, OpTrue(op), op.method \in ReadMethods, RegistryTyped
    PROVE  RowsAt(RequestOf(op)) \subseteq RowType /\ Wanted(op) \subseteq RowType
<1> PICK q : q = RequestOf(op)
  OBVIOUS
<1>1. \A u, k : Selected(u, k) \subseteq {c \in Cards : cards[c] # Absent}
  BY DEF Selected
<1>2. ASSUME NEW c \in Cards, cards[c] # Absent PROVE Row(c) \in RowType
  <2>1. cards[c] \in CardType
    BY <1>2 DEF RegistryTyped
  <2> QED BY <2>1 DEF Row, RowType, CardType
<1>3. CASE op.method = "GetCardInfo"
  <2>1. q.endpoint = "/card/get"
    BY <1>3, ReadRequestMeans
  <2> PICK chosen : chosen = CASE Len(q.path) = 0 -> Selected(NoId, NoId)
                               [] Len(q.path) = 1 -> Selected(q.path[1], NoId)
                               [] OTHER           -> Selected(q.path[1], q.path[2])
    OBVIOUS
  <2>2. RowsAt(q) = {Row(c) : c \in chosen}
    BY <2>1 DEF RowsAt
  <2>3. chosen \subseteq {c \in Cards : cards[c] # Absent}
    BY <1>1
  <2>4. Wanted(op) = {Row(c) : c \in Selected(op.client.userID, op.client.cardID)}
    BY <1>3 DEF Wanted
  <2> QED BY <1>1, <1>2, <2>2, <2>3, <2>4
<1>4. CASE op.method = "GetCardLedgers"
  <2>1. q.endpoint = "/card/ledgers" /\ q.query["page"] = LedgerPage /\ op.arg = LedgerPage
    BY <1>4, ReadRequestMeans DEF OpTrue, CardMethods
  <2>2. RowsAt(q) = {[card_id |-> c, page |-> LedgerPage] : c \in Selected(q.path[1], q.path[2])}
    BY <2>1 DEF RowsAt
  <2>3. Wanted(op) = {[card_id |-> c, page |-> LedgerPage] : c \in Selected(op.client.userID, op.client.cardID)}
    BY <1>4, <2>1 DEF Wanted
  <2>4. \A c \in Cards : [card_id |-> c, page |-> LedgerPage] \in RowType
    BY DEF RowType
  <2> QED BY <1>1, <2>2, <2>3, <2>4
<1>5. CASE op.method = "Prices"
  <2>1. q.endpoint = "/card/prices"
    BY <1>5, ReadRequestMeans
  <2>2. RowsAt(q) \subseteq PriceList
    BY <2>1 DEF RowsAt
  <2>3. Wanted(op) \subseteq PriceList
    BY <1>5 DEF Wanted
  <2> QED BY <2>2, <2>3 DEF RowType
<1> QED BY <1>3, <1>4, <1>5 DEF ReadMethods

-----------------------------------------------------------------------------
(* The fields a call may write.                                            *)

LEMMA TouchedIs ==
    ASSUME NEW op
    PROVE  /\ op.method = "AddCard" => Touched(op) = {c \in Cards : ~Known(c)} \X Fields
           /\ op.method = "UpdateUserOwnership" => Touched(op) = Cards \X {"user_id"}
           /\ op.method \in CardMethods => Touched(op) = {op.client.cardID} \X DOMAIN Intended(op)
           /\ op.method \in ReadMethods => Touched(op) = {}
           /\ Touched(op) \subseteq Concerns(op)
           /\ op.method = "UpdateUserOwnership" => Concerns(op) = Cards \X {"user_id", "revoked"}
           /\ op.method # "UpdateUserOwnership" => Concerns(op) = Touched(op)
<1>1. op.method = "UpdateUserOwnership" => Touched(op) = Cards \X {"user_id"}
  BY DEF Touched
<1>2. op.method \in ReadMethods => Touched(op) = {}
  <2>1. op.method \in ReadMethods => Touched(op) = {op.client.cardID} \X DOMAIN Intended(op)
    BY DEF Touched, ReadMethods
  <2> QED BY <2>1, NothingIntended
<1>3. op.method \in CardMethods => Touched(op) = {op.client.cardID} \X DOMAIN Intended(op)
  BY DEF Touched, CardMethods
<1>4. op.method = "AddCard" => Touched(op) = {c \in Cards : ~Known(c)} \X Fields
  BY DEF Touched
<1>5. Touched(op) \subseteq Concerns(op)
  BY <1>1 DEF Concerns
<1> QED BY <1>1, <1>2, <1>3, <1>4, <1>5 DEF Concerns

LEMMA TouchedIn ==
    ASSUME NEW op, OpTrue(op)
    PROVE  Touched(op) \subseteq Cards \X Fields /\ Concerns(op) \subseteq Cards \X Fields
<1>1. CASE op.method \in CardMethods
  <2>1. op.arg \in ArgsOf(op.method) /\ op.client.cardID \in Cards
    BY <1>1 DEF OpTrue, CardMethods
  <2>2. DOMAIN Intended(op) \subseteq Fields
    BY <1>1, <2>1, IntendedTyped
  <2>3. op.method # "UpdateUserOwnership"
    BY <1>1 DEF CardMethods
  <2> QED BY <1>1, <2>1, <2>2, <2>3, TouchedIs
<1>2. CASE op.method = "AddCard"
  BY <1>2, TouchedIs
<1>3. CASE op.method = "UpdateUserOwnership"
  BY <1>3, TouchedIs DEF Fields
<1>4. CASE op.method \in ReadMethods
  BY <1>4, TouchedIs DEF ReadMethods
<1> QED BY <1>1, <1>2, <1>3, <1>4 DEF OpTrue, ReadMethods

\* Operations are told apart by method, client and argument.
LEMMA SameOp ==
    ASSUME NEW a, NEW b, a.method = b.method, a.client = b.client, a.arg = b.arg
    PROVE  /\ Touched(a) = Touched(b) /\ Concerns(a) = Concerns(b) /\ Intended(a) = Intended(b)
           /\ RequestOf(a) = RequestOf(b) /\ (OpTrue(a) <=> OpTrue(b)) /\ Wanted(a) = Wanted(b)
           /\ \A c, f : Promised(a, c, f) = Promised(b, c, f)
           /\ \A c : NewTrue(a, c) <=> NewTrue(b, c)
<1>1. Intended(a) = Intended(b)
  BY DEF Intended
<1>2. Touched(a) = Touched(b)
  BY <1>1 DEF Touched
<1>3. Concerns(a) = Concerns(b)
  BY <1>2 DEF Concerns
<1>4. RequestOf(a) = RequestOf(b)
  BY DEF RequestOf
<1>5. OpTrue(a) <=> OpTrue(b)
  BY DEF OpTrue
<1>6. Wanted(a) = Wanted(b)
  BY DEF Wanted
<1>7. \A c, f : Promised(a, c, f) = Promised(b, c, f)
  BY <1>1 DEF Promised
<1>8. \A c : NewTrue(a, c) <=> NewTrue(b, c)
  BY DEF NewTrue
<1> QED BY <1>1, <1>2, <1>3, <1>4, <1>5, <1>6, <1>7, <1>8

\* The same call a step later.
SameCall(w) == /\ call'[w].method = call[w].method /\ call'[w].client = call[w].client
               /\ call'[w].arg = call[w].arg /\ call'[w].id = call[w].id

LEMMA CallStays ==
    ASSUME NEW w \in Workers, SameCall(w)
    PROVE  /\ RequestOf(call[w])' = RequestOf(call[w]) /\ Intended(call[w])' = Intended(call[w])
           /\ \A c \in Cards : \A f : believed'[c] = believed[c] => Promised(call[w], c, f)' = Promised(call[w], c, f)
<1>1. Intended(call[w])' = Intended(call[w])
  BY DEF Intended, SameCall
<1>2. RequestOf(call[w])' = RequestOf(call[w])
  BY DEF RequestOf, SameCall
<1>3. \A c \in Cards : \A f : believed'[c] = believed[c] => Promised(call[w], c, f)' = Promised(call[w], c, f)
  BY <1>1 DEF Promised, SameCall, AfterTransfer
<1> QED BY <1>1, <1>2, <1>3

\* The more cards the service knows, the less a new card can be.
KnownGrows == \A c \in Cards : Known(c) => Known(c)'

LEMMA TouchedShrinks ==
    ASSUME NEW w \in Workers, SameCall(w), KnownGrows
    PROVE  /\ Touched(call[w])' \subseteq Touched(call[w]) /\ Concerns(call[w])' \subseteq Concerns(call[w])
           /\ OpTrue(call[w]) => OpTrue(call[w])'
           /\ call[w].method # "AddCard" => Touched(call[w])' = Touched(call[w])
           /\ \A c \in Cards : \A f : Known(c) /\ <<c, f>> \in Touched(call[w]) => <<c, f>> \in Touched(call[w])'
<1> USE DEF SameCall
<1>1. Intended(call[w])' = Intended(call[w])
  BY CallStays
<1>2. CASE call[w].method = "AddCard"
  <2>1. Touched(call[w]) = {c \in Cards : ~Known(c)} \X Fields
    BY <1>2, TouchedIs
  <2>2. Touched(call[w])' = {c \in Cards : ~Known(c)'} \X Fields
    BY <1>2 DEF Touched
  <2> QED BY <1>2, <2>1, <2>2 DEF KnownGrows, Concerns, OpTrue, CardMethods
<1>3. CASE call[w].method # "AddCard"
  <2>1. Touched(call[w])' = Touched(call[w])
    BY <1>1, <1>3 DEF Touched
  <2> QED BY <1>3, <2>1 DEF KnownGrows, Concerns, OpTrue
<1> QED BY <1>2, <1>3

LEMMA OpStays ==
    ASSUME NEW op, KnownGrows, OpTrue(op)
    PROVE  OpTrue(op)' /\ Touched(op)' \subseteq Touched(op) /\ (op.method # "AddCard" => Touched(op)' = Touched(op))
<1>1. OpTrue(op)'
  BY DEF OpTrue, KnownGrows
<1>2. op.method # "AddCard" => Touched(op)' = Touched(op)
  BY DEF Touched
<1>3. op.method = "AddCard" => Touched(op)' \subseteq Touched(op)
  <2>1. op.method = "AddCard" => Touched(op)' = {c \in Cards : ~Known(c)'} \X Fields
    BY DEF Touched
  <2> QED BY <2>1, TouchedIs DEF KnownGrows
<1> QED BY <1>1, <1>2, <1>3

-----------------------------------------------------------------------------
(* What the service makes of a result.                                     *)

LEMMA AfterTransferIs ==
    ASSUME NEW b, Whole(b), NEW u, NEW v
    PROVE  LET a == AfterTransfer(b, u, v)
           IN  /\ Whole(a) /\ \A f \in Fields : a[f] = b[f] \/ f = "user_id"
               /\ a["user_id"] = IF b["user_id"] # u \/ b["revoked"] = TRUE THEN b["user_id"]
                                 ELSE IF b["revoked"] = FALSE THEN v ELSE Unclear
<1> PICK owner : owner = IF b["revoked"] = FALSE THEN v ELSE Unclear
  OBVIOUS
<1>1. CASE b["user_id"] # u \/ b["revoked"] = TRUE
  BY <1>1 DEF AfterTransfer, Whole
<1>2. CASE ~(b["user_id"] # u \/ b["revoked"] = TRUE)
  <2>1. AfterTransfer(b, u, v) = [b EXCEPT !["user_id"] = owner]
    BY <1>2 DEF AfterTransfer
  <2> QED BY <1>2, <2>1 DEF Fields, Whole
<1> QED BY <1>1, <1>2

LEMMA UpdateIs ==
    ASSUME NEW b, Whole(b), NEW fields
    PROVE  LET a == Update(b, fields)
           IN  /\ Whole(a)
               /\ \A f \in Fields : a[f] = IF f \in DOMAIN fields /\ b[f] # Unclear THEN fields[f] ELSE b[f]
BY DEF Update, Whole

LEMMA NewCardFields ==
    ASSUME NEW u, NEW i
    PROVE  DOMAIN NewCard(u, i) = Fields
BY DEF NewCard, Fields

LEMMA AllMethods ==
    ASSUME NEW op, OpTrue(op)
    PROVE  op.method \in CardMethods \cup ReadMethods \cup {"AddCard", "UpdateUserOwnership"}
BY DEF OpTrue, ReadMethods

LEMMA BusyFacts ==
    ASSUME BInv, NEW w \in Workers, Busy(w)
    PROVE  /\ call[w].id \in 1..made /\ call[w].id \in Calls
           /\ OpTrue(call[w]) /\ call[w].pc \in {"sent", "returned"}
           /\ executed[call[w].id] \in {0, 1}
           /\ DOMAIN call[w] = CallFields
<1>1. call[w].id \in 0..made /\ call[w].id # 0 /\ OpTrue(call[w])
  BY DEF BInv, CallsTyped, CallTyped, Busy
<1>2. CallTrue(call[w]) /\ made \in 0..MaxCalls
  BY DEF BInv, IInv, CallsTrue
<1>3. call[w].id \in 1..made /\ call[w].id \in Calls
  BY <1>1, <1>2, Bounds
<1> QED BY <1>1, <1>2, <1>3 DEF BInv, IInv, CallTrue, Busy

\* What the service believes of field f of card c after the call of w.
Learned(w, c, f) ==
    IF <<c, f>> \notin Touched(call[w]) \/ outcome[call[w].id] = "refused" THEN believed[c][f]
    ELSE IF outcome[call[w].id] = "unclear"
         THEN IF call[w].method = "AddCard" THEN believed[c][f] ELSE Unclear
    ELSE IF call[w].method = "UpdateUserOwnership" THEN Promised(call[w], c, f)
    ELSE IF believed[c][f] = Unclear \/ (call[w].method = "AddCard" /\ c # call[w].result.card)
         THEN believed[c][f]
    ELSE IF call[w].method = "AddCard" THEN NewCard(call[w].client.userID, call[w].arg)[f]
    ELSE Intended(call[w])[f]

LEMMA Acknowledged ==
    ASSUME BInv, NEW w \in Workers, Acknowledge(w)
    PROVE  /\ believed' = [c \in Cards |-> believed'[c]]
           /\ \A c \in Cards : Whole(believed'[c])
           /\ \A c \in Cards, f \in Fields : believed'[c][f] = Learned(w, c, f)
<1> PICK op : op = call[w]
  OBVIOUS
<1>1. call[w].pc = "returned" /\ Busy(w)
  BY DEF Acknowledge, Busy
<1>2. OpTrue(op) /\ op.id \in Calls
  BY <1>1, BusyFacts
<1>3. /\ believed = [c \in Cards |-> believed[c]]
      /\ \A c \in Cards : Whole(believed[c])
  BY DEF BInv, RegistryTyped, BeliefTyped
<1>4. outcome[op.id] = OutcomeOf(op.result)
  BY <1>1 DEF BInv, ResultTrue
<1>5. outcome[op.id] \in {"succeeded", "refused", "unclear"}
  BY <1>4 DEF OutcomeOf
<1>6. CASE outcome[op.id] = "refused"
  <2>1. believed' = believed
    BY <1>6 DEF Acknowledge
  <2> QED BY <1>3, <1>6, <2>1 DEF Learned
<1>7. CASE outcome[op.id] = "unclear"
  <2>1. believed' = AfterDoubt(op)
    BY <1>7 DEF Acknowledge
  <2>2. CASE op.method = "AddCard"
    BY <1>3, <1>7, <2>1, <2>2 DEF AfterDoubt, Learned
  <2>3. CASE op.method # "AddCard"
    <3>1. believed' = [d \in Cards |-> [f \in Fields |-> IF <<d, f>> \in Touched(op) THEN Unclear ELSE believed[d][f]]]
      BY <2>1, <2>3 DEF AfterDoubt
    <3>2. \A c \in Cards, f \in Fields : Learned(w, c, f) = IF <<c, f>> \in Touched(op) THEN Unclear ELSE believed[c][f]
      BY <1>7, <2>3 DEF Learned
    <3> QED BY <3>1, <3>2 DEF Whole
  <2> QED BY <2>2, <2>3
<1>8. CASE outcome[op.id] = "succeeded"
  <2>1. believed' = AfterSuccess(op)
    BY <1>8 DEF Acknowledge
  <2>2. CASE op.method = "AddCard"
    <3>1. op.result.err = NoError
      BY <1>4, <1>8 DEF OutcomeOf
    <3>2. NewTrue(op, op.result.card)
      BY <1>1, <2>2, <3>1 DEF BInv, ResultTrue, DataTrue, Decoding
    <3> PICK k : k = op.result.card
      OBVIOUS
    <3>3. k \in Cards /\ ~Known(k)
      BY <3>2 DEF NewTrue
    <3> PICK new : new = NewCard(op.client.userID, op.arg)
      OBVIOUS
    <3>4. DOMAIN new = Fields
      BY NewCardFields
    <3> PICK b : b = Update(believed[k], new)
      OBVIOUS
    <3>5. believed' = [believed EXCEPT ![k] = b]
      <4>1. DOMAIN Intended(op) = {}
        BY <2>2, NothingIntended
      <4> QED BY <2>1, <2>2, <4>1 DEF AfterSuccess
    <3>6. Whole(b) /\ \A f \in Fields : b[f] = IF believed[k][f] # Unclear THEN new[f] ELSE believed[k][f]
      <4>1. Whole(believed[k])
        BY <1>3, <3>3
      <4>2. \A f \in Fields : b[f] = IF f \in DOMAIN new /\ believed[k][f] # Unclear THEN new[f] ELSE believed[k][f]
        BY <4>1, UpdateIs
      <4>3. Whole(b)
        BY <4>1, UpdateIs
      <4> QED BY <3>4, <4>2, <4>3
    <3>7. \A f \in Fields : <<k, f>> \in Touched(op)
      BY <2>2, <3>3, TouchedIs
    <3>8. \A c \in Cards : believed'[c] = IF c = k THEN b ELSE believed[c]
      BY <1>3, <3>5
    <3>9. believed' = [c \in Cards |-> believed'[c]]
      BY <1>3, <3>5
    <3>10. \A c \in Cards : Whole(believed'[c])
      BY <1>3, <3>6, <3>8
    <3>11. ASSUME NEW c \in Cards, NEW f \in Fields PROVE believed'[c][f] = Learned(w, c, f)
      <4>1. CASE c = k
        <5>1. Learned(w, c, f) = IF believed[k][f] = Unclear THEN believed[k][f] ELSE new[f]
          BY <1>8, <2>2, <3>7, <4>1 DEF Learned
        <5> QED BY <3>6, <3>8, <4>1, <5>1
      <4>2. CASE c # k
        <5>1. Learned(w, c, f) = believed[c][f]
          BY <1>8, <2>2, <4>2 DEF Learned
        <5> QED BY <3>8, <4>2, <5>1
      <4> QED BY <4>1, <4>2
    <3> QED BY <3>9, <3>10, <3>11
  <2>3. CASE op.method = "UpdateUserOwnership"
    <3>1. believed' = [d \in Cards |-> AfterTransfer(believed[d], op.client.userID, op.arg)]
      <4>1. DOMAIN Intended(op) = {}
        BY <2>3, NothingIntended
      <4> QED BY <2>1, <2>3, <4>1 DEF AfterSuccess
    <3>2. \A c \in Cards : believed'[c] = AfterTransfer(believed[c], op.client.userID, op.arg)
      BY <3>1
    <3>3. Touched(op) = Cards \X {"user_id"}
      BY <2>3, TouchedIs
    <3>4. ASSUME NEW c \in Cards
          PROVE  /\ Whole(believed'[c])
                 /\ \A f \in Fields \ {"user_id"} : believed'[c][f] = believed[c][f]
      <4> PICK b : b = believed[c]
        OBVIOUS
      <4>1. Whole(b)
        BY <1>3
      <4> PICK a : a = AfterTransfer(b, op.client.userID, op.arg)
        OBVIOUS
      <4>2. Whole(a)
        BY <4>1, AfterTransferIs
      <4>3. \A f \in Fields : a[f] = b[f] \/ f = "user_id"
        BY <4>1 DEF AfterTransfer, Whole
      <4> QED BY <3>2, <4>2, <4>3
    <3>5. \A c \in Cards, f \in Fields \ {"user_id"} : believed'[c][f] = believed[c][f]
      BY <3>4
    <3>6. \A c \in Cards, f \in Fields \ {"user_id"} : Learned(w, c, f) = believed[c][f]
      BY <3>3 DEF Learned
    <3>7. \A c \in Cards : Learned(w, c, "user_id") = Promised(op, c, "user_id")
      BY <1>8, <2>3, <3>3 DEF Learned
    <3>8. \A c \in Cards : Promised(op, c, "user_id") = believed'[c]["user_id"]
      BY <2>3, <3>2 DEF Promised
    <3>9. \A c \in Cards, f \in Fields : believed'[c][f] = Learned(w, c, f)
      BY <3>5, <3>6, <3>7, <3>8
    <3>10. believed' = [c \in Cards |-> believed'[c]]
      BY <3>1
    <3> QED BY <3>4, <3>9, <3>10
  <2>4. CASE op.method \in ReadMethods
    <3>1. DOMAIN Intended(op) = {} /\ Touched(op) = {}
      BY <2>4, NothingIntended, TouchedIs
    <3>2. believed' = believed
      BY <2>1, <2>4, <3>1 DEF AfterSuccess, ReadMethods
    <3> QED BY <1>3, <3>1, <3>2 DEF Learned
  <2>5. CASE op.method \in CardMethods
    <3> PICK k : k = op.client.cardID
      OBVIOUS
    <3> PICK set : set = Intended(op)
      OBVIOUS
    <3>1. k \in Cards /\ op.method \notin {"AddCard", "UpdateUserOwnership"} /\ Touched(op) = {k} \X DOMAIN set
      BY <1>2, <2>5, TouchedIs DEF OpTrue, CardMethods
    <3>2. CASE DOMAIN set = {}
      <4>1. believed' = believed
        BY <2>1, <3>1, <3>2 DEF AfterSuccess
      <4> QED BY <1>3, <3>1, <3>2, <4>1 DEF Learned
    <3>3. CASE DOMAIN set # {}
      <4> PICK b : b = Update(believed[k], set)
        OBVIOUS
      <4>1. believed' = [believed EXCEPT ![k] = b]
        BY <2>1, <3>1, <3>3 DEF AfterSuccess
      <4>2. Whole(b) /\ \A f \in Fields : b[f] = IF f \in DOMAIN set /\ believed[k][f] # Unclear THEN set[f] ELSE believed[k][f]
        BY <1>3, <3>1, UpdateIs
      <4>3. \A c \in Cards : believed'[c] = IF c = k THEN b ELSE believed[c]
        BY <1>3, <3>1, <4>1
      <4>4. believed' = [c \in Cards |-> believed'[c]]
        BY <1>3, <4>1
      <4>5. \A c \in Cards : Whole(believed'[c])
        BY <1>3, <4>2, <4>3
      <4>6. ASSUME NEW c \in Cards, NEW f \in Fields PROVE believed'[c][f] = Learned(w, c, f)
        <5>1. CASE c = k /\ f \in DOMAIN set
          <6>1. Learned(w, c, f) = IF believed[c][f] = Unclear THEN believed[c][f] ELSE set[f]
            BY <1>8, <3>1, <5>1 DEF Learned
          <6> QED BY <4>2, <4>3, <5>1, <6>1
        <5>2. CASE ~(c = k /\ f \in DOMAIN set)
          <6>1. Learned(w, c, f) = believed[c][f]
            BY <3>1, <5>2 DEF Learned
          <6> QED BY <4>2, <4>3, <5>2, <6>1
        <5> QED BY <5>1, <5>2
      <4> QED BY <4>4, <4>5, <4>6
    <3> QED BY <3>2, <3>3
  <2> QED BY <1>2, <2>2, <2>3, <2>4, <2>5, AllMethods
<1> QED BY <1>5, <1>6, <1>7, <1>8

-----------------------------------------------------------------------------
(* Steps that leave the calls as they are.                                 *)

LEMMA UnclearStays ==
    ASSUME BInv, [Next]_vars
    PROVE  OutcomesTrue' /\ \A id \in Calls : outcome[id] = "unclear" => outcome'[id] = "unclear"
<1>1. IInv' /\ [Effects!Next]_<<outcome, executed>>
  BY StepEffect DEF BInv
<1>2. outcome \in [Calls -> Effects!Outcomes] /\ executed \in [Calls -> {0, 1}]
  BY DEF BInv, IInv
<1>3. OutcomesTrue
  BY DEF BInv
<1>4. CASE UNCHANGED <<outcome, executed>>
  BY <1>3, <1>4 DEF OutcomesTrue
<1>5. ASSUME NEW id \in Calls, Effects!Begin(id)
      PROVE  OutcomesTrue' /\ \A i \in Calls : outcome[i] = "unclear" => outcome'[i] = "unclear"
  BY <1>2, <1>3, <1>5 DEF Effects!Begin, OutcomesTrue
<1>6. ASSUME NEW id \in Calls, Effects!Execute(id)
      PROVE  OutcomesTrue' /\ \A i \in Calls : outcome[i] = "unclear" => outcome'[i] = "unclear"
  BY <1>2, <1>3, <1>6 DEF Effects!Execute, OutcomesTrue
<1>7. ASSUME NEW id \in Calls, NEW answer \in {"succeeded", "refused", "unclear"}, Effects!Return(id, answer)
      PROVE  OutcomesTrue' /\ \A i \in Calls : outcome[i] = "unclear" => outcome'[i] = "unclear"
  BY <1>2, <1>3, <1>7 DEF Effects!Return, OutcomesTrue
<1> QED BY <1>1, <1>4, <1>5, <1>6, <1>7 DEF Effects!Next

\* Whoever is in a call stays in it.
SameCalls == \A w \in Workers : SameCall(w) /\ (Busy(w)' <=> Busy(w))

LEMMA SameTouched ==
    ASSUME SameCalls, UNCHANGED believed, NEW w \in Workers
    PROVE  /\ Touched(call[w])' = Touched(call[w]) /\ Concerns(call[w])' = Concerns(call[w])
           /\ \A c, f : Touches(w, c, f)' <=> Touches(w, c, f)
           /\ \A c \in Cards : \A f : Promised(call[w], c, f)' = Promised(call[w], c, f)
<1>1. SameCall(w)
  BY DEF SameCalls
<1>2. Intended(call[w])' = Intended(call[w]) /\ \A c \in Cards : \A f : Promised(call[w], c, f)' = Promised(call[w], c, f)
  BY <1>1, CallStays
<1>3. Touched(call[w])' = Touched(call[w])
  BY <1>1, <1>2 DEF Touched, SameCall, Known
<1>4. Concerns(call[w])' = Concerns(call[w])
  BY <1>1, <1>3 DEF Concerns, SameCall
<1>5. \A c, f : Touches(w, c, f)' <=> Touches(w, c, f)
  BY <1>3 DEF Touches, SameCalls
<1> QED BY <1>2, <1>3, <1>4, <1>5

LEMMA SameNew ==
    ASSUME UNCHANGED believed, UNCHANGED cards, NEW w \in Workers, SameCall(w), NEW c
    PROVE  NewTrue(call[w], c)' <=> NewTrue(call[w], c)
BY DEF NewTrue, Known, SameCall

LEMMA CallsQuiet ==
    ASSUME BInv, SameCalls, UNCHANGED believed
    PROVE  /\ CallsApart' /\ \A w \in Workers : OpTrue(call[w]) => OpTrue(call[w])'
           /\ \A m \in wire : WireTrue(m)'
<1>1. KnownGrows
  BY DEF KnownGrows, Known
<1>2. CallsApart'
  <2> SUFFICES ASSUME NEW v \in Workers, NEW w \in Workers, v # w, Busy(v)', Busy(w)'
               PROVE  call'[v].id # call'[w].id /\ (Concerns(call[v]) \cap Concerns(call[w]) = {})'
    BY DEF CallsApart
  <2>1. Busy(v) /\ Busy(w) /\ SameCall(v) /\ SameCall(w)
    BY DEF SameCalls
  <2>2. call[v].id # call[w].id /\ Concerns(call[v]) \cap Concerns(call[w]) = {}
    BY <2>1 DEF BInv, CallsApart
  <2>3. Concerns(call[v])' = Concerns(call[v]) /\ Concerns(call[w])' = Concerns(call[w])
    BY SameTouched
  <2> QED BY <2>1, <2>2, <2>3 DEF SameCall
<1>3. \A w \in Workers : OpTrue(call[w]) => OpTrue(call[w])'
  BY <1>1, TouchedShrinks DEF SameCalls
<1>4. ASSUME NEW m \in wire PROVE WireTrue(m)'
  <2>1. \A w \in Workers : Owns(w, m)' <=> Owns(w, m)
    BY DEF Owns, SameCalls, SameCall
  <2>2. CASE \E w \in Workers : Owns(w, m) /\ m.request = RequestOf(call[w])
    <3>1. PICK w \in Workers : Owns(w, m) /\ m.request = RequestOf(call[w])
      BY <2>2
    <3>2. RequestOf(call[w])' = RequestOf(call[w])
      BY CallStays DEF SameCalls
    <3> QED BY <2>1, <3>1, <3>2 DEF WireTrue
  <2>3. CASE (\A w \in Workers : ~Owns(w, m)) /\ \E op : OpTrue(op) /\ m.request = RequestOf(op) /\ Forsaken(op)
    <3>1. PICK op : OpTrue(op) /\ m.request = RequestOf(op) /\ Forsaken(op)
      BY <2>3
    <3>2. OpTrue(op)' /\ (op.method # "AddCard" => Touched(op)' = Touched(op))
      BY <1>1, <3>1, OpStays
    <3>3. Forsaken(op)'
      BY <3>1, <3>2 DEF Forsaken
    <3> QED BY <2>1, <2>3, <3>1, <3>2, <3>3 DEF WireTrue
  <2> QED BY <2>2, <2>3 DEF BInv, WireTrue
<1> QED BY <1>2, <1>3, <1>4

\* Steps in which the registry stays as it is, too.
LEMMA RegistryQuiet ==
    ASSUME BInv, UNCHANGED <<cards, believed>>, \A id \in Calls : outcome[id] = "unclear" => outcome'[id] = "unclear"
    PROVE  RegistryTyped' /\ (NothingLost' => NothingLost)
<1>1. ASSUME NEW c \in Cards PROVE BeliefTyped(c)'
  <2>1. BeliefTyped(c)
    BY DEF BInv, RegistryTyped
  <2>2. \A f \in Fields : believed'[c][f] = Unclear => \E id \in Calls : outcome'[id] = "unclear"
    BY <2>1 DEF BeliefTyped
  <2> QED BY <2>1, <2>2 DEF BeliefTyped, Known, Whole
<1>2. RegistryTyped'
  BY <1>1 DEF BInv, RegistryTyped
<1>3. NothingLost' => NothingLost
  BY DEF NothingLost, UnknownCards, Known
<1> QED BY <1>2, <1>3

LEMMA QuietStep ==
    ASSUME BInv, SameCalls, UNCHANGED <<cards, believed, executed, moved>>,
           \A id \in Calls : outcome[id] = "unclear" => outcome'[id] = "unclear"
    PROVE  /\ RegistryTyped' /\ CallsApart' /\ FieldsTrue'
           /\ \A m \in wire : WireTrue(m)'
           /\ \A w \in Workers : CountTrue(w)'
<1>1. RegistryTyped' /\ (NothingLost' => NothingLost)
  BY RegistryQuiet
<1>2. CallsApart' /\ \A m \in wire : WireTrue(m)'
  BY CallsQuiet
<1>3. \A w \in Workers : SameCall(w) /\ (Busy(w)' <=> Busy(w))
  BY DEF SameCalls
<1>4. \A w \in Workers : Carried(w)' <=> Carried(w)
  BY <1>3 DEF Carried, SameCall
<1>5. ASSUME NEW c \in Cards, NEW f \in Fields PROVE FieldTrue(c, f)'
  <2>1. FieldTrue(c, f)
    BY DEF BInv, FieldsTrue
  <2>2. \A w \in Workers : (Touches(w, c, f)' <=> Touches(w, c, f)) /\ Promised(call[w], c, f)' = Promised(call[w], c, f)
    BY SameTouched
  <2> QED BY <1>4, <2>1, <2>2 DEF FieldTrue
<1>6. ASSUME NEW w \in Workers PROVE CountTrue(w)'
  <2>1. CountTrue(w) /\ SameCall(w)
    BY <1>3 DEF BInv
  <2> QED BY <1>1, <1>3, <1>4, <2>1 DEF CountTrue, SameCall, BelievedOf
<1> QED BY <1>1, <1>2, <1>5, <1>6 DEF FieldsTrue

-----------------------------------------------------------------------------
(* A call returns.                                                         *)

LEMMA GotIs ==
    ASSUME NEW r, ReplyTrue(r), NEW got \in Arrivals(r)
    PROVE  got.count = r.count /\ got.card = r.card /\ got.rows = r.rows
<1>1. DOMAIN r = {"id", "code", "body", "count", "card", "rows"}
  BY DEF ReplyTrue
<1>2. CASE got = [r EXCEPT !.body = "unreadable"]
  BY <1>1, <1>2
<1>3. CASE got = [r EXCEPT !.code = 502, !.body = "nonJSON"]
  BY <1>1, <1>3
<1>4. CASE got = [r EXCEPT !.body = "badData"]
  BY <1>1, <1>4
<1> QED BY <1>2, <1>3, <1>4 DEF Arrivals

LEMMA ErrorTyped ==
    ASSUME NEW method, NEW got
    PROVE  ErrorOf(method, got) \in Errors
<1>1. RequestAPIError(got.code, got.body) \in Errors
  BY DEF RequestAPIError, ClassifyStatus, EnvelopeError, Errors, Sentinels, NoError
<1> QED BY <1>1 DEF ErrorOf, CallError, Errors

LEMMA NoResultTyped ==
    ASSUME NEW err \in Errors \cup {"NoPrices"}
    PROVE  /\ [NoResult EXCEPT !.err = err] \in ResultType
           /\ [NoResult EXCEPT !.err = err].err = err /\ [NoResult EXCEPT !.err = err].rows = {}
BY DEF NoResult, ResultType

\* A success hands on what the answer brought.
LEMMA ResultIs ==
    ASSUME NEW r, ReplyTrue(r), DataTyped(r), NEW got \in Arrivals(r), NEW method
    PROVE  LET res == ResultOf(method, got)
           IN  /\ res \in ResultType
               /\ res.err = NoError /\ method \in Decoding =>
                     r.code = 200 /\ res.count = r.count /\ res.card = r.card /\ res.rows = r.rows
               /\ res.err = "NoPrices" => method = "Prices" /\ r.code = 200 /\ r.rows = {} /\ res.rows = {}
<1> PICK res : res = ResultOf(method, got)
  OBVIOUS
<1> PICK err : err = ErrorOf(method, got)
  OBVIOUS
<1>1. \/ got.code = r.code /\ got.body = r.body
      \/ got.body = "unreadable"
      \/ got.code = 502 /\ got.body = "nonJSON"
      \/ got.code = r.code /\ got.body = "badData" /\ r.body = "goodData"
  BY Arrived
<1>2. got.count = r.count /\ got.card = r.card /\ got.rows = r.rows
  BY GotIs
<1>3. err \in Errors /\ err # "NoPrices"
  BY ErrorTyped DEF Errors, Sentinels, NoError
<1>4. ASSUME err = NoError PROVE got.body \in {"badData", "goodData"} /\ got.code = r.code
  <2>1. got.body # "unreadable"
    <3>1. ASSUME got.body = "unreadable" PROVE ErrorOf(method, got) = "ReadError"
      BY <3>1 DEF ErrorOf, CallError, RequestAPIError, NoError
    <3> QED BY <1>4, <3>1 DEF NoError
  <2>2. /\ got.body \in {"unreadable", "nonJSON", "statusFalse", "badData", "goodData"}
        /\ got.code \in {200, 400, 500, 502} \/ got.body = "unreadable"
    BY <1>1 DEF ReplyTrue
  <2>3. ErrorOf(method, got) = NoError => got.body \in {"badData", "goodData"}
    BY <2>1, <2>2, ErrorMeans
  <2> QED BY <1>1, <1>4, <2>3
<1>5. ASSUME err = NoError, method \in Decoding PROVE got.body = "goodData" /\ r.code = 200
  <2>1. got.body # "badData"
    <3>1. ASSUME got.body = "badData" PROVE ErrorOf(method, got) # NoError
      BY <1>5, <3>1 DEF ErrorOf, CallError, RequestAPIError, NoError
    <3> QED BY <1>5, <3>1
  <2>2. got.body = "goodData" /\ got.code = r.code
    BY <1>4, <1>5, <2>1
  <2>3. r.body = "goodData"
    BY <1>1, <2>2
  <2> QED BY <2>2, <2>3 DEF ReplyTrue
<1>6. CASE err = NoError /\ NothingFound(method, got)
  <2>1. res = [NoResult EXCEPT !.err = "NoPrices"]
    BY <1>6 DEF ResultOf
  <2>2. res \in ResultType /\ res.err = "NoPrices" /\ res.rows = {}
    BY <2>1, NoResultTyped
  <2>3. method = "Prices" /\ r.rows = {} /\ method \in Decoding
    BY <1>2, <1>6 DEF NothingFound, Decoding
  <2> QED BY <1>5, <1>6, <2>2, <2>3 DEF NoError
<1>7. CASE err = NoError /\ ~NothingFound(method, got) /\ got.body = "goodData"
  <2>1. res = [err |-> NoError, code |-> 0, count |-> got.count, card |-> got.card, rows |-> got.rows]
    BY <1>7 DEF ResultOf
  <2>2. res \in ResultType
    BY <1>2, <2>1 DEF ResultType, DataTyped, Errors
  <2>3. res.err = NoError /\ res.count = r.count /\ res.card = r.card /\ res.rows = r.rows
    BY <1>2, <2>1
  <2> QED BY <1>5, <1>7, <2>2, <2>3 DEF NoError
<1>8. CASE ~(err = NoError /\ (NothingFound(method, got) \/ got.body = "goodData"))
  <2> PICK code : code = IF IsAPIError(err) THEN got.code ELSE 0
    OBVIOUS
  <2>1. res = [NoResult EXCEPT !.err = err, !.code = code]
    BY <1>8 DEF ResultOf
  <2>2. code \in Nat
    <3>1. IsAPIError(err) => got.code \in Nat
      <4>1. ASSUME got.body = "unreadable" PROVE ErrorOf(method, got) = "ReadError"
        BY <4>1 DEF ErrorOf, CallError, RequestAPIError, NoError
      <4>2. got.body # "unreadable" => got.code \in Nat
        BY <1>1 DEF ReplyTrue
      <4> QED BY <4>1, <4>2 DEF IsAPIError
    <3> QED BY <3>1
  <2>3. res \in ResultType /\ res.err = err
    <3>1. res = [err |-> err, code |-> code, count |-> 0, card |-> Absent, rows |-> {}]
      BY <2>1 DEF NoResult
    <3> QED BY <1>3, <2>2, <3>1 DEF ResultType
  <2>4. ~(err = NoError /\ method \in Decoding)
    BY <1>5, <1>8
  <2> QED BY <1>3, <2>3, <2>4
<1> QED BY <1>6, <1>7, <1>8

LEMMA ReturnBInv ==
    ASSUME BInv, [Next]_vars, NEW w \in Workers, call[w].pc = "sent", NEW result \in ResultType, Return(w, result),
           result.err = NoError /\ call[w].method \in Decoding => DataTrue(call[w], result),
           result.err = "NoPrices" => call[w].method = "Prices" /\ result.rows = {} /\ call[w].due = {}
    PROVE  BInv'
<1> PICK c : c = [call[w] EXCEPT !.pc = "returned", !.result = result]
  OBVIOUS
<1>1. IInv' /\ OutcomesTrue' /\ \A id \in Calls : outcome[id] = "unclear" => outcome'[id] = "unclear"
  BY StepEffect, UnclearStays DEF BInv
<1>2. Busy(w)
  BY DEF Busy
<1>3. DOMAIN call[w] = CallFields /\ call[w].id \in Calls /\ OpTrue(call[w])
  BY <1>2, BusyFacts
<1>4. call' = [call EXCEPT ![w] = c] /\ UNCHANGED <<cards, executed, moved, believed, made, wire>>
  BY DEF Return, serverVars
<1>5. call' = [v \in Workers |-> IF v = w THEN c ELSE call[v]]
  BY <1>4 DEF BInv, IInv
<1>6. /\ c.pc = "returned" /\ c.result = result /\ c.id = call[w].id /\ c.method = call[w].method
      /\ c.client = call[w].client /\ c.arg = call[w].arg /\ c.due = call[w].due
  BY <1>3 DEF CallFields
<1>7. SameCalls
  BY <1>2, <1>5, <1>6 DEF SameCalls, SameCall, Busy
<1>8. /\ RegistryTyped' /\ CallsApart' /\ FieldsTrue'
      /\ \A m \in wire : WireTrue(m)'
      /\ \A v \in Workers : CountTrue(v)'
  BY <1>1, <1>4, <1>7, QuietStep
<1>9. \A v \in Workers : OpTrue(call[v]) => OpTrue(call[v])'
  BY <1>4, <1>7, CallsQuiet
<1>10. CallsTyped'
  <2>1. ASSUME NEW v \in Workers PROVE CallTyped(call[v])'
    <3>1. CallTyped(call[v])
      BY DEF BInv, CallsTyped
    <3>2. CASE v = w
      <4>1. OpTrue(call[w])'
        BY <1>3, <1>9
      <4> QED BY <1>2, <1>4, <1>5, <1>6, <3>1, <3>2, <4>1 DEF CallTyped, Busy
    <3>3. CASE v # w
      <4>1. call'[v] = call[v]
        BY <1>5, <3>3
      <4> QED BY <1>4, <1>9, <3>1, <4>1 DEF CallTyped
    <3> QED BY <3>2, <3>3
  <2> QED BY <1>4, <2>1 DEF BInv, CallsTyped
<1>11. \A v \in Workers : \A k : NewTrue(call[v], k)' <=> NewTrue(call[v], k)
  BY <1>4, <1>7, SameNew DEF SameCalls
<1>12. ASSUME NEW r \in replies' PROVE /\ DataTyped(r)
                                       /\ \E v \in Workers : Awaits(v, r)'
                                       /\ \A v \in Workers : Awaits(v, r)' /\ r.code = 200 => DataTrue(call[v], r)'
  <2>1. r \in replies /\ ~Awaits(w, r)
    BY DEF Return, RepliesWithout
  <2>2. /\ DataTyped(r) /\ \E v \in Workers : Awaits(v, r)
        /\ \A v \in Workers : Awaits(v, r) /\ r.code = 200 => DataTrue(call[v], r)
    BY <2>1 DEF BInv, RepliesGood
  <2>3. \A v \in Workers : Awaits(v, r)' => v # w
    BY <1>5, <1>6 DEF Awaits
  <2>4. \A v \in Workers \ {w} : call'[v] = call[v] /\ (Awaits(v, r)' <=> Awaits(v, r))
    BY <1>5 DEF Awaits
  <2>5. \A v \in Workers \ {w} : DataTrue(call[v], r) => DataTrue(call[v], r)'
    BY <1>4, <1>11, <2>4 DEF DataTrue
  <2> QED BY <2>1, <2>2, <2>3, <2>4, <2>5
<1>13. RepliesGood'
  BY <1>12 DEF RepliesGood, DataTyped
<1>14. ASSUME NEW v \in Workers PROVE ResultTrue(call[v])'
  <2>1. CASE v = w
    <3>1. outcome'[call[w].id] = OutcomeOf(result)
      BY <1>3 DEF Return, BInv, IInv
    <3>2. DataTrue(call[w], result) => DataTrue(call[w], result)'
      BY <1>4, <1>5, <1>6, <1>11 DEF DataTrue, DueTo
    <3>3. call'[w] = c
      BY <1>5
    <3> QED BY <1>6, <2>1, <3>1, <3>2, <3>3 DEF ResultTrue
  <2>2. CASE v # w
    <3>1. call'[v] = call[v]
      BY <1>5, <2>2
    <3>2. CASE call[v].pc # "returned"
      BY <3>1, <3>2 DEF ResultTrue
    <3>3. CASE call[v].pc = "returned"
      <4>1. ResultTrue(call[v]) /\ Busy(v)
        BY <3>3 DEF BInv, Busy
      <4>2. call[v].id # call[w].id /\ call[v].id \in Calls
        BY <1>2, <2>2, <4>1, BusyFacts DEF BInv, CallsApart
      <4>3. outcome'[call[v].id] = outcome[call[v].id]
        BY <4>2 DEF Return, BInv, IInv
      <4>4. DataTrue(call[v], call[v].result) => DataTrue(call[v], call[v].result)'
        BY <1>4, <1>11, <3>1 DEF DataTrue
      <4> QED BY <3>1, <4>1, <4>3, <4>4 DEF ResultTrue
    <3> QED BY <3>2, <3>3
  <2> QED BY <2>1, <2>2
<1> QED BY <1>1, <1>4, <1>8, <1>10, <1>13, <1>14 DEF BInv

LEMMA AbandonBInv ==
    ASSUME BInv, [Next]_vars, NEW w \in Workers, Abandon(w)
    PROVE  BInv'
<1> PICK result : result = [NoResult EXCEPT !.err = "TransportError"]
  OBVIOUS
<1>1. result \in ResultType /\ result.err = "TransportError"
  BY NoResultTyped DEF Errors
<1>2. call[w].pc = "sent" /\ Return(w, result)
  BY DEF Abandon
<1> QED BY <1>1, <1>2, ReturnBInv DEF NoError

LEMMA ReceiveBInv ==
    ASSUME BInv, [Next]_vars, NEW w \in Workers, Receive(w)
    PROVE  BInv'
<1>1. PICK r \in replies : Awaits(w, r) /\ \E got \in Arrivals(r) : Return(w, ResultOf(call[w].method, got))
  BY DEF Receive
<1>2. PICK got \in Arrivals(r) : Return(w, ResultOf(call[w].method, got))
  BY <1>1
<1> PICK result : result = ResultOf(call[w].method, got)
  OBVIOUS
<1>3. ReplyTrue(r) /\ DataTyped(r) /\ (r.code = 200 => DataTrue(call[w], r)) /\ call[w].pc = "sent"
  BY <1>1 DEF BInv, IInv, RepliesGood, Awaits
<1>4. /\ result \in ResultType
      /\ result.err = NoError /\ call[w].method \in Decoding =>
            r.code = 200 /\ result.count = r.count /\ result.card = r.card /\ result.rows = r.rows
      /\ result.err = "NoPrices" => call[w].method = "Prices" /\ r.code = 200 /\ r.rows = {} /\ result.rows = {}
  BY <1>3, ResultIs
<1>5. result.err = NoError /\ call[w].method \in Decoding => DataTrue(call[w], result)
  BY <1>3, <1>4 DEF DataTrue
<1>6. result.err = "NoPrices" => call[w].method = "Prices" /\ result.rows = {} /\ call[w].due = {}
  BY <1>3, <1>4 DEF DataTrue, DueTo, ReadMethods
<1> QED BY <1>2, <1>3, <1>4, <1>5, <1>6, ReturnBInv

-----------------------------------------------------------------------------
(* A call begins.                                                          *)

LEMMA OpIs ==
    ASSUME NEW method, NEW client, NEW arg
    PROVE  LET op == Op(method, client, arg) IN op.method = method /\ op.client = client /\ op.arg = arg
BY DEF Op

LEMMA CardOpsTrue ==
    ASSUME NEW c \in Cards, Known(c), NEW op \in CardOps(c)
    PROVE  OpTrue(op)
<1> DEFINE Ops(method, args) == Calling(c, method, args)
<1>1. \A client \in ClientsOf(c) : client.cardID = c
  BY DEF ClientsOf
<1> DEFINE known == believed[c]
           S1 == Ops("UpdateCardInfo", {u \in Updates : \A f \in DOMAIN u : u[f] # known[f]})
           S2 == Ops("DeleteCard", {""})
           S3 == Ops("SendPIN", {""})
           S4 == Ops("CardEnable", BOOLEAN \ {known.enabled})
           S5 == Ops("CardATM", BOOLEAN \ {known.atm})
           S6 == Ops("ChangePIN", Texts \ {known.pin})
           S7 == Ops("ChangePhone", Texts \ {known.phone})
           S8 == Ops("UpdateOwnership", Users \ {known.user_id})
<1>2. \/ op \in Ops("UpdateCardInfo", Updates)
      \/ op \in Ops("DeleteCard", {""}) \/ op \in Ops("SendPIN", {""})
      \/ op \in Ops("CardEnable", BOOLEAN) \/ op \in Ops("CardATM", BOOLEAN)
      \/ op \in Ops("ChangePIN", Texts) \/ op \in Ops("ChangePhone", Texts)
      \/ op \in Ops("UpdateOwnership", Users)
  <2>1. op \in UNION {S1, S2, S3, S4, S5, S6, S7, S8}
    BY DEF CardOps
  <2>2. /\ S1 \subseteq Ops("UpdateCardInfo", Updates)
        /\ S4 \subseteq Ops("CardEnable", BOOLEAN) /\ S5 \subseteq Ops("CardATM", BOOLEAN)
        /\ S6 \subseteq Ops("ChangePIN", Texts) /\ S7 \subseteq Ops("ChangePhone", Texts)
        /\ S8 \subseteq Ops("UpdateOwnership", Users)
    BY DEF Calling
  <2> HIDE DEF S1, S4, S5, S6, S7, S8, Ops
  <2> QED BY <2>1, <2>2 DEF S2, S3
<1>3. ASSUME NEW method \in CardMethods, op \in Ops(method, ArgsOf(method)) PROVE OpTrue(op)
  <2>1. op.method = method /\ op.client \in ClientsOf(c) /\ op.arg \in ArgsOf(method)
    BY <1>3, OpIs DEF Calling
  <2> QED BY <1>1, <1>3, <2>1 DEF OpTrue
<1>4. /\ ArgsOf("UpdateCardInfo") = Updates /\ ArgsOf("DeleteCard") = {""} /\ ArgsOf("SendPIN") = {""}
      /\ ArgsOf("CardEnable") = BOOLEAN /\ ArgsOf("CardATM") = BOOLEAN
      /\ ArgsOf("ChangePIN") = Texts /\ ArgsOf("ChangePhone") = Texts /\ ArgsOf("UpdateOwnership") = Users
  BY DEF ArgsOf
<1> HIDE DEF Ops
<1> QED BY <1>2, <1>3, <1>4 DEF CardMethods

LEMMA ServiceOpsTrue ==
    ASSUME NEW op \in ServiceOps
    PROVE  OpTrue(op)
<1> DEFINE S1 == UNION {CardOps(c) : c \in {c \in Cards : Known(c)}}
           S2 == {Op("AddCard", [userID |-> Owner, cardID |-> NoId], i) : i \in Infos}
           S3 == {Op("UpdateUserOwnership", [userID |-> Owner, cardID |-> NoId], u) : u \in Users \ {Owner}}
           S4 == {Op("GetCardInfo", client, "") : client \in Scopes}
           S5 == {Op("GetCardLedgers", client, LedgerPage) : client \in Scopes}
           S6 == {Op("Prices", [userID |-> NoId, cardID |-> NoId], q) : q \in PriceFilters}
<1>1. CASE op \in S1
  BY <1>1, CardOpsTrue
<1>2. CASE op \in S2
  BY <1>2, OpIs, Admin DEF OpTrue
<1>3. CASE op \in S3
  BY <1>3, OpIs, Admin DEF OpTrue
<1>4. CASE op \in S4
  <2>1. PICK client \in Scopes : op = Op("GetCardInfo", client, "")
    BY <1>4
  <2>2. op.method = "GetCardInfo" /\ op.client = client
    BY <2>1 DEF Op
  <2> QED BY <2>2 DEF OpTrue
<1>5. CASE op \in S5
  BY <1>5, OpIs DEF OpTrue
<1>6. CASE op \in S6
  BY <1>6, OpIs DEF OpTrue
<1>7. ServiceOps = S1 \cup S2 \cup S3 \cup S4 \cup S5 \cup S6
  BY Zenon DEF ServiceOps
<1> HIDE DEF S1, S2, S3, S4, S5, S6
<1> QED BY <1>1, <1>2, <1>3, <1>4, <1>5, <1>6, <1>7

LEMMA IdleDue == IdleCall.due = {}
<1>1. \A none : [pc |-> "idle", id |-> 0, method |-> "none", arg |-> "", due |-> none,
                client |-> [userID |-> NoId, cardID |-> NoId], result |-> NoResult].due = none
  OBVIOUS
<1> QED BY <1>1, Zenon DEF IdleCall

\* Call made + 1 is not in anyone's hands yet.
LEMMA EnterBInv ==
    ASSUME BInv, [Next]_vars, NEW w \in Workers, NEW op \in ServiceOps, NEW pc \in {"sent", "returned"},
           NEW result \in ResultType, Enter(w, op, pc, result),
           UNCHANGED <<serverVars, believed, replies>>,
           outcome' = [outcome EXCEPT ![made + 1] = IF pc = "sent" THEN "open" ELSE OutcomeOf(result)],
           pc = "returned" => result.err \notin {NoError, "NoPrices"},
           \A m \in wire' : m \in wire \/ (pc = "sent" /\ m.id = made + 1 /\ m.request = RequestOf(op))
    PROVE  BInv'
<1> PICK next : next = made + 1
  OBVIOUS
<1> PICK c : c = [IdleCall EXCEPT !.pc = pc, !.id = next, !.method = op.method,
                                  !.client = op.client, !.arg = op.arg, !.result = result]
  OBVIOUS
<1>1. IInv' /\ OutcomesTrue' /\ \A id \in Calls : outcome[id] = "unclear" => outcome'[id] = "unclear"
  BY StepEffect, UnclearStays DEF BInv
<1>2. UNCHANGED <<cards, executed, moved, believed, replies>> /\ made' = made + 1 /\ ~Busy(w) /\ made < MaxCalls
  BY DEF Enter, serverVars
<1>3. /\ c.pc = pc /\ c.id = made + 1 /\ c.method = op.method /\ c.client = op.client /\ c.arg = op.arg
      /\ c.result = result /\ c.due = {}
  <2> PICK none : none = {}
    OBVIOUS
  <2>1. c = [pc |-> pc, id |-> next, method |-> op.method, arg |-> op.arg, due |-> none,
             client |-> op.client, result |-> result]
    BY DEF IdleCall
  <2>2. c.pc = pc
    BY <2>1
  <2>4. c.id = next
    BY <2>1
  <2>5. c.result = result
    BY <2>1
  <2>6. c.due = none
    <3>1. IdleCall.due = none
      BY IdleDue
    <3>2. DOMAIN IdleCall = CallFields
      BY DEF IdleCall, CallFields
    <3> QED BY <3>1, <3>2 DEF CallFields
  <2>3. c.method = op.method /\ c.client = op.client /\ c.arg = op.arg
    BY <2>1
  <2> QED BY <2>2, <2>3, <2>4, <2>5, <2>6
<1>4. call' = [v \in Workers |-> IF v = w THEN c ELSE call[v]]
  BY DEF Enter, BInv, IInv
<1>5. call'[w] = c /\ \A v \in Workers : v # w => call'[v] = call[v]
  BY <1>4
<1>6. made \in 0..MaxCalls /\ MaxCalls \in Nat /\ made + 1 \in Calls /\ made + 1 \in 1..made' /\ Calls = 1..MaxCalls
  BY <1>2, Bounds DEF BInv, IInv
<1>7. \A v \in Workers : Busy(v) => v # w /\ call[v].id \in 1..made /\ call[v].id \in Calls /\ call[v].id # made + 1
  <2>1. \A id \in 1..made : id # made + 1
    BY <1>6
  <2> QED BY <1>2, <2>1, BusyFacts
<1>8. executed[made + 1] = 0
  BY <1>6 DEF BInv, IInv
<1>9. OpTrue(op) /\ OpTrue(c)
  BY <1>3, ServiceOpsTrue, SameOp
<1>10. KnownGrows
  BY <1>2 DEF KnownGrows, Known
<1>11. Touched(c) = Touched(op) /\ Concerns(c) = Concerns(op) /\ RequestOf(c) = RequestOf(op)
  BY <1>3, SameOp
<1>12. RegistryTyped' /\ (NothingLost' => NothingLost)
  BY <1>1, <1>2, RegistryQuiet
<1>13. \A v \in Workers : v # w => (Busy(v)' <=> Busy(v))
  BY <1>5 DEF Busy
<1>14. ASSUME NEW v \in Workers, Busy(v), v # w
       PROVE  /\ SameCall(v) /\ Touched(call[v])' = Touched(call[v]) /\ Concerns(call[v])' = Concerns(call[v])
              /\ RequestOf(call[v])' = RequestOf(call[v]) /\ (OpTrue(call[v]) => OpTrue(call[v])')
              /\ \A d \in Cards : \A f : Promised(call[v], d, f)' = Promised(call[v], d, f)
  <2>1. SameCall(v)
    BY <1>5, <1>14 DEF SameCall
  <2>2. RequestOf(call[v])' = RequestOf(call[v]) /\ Intended(call[v])' = Intended(call[v])
    BY <2>1, CallStays
  <2>3. \A d \in Cards : \A f : Promised(call[v], d, f)' = Promised(call[v], d, f)
    BY <1>2, <2>1, CallStays
  <2>4. Touched(call[v])' = Touched(call[v])
    BY <1>2, <2>1, <2>2 DEF Touched, SameCall, Known
  <2>5. Concerns(call[v])' = Concerns(call[v])
    BY <2>1, <2>4 DEF Concerns, SameCall
  <2>6. OpTrue(call[v]) => OpTrue(call[v])'
    BY <1>10, <2>1, TouchedShrinks
  <2> QED BY <2>1, <2>2, <2>3, <2>4, <2>5, <2>6
<1>15. /\ Touched(call[w])' = Touched(op) /\ Concerns(call[w])' = Concerns(op)
       /\ RequestOf(call[w])' = RequestOf(op) /\ OpTrue(call[w])'
  <2>1. /\ call'[w].method = op.method /\ call'[w].client = op.client /\ call'[w].arg = op.arg
    BY <1>3, <1>5
  <2>2. Intended(call[w])' = Intended(op)
    BY <2>1 DEF Intended
  <2>3. Touched(call[w])' = Touched(op)
    BY <1>2, <2>1, <2>2 DEF Touched, Known
  <2>4. Concerns(call[w])' = Concerns(op)
    BY <2>1, <2>3 DEF Concerns
  <2>5. RequestOf(call[w])' = RequestOf(op)
    BY <2>1 DEF RequestOf
  <2>6. OpTrue(call[w])'
    BY <1>2, <1>9, <2>1 DEF OpTrue, Known
  <2> QED BY <2>3, <2>4, <2>5, <2>6
<1>16. CallsTyped'
  <2>1. CallTyped(call[w])'
    BY <1>3, <1>5, <1>6, <1>15 DEF CallTyped
  <2>2. ASSUME NEW v \in Workers, v # w PROVE CallTyped(call[v])'
    <3>1. CallTyped(call[v]) /\ call'[v] = call[v]
      BY <1>5, <2>2 DEF BInv, CallsTyped
    <3>2. call[v].pc # "idle" => OpTrue(call[v])'
      BY <1>14, <2>2, <3>1 DEF CallTyped, Busy
    <3>3. call[v].id \in 0..made'
      BY <1>2, <1>6, <3>1 DEF CallTyped
    <3> QED BY <3>1, <3>2, <3>3 DEF CallTyped
  <2> QED BY <1>2, <2>1, <2>2 DEF BInv, CallsTyped
<1>17. CallsApart'
  <2>1. ASSUME NEW u \in Workers, NEW v \in Workers, u # v, u # w, v # w, Busy(u)', Busy(v)'
        PROVE  call'[u].id # call'[v].id /\ Concerns(call[u])' \cap Concerns(call[v])' = {}
    <3>1. Busy(u) /\ Busy(v)
      BY <1>13, <2>1
    <3>2. call[u].id # call[v].id /\ Concerns(call[u]) \cap Concerns(call[v]) = {}
      BY <2>1, <3>1 DEF BInv, CallsApart
    <3> QED BY <1>5, <1>14, <2>1, <3>1, <3>2
  <2>2. ASSUME NEW v \in Workers, v # w, Busy(v)'
        PROVE  /\ call'[v].id # call'[w].id /\ Concerns(call[w])' \cap Concerns(call[v])' = {}
               /\ Concerns(call[v])' \cap Concerns(call[w])' = {}
    <3>1. Busy(v)
      BY <1>13, <2>2
    <3>2. call[v].id # made + 1 /\ call'[v].id = call[v].id /\ call'[w].id = made + 1
      BY <1>3, <1>5, <1>7, <2>2, <3>1
    <3>3. Concerns(op) \cap Concerns(call[v]) = {}
      BY <3>1 DEF Enter
    <3> QED BY <1>14, <1>15, <2>2, <3>1, <3>2, <3>3
  <2> QED BY <2>1, <2>2 DEF CallsApart
<1>18. \A m \in wire : m.id \in 1..made
  BY DEF BInv, IInv, RequestTrue
<1>19. ASSUME NEW m \in wire PROVE WireTrue(m)'
  <2>1. m.id # made + 1
    BY <1>6, <1>18
  <2>2. ~Owns(w, m) /\ ~Owns(w, m)'
    BY <1>2, <1>3, <1>5, <2>1 DEF Owns
  <2>3. \A v \in Workers : v # w => (Owns(v, m)' <=> Owns(v, m))
    BY <1>5, <1>13 DEF Owns
  <2>4. CASE \E v \in Workers : Owns(v, m) /\ m.request = RequestOf(call[v])
    <3>1. PICK v \in Workers : Owns(v, m) /\ m.request = RequestOf(call[v])
      BY <2>4
    <3>2. RequestOf(call[v])' = RequestOf(call[v]) /\ v # w
      BY <1>14, <2>2, <3>1 DEF Owns
    <3> QED BY <2>3, <3>1, <3>2 DEF WireTrue
  <2>5. CASE (\A v \in Workers : ~Owns(v, m)) /\ \E o : OpTrue(o) /\ m.request = RequestOf(o) /\ Forsaken(o)
    <3>1. PICK o : OpTrue(o) /\ m.request = RequestOf(o) /\ Forsaken(o)
      BY <2>5
    <3>2. OpTrue(o)' /\ (o.method # "AddCard" => Touched(o)' = Touched(o))
      BY <1>10, <3>1, OpStays
    <3>3. Forsaken(o)'
      BY <1>2, <3>1, <3>2 DEF Forsaken
    <3> QED BY <2>2, <2>3, <2>5, <3>1, <3>2, <3>3 DEF WireTrue
  <2> QED BY <2>4, <2>5 DEF BInv, WireTrue
<1>20. ASSUME NEW m \in wire' PROVE WireTrue(m)'
  <2>1. CASE m \notin wire
    <3>1. pc = "sent" /\ m.id = made + 1 /\ m.request = RequestOf(op)
      BY <1>20, <2>1
    <3>2. Owns(w, m)'
      BY <1>3, <1>5, <3>1 DEF Owns, Busy
    <3> QED BY <1>15, <3>1, <3>2 DEF WireTrue
  <2> QED BY <1>19, <2>1
<1>21. ~Carried(w)'
  BY <1>2, <1>3, <1>5, <1>8 DEF Carried
<1>22. \A v \in Workers : v # w => (Carried(v)' <=> Carried(v))
  BY <1>2, <1>5 DEF Carried
<1>23. \A d \in Cards, f \in Fields : \A v \in Workers : v # w => (Touches(v, d, f)' <=> Touches(v, d, f))
  BY <1>13, <1>14 DEF Touches
<1>24. ASSUME NEW d \in Cards, NEW f \in Fields PROVE FieldTrue(d, f)'
  <2>1. FieldTrue(d, f)
    BY DEF BInv, FieldsTrue
  <2>2. ~Touches(w, d, f)
    BY <1>2 DEF Touches
  <2>3. \A v \in Workers : v # w /\ Touches(v, d, f)' => Promised(call[v], d, f)' = Promised(call[v], d, f)
    BY <1>13, <1>14 DEF Touches
  <2>4. ASSUME believed[d][f] \notin {Absent, Unclear}, NEW v \in Workers, Touches(v, d, f)', Carried(v)'
        PROVE  Promised(call[v], d, f)' \in {cards[d][f], Unclear}
    <3>1. v # w
      BY <1>21, <2>4
    <3>2. Touches(v, d, f) /\ Carried(v)
      BY <1>22, <1>23, <2>4, <3>1
    <3> QED BY <2>1, <2>3, <2>4, <3>1, <3>2 DEF FieldTrue
  <2>5. ASSUME believed[d][f] \notin {Absent, Unclear}, \A v \in Workers : Touches(v, d, f)' => ~Carried(v)'
        PROVE  cards[d][f] = believed[d][f]
    <3>1. \A v \in Workers : Touches(v, d, f) => ~Carried(v)
      BY <1>22, <1>23, <2>2, <2>5
    <3> QED BY <2>1, <2>5, <3>1 DEF FieldTrue
  <2> QED BY <1>2, <2>4, <2>5 DEF FieldTrue
<1>25. \A r \in replies : r.id # made + 1
  BY <1>6 DEF BInv, IInv, ReplyTrue
<1>26. ASSUME NEW v \in Workers, v # w, NEW k PROVE NewTrue(call[v], k)' <=> NewTrue(call[v], k)
  <2>1. SameCall(v)
    BY <1>5, <1>26 DEF SameCall
  <2> QED BY <1>2, <2>1, SameNew
<1>27. \A r \in replies : \A v \in Workers : IF v = w THEN ~Awaits(v, r)' /\ ~Awaits(v, r) ELSE Awaits(v, r)' <=> Awaits(v, r)
  BY <1>2, <1>3, <1>5, <1>25 DEF Awaits, Busy
<1>28. ASSUME NEW r \in replies PROVE /\ DataTyped(r)
                                      /\ \E v \in Workers : Awaits(v, r)'
                                      /\ \A v \in Workers : Awaits(v, r)' /\ r.code = 200 => DataTrue(call[v], r)'
  <2>1. /\ DataTyped(r) /\ \E v \in Workers : Awaits(v, r)
        /\ \A v \in Workers : Awaits(v, r) /\ r.code = 200 => DataTrue(call[v], r)
    BY DEF BInv, RepliesGood
  <2>2. \A v \in Workers : v # w => (DataTrue(call[v], r) => DataTrue(call[v], r)')
    BY <1>2, <1>5, <1>26 DEF DataTrue
  <2> QED BY <1>27, <2>1, <2>2
<1>29. RepliesGood'
  BY <1>2, <1>28 DEF RepliesGood, DataTyped
<1>30. ResultTrue(call[w])'
  <2>1. pc = "returned" => outcome'[made + 1] = OutcomeOf(result)
    BY <1>6 DEF BInv, IInv
  <2> QED BY <1>3, <1>5, <2>1 DEF ResultTrue
<1>31. ASSUME NEW v \in Workers, v # w PROVE ResultTrue(call[v])'
  <2>1. call'[v] = call[v] /\ ResultTrue(call[v])
    BY <1>5, <1>31 DEF BInv
  <2>2. CASE call[v].pc = "returned"
    <3>1. call[v].id # made + 1 /\ call[v].id \in Calls
      BY <1>7, <2>2 DEF Busy
    <3>2. outcome'[call[v].id] = outcome[call[v].id]
      BY <3>1 DEF BInv, IInv
    <3>3. DataTrue(call[v], call[v].result) => DataTrue(call[v], call[v].result)'
      BY <1>2, <1>26, <1>31, <2>1 DEF DataTrue
    <3> QED BY <2>1, <2>2, <3>2, <3>3 DEF ResultTrue
  <2> QED BY <2>1, <2>2 DEF ResultTrue
<1>32. ASSUME NEW v \in Workers PROVE CountTrue(v)'
  <2>1. CASE v = w
    BY <1>21, <2>1 DEF CountTrue
  <2>2. CASE v # w
    <3>1. CountTrue(v) /\ call'[v] = call[v]
      BY <1>5, <2>2 DEF BInv
    <3> QED BY <1>2, <1>12, <1>13, <1>22, <2>2, <3>1 DEF CountTrue, BelievedOf
  <2> QED BY <2>1, <2>2
<1> QED BY <1>1, <1>12, <1>16, <1>17, <1>20, <1>24, <1>29, <1>30, <1>31, <1>32 DEF BInv, FieldsTrue

LEMMA CallBInv ==
    ASSUME BInv, [Next]_vars, NEW w \in Workers, NEW op \in ServiceOps, Call(w, op)
    PROVE  BInv'
<1>1. NoResult \in ResultType
  <2>1. [NoResult EXCEPT !.err = NoError] = NoResult
    BY DEF NoResult
  <2> QED BY <2>1, NoResultTyped DEF Errors
<1>2. Enter(w, op, "sent", NoResult) /\ UNCHANGED <<serverVars, believed, replies>>
  BY DEF Call
<1>3. outcome' = [outcome EXCEPT ![made + 1] = "open"]
  BY DEF Call
<1>4. wire' = wire \cup {[id |-> made + 1, conn |-> 0, request |-> RequestOf(op)]}
  BY DEF Call, Connections
<1>5. \A m \in wire' : m \in wire \/ (m.id = made + 1 /\ m.request = RequestOf(op))
  BY <1>4
<1> QED BY <1>1, <1>2, <1>3, <1>5, EnterBInv

LEMMA FailBInv ==
    ASSUME BInv, [Next]_vars, NEW w \in Workers, NEW op \in ServiceOps, FailLocally(w, op)
    PROVE  BInv'
<1> PICK result : result = [NoResult EXCEPT !.err = "LocalError"]
  OBVIOUS
<1>1. result \in ResultType /\ result.err = "LocalError"
  BY NoResultTyped DEF Errors
<1>2. OutcomeOf(result) = "refused"
  BY <1>1 DEF OutcomeOf, Refuses, NoError
<1>3. Enter(w, op, "returned", result) /\ UNCHANGED <<serverVars, believed, replies, wire>>
  BY DEF FailLocally
<1>4. outcome' = [outcome EXCEPT ![made + 1] = OutcomeOf(result)]
  BY <1>2 DEF FailLocally
<1> QED BY <1>1, <1>3, <1>4, EnterBInv DEF NoError

-----------------------------------------------------------------------------
(* IBS carries out a request.                                              *)

\* The call a request is of; if nobody is in it any more, it is forsaken.
Sender(m, op) == /\ \A w \in Workers : Owns(w, m) => op = call[w]
                 /\ (\A w \in Workers : ~Owns(w, m)) => Forsaken(op)

LEMMA HasSender ==
    ASSUME BInv, NEW m \in wire
    PROVE  \E op : OpTrue(op) /\ m.request = RequestOf(op) /\ Sender(m, op)
<1>1. WireTrue(m)
  BY DEF BInv
<1>2. CASE \E w \in Workers : Owns(w, m) /\ m.request = RequestOf(call[w])
  <2>1. PICK w \in Workers : Owns(w, m) /\ m.request = RequestOf(call[w])
    BY <1>2
  <2>2. OpTrue(call[w])
    BY <2>1, BusyFacts DEF Owns
  <2>3. \A v \in Workers : Owns(v, m) => v = w
    BY <2>1 DEF Owns, BInv, CallsApart
  <2> QED BY <2>1, <2>2, <2>3 DEF Sender
<1>3. CASE (\A w \in Workers : ~Owns(w, m)) /\ \E op : OpTrue(op) /\ m.request = RequestOf(op) /\ Forsaken(op)
  BY <1>3 DEF Sender
<1> QED BY <1>1, <1>2, <1>3 DEF WireTrue

\* The endpoint tells the method.
LEMMA MethodOf ==
    ASSUME NEW op, OpTrue(op)
    PROVE  LET q == RequestOf(op)
           IN  /\ q.endpoint = "/card/add" => op.method = "AddCard"
               /\ q.endpoint = "/card/update/ownership/user" => op.method = "UpdateUserOwnership"
               /\ q.endpoint \in {"/card/get", "/card/ledgers", "/card/prices"} => op.method \in ReadMethods
               /\ "card_id" \in DOMAIN q.body => op.method \in CardMethods
<1> PICK q : q = RequestOf(op)
  OBVIOUS
<1>1. CASE op.method \in CardMethods
  <2>1. op.arg \in ArgsOf(op.method)
    BY <1>1 DEF OpTrue, CardMethods
  <2>2. q.endpoint \in CardEndpoints
    BY <1>1, <2>1, CardRequestMeans
  <2> QED BY <1>1, <2>2 DEF CardEndpoints
<1>2. CASE op.method = "AddCard"
  <2>1. q.endpoint = "/card/add" /\ "card_id" \notin DOMAIN q.body
    BY <1>2, AddRequestMeans
  <2> QED BY <1>2, <2>1
<1>3. CASE op.method = "UpdateUserOwnership"
  <2>1. q.endpoint = "/card/update/ownership/user" /\ "card_id" \notin DOMAIN q.body
    BY <1>3, TransferRequestMeans
  <2> QED BY <1>3, <2>1
<1>4. CASE op.method \in ReadMethods
  <2>1. "card_id" \notin DOMAIN q.body
    BY <1>4, ReadRequestMeans
  <2>2. q.endpoint \in {"/card/get", "/card/ledgers", "/card/prices"}
    BY <1>4, ReadRequestMeans DEF ReadMethods
  <2> QED BY <1>4, <2>1, <2>2
<1> QED BY <1>1, <1>2, <1>3, <1>4, AllMethods

\* What becomes of the registry when op is carried out: cards stay registered,
\* and of a registered card only the fields of op change.
Kept(op, registry) ==
    /\ registry = [c \in Cards |-> registry[c]]
    /\ \A c \in Cards : /\ registry[c] # Absent => registry[c] \in CardType
                        /\ cards[c] # Absent => registry[c] # Absent
    /\ \A c \in Cards, f \in Fields :
          cards[c] # Absent /\ registry[c][f] # cards[c][f] => op.method # "AddCard" /\ <<c, f>> \in Touched(op)

Trusted(c, f) == believed[c][f] \notin {Absent, Unclear}

LEMMA TrustedIsKnown ==
    ASSUME BInv, NEW c \in Cards, NEW f \in Fields, Trusted(c, f)
    PROVE  Known(c) /\ cards[c] # Absent /\ cards[c] \in CardType
BY DEF BInv, RegistryTyped, BeliefTyped, Trusted

\* Fields that a call not carried out is concerned with are as the service takes
\* them to be.
LEMMA NotYet ==
    ASSUME BInv, NEW w \in Workers, Busy(w), ~Carried(w), NEW c \in Cards, NEW f \in Fields,
           Trusted(c, f), <<c, f>> \in Concerns(call[w])
    PROVE  cards[c][f] = believed[c][f]
<1>1. \A v \in Workers : v # w => ~Touches(v, c, f)
  <2> SUFFICES ASSUME NEW v \in Workers, v # w, Busy(v) PROVE <<c, f>> \notin Touched(call[v])
    BY DEF Touches
  <2>1. Concerns(call[v]) \cap Concerns(call[w]) = {}
    BY DEF BInv, CallsApart
  <2>2. Touched(call[v]) \subseteq Concerns(call[v])
    BY TouchedIs
  <2> QED BY <2>1, <2>2
<1> QED BY <1>1 DEF BInv, FieldsTrue, FieldTrue, Trusted

\* What op promised is in the registry, where the service trusts it.
Fulfilled(op, registry) ==
    \A c \in Cards, f \in Fields :
        Trusted(c, f) /\ <<c, f>> \in Touched(op) => Promised(op, c, f) \in {registry[c][f], Unclear}

LEMMA CarryBInv ==
    ASSUME BInv, [Next]_vars, NEW m \in wire, NEW op, OpTrue(op), Sender(m, op),
           NEW registry, Kept(op, registry), NEW data, DataTyped(data), CarryOut(m, registry, data), SameCalls,
           \A w \in Workers : /\ call'[w].pc = call[w].pc /\ call'[w].result = call[w].result
                              /\ ~Awaits(w, m) => call'[w].due = call[w].due
                              /\ call'[w].due \subseteq RowType,
           Fulfilled(op, registry),
           \A w \in Workers : Owns(w, m) /\ op.method = "UpdateUserOwnership" /\ NothingLost =>
                              data.count = Cardinality(BelievedOf(op.client.userID)),
           op.method = "AddCard" => NewTrue(op, data.card)',
           \A w \in Workers : Awaits(w, m) /\ op.method \in ReadMethods
                              => data.rows = DueTo(call'[w])
    PROVE  BInv'
<1> PICK a : a = [id |-> m.id, code |-> 200, body |-> "goodData",
                  count |-> data.count, card |-> data.card, rows |-> data.rows]
  OBVIOUS
<1>1. IInv' /\ OutcomesTrue' /\ IInv
  BY StepEffect, UnclearStays DEF BInv
<1>2. /\ cards' = registry /\ UNCHANGED <<believed, made, outcome>>
      /\ wire' = wire \ {m} /\ replies' \subseteq replies \cup {a}
      /\ a \in replies' /\ a \notin replies => \E w \in Workers : Awaits(w, m)
  BY DEF CarryOut, Answer
<1>3. m.id \in Calls /\ executed[m.id] = 0
  BY <1>1, Bounds DEF IInv, RequestTrue
<1>4. moved \in [Calls -> Nat] /\ moved[m.id] = 0 /\ data.count \in Nat
  BY <1>3 DEF BInv, CallsTyped, DataTyped
<1>5. /\ executed' = [executed EXCEPT ![m.id] = 1] /\ executed'[m.id] = 1
      /\ \A id \in Calls \ {m.id} : executed'[id] = executed[id]
  BY <1>1, <1>3 DEF CarryOut, IInv
<1>6. /\ moved' \in [Calls -> Nat] /\ moved'[m.id] = data.count
      /\ \A id \in Calls \ {m.id} : moved'[id] = moved[id]
  <2>1. moved' = [moved EXCEPT ![m.id] = data.count]
    <3>1. moved[m.id] + data.count = data.count
      BY <1>4
    <3> QED BY <3>1 DEF CarryOut
  <2> QED BY <1>3, <1>4, <2>1
<1>7. \A w \in Workers : SameCall(w) /\ (Busy(w)' <=> Busy(w))
  BY DEF SameCalls
<1>8. /\ CallsApart' /\ \A w \in Workers : OpTrue(call[w]) => OpTrue(call[w])'
      /\ \A n \in wire : WireTrue(n)'
  BY <1>2, CallsQuiet
<1>9. \A c \in Cards : cards[c] # Absent => cards'[c] # Absent
  BY <1>2 DEF Kept
<1>10. NothingLost' => NothingLost
  BY <1>2, <1>9 DEF NothingLost, UnknownCards, Known
<1>11. RegistryTyped'
  <2>1. ASSUME NEW c \in Cards PROVE BeliefTyped(c)'
    <3>1. BeliefTyped(c)
      BY DEF BInv, RegistryTyped
    <3> QED BY <1>2, <1>9, <3>1 DEF BeliefTyped, Known, Whole
  <2> QED BY <1>2, <2>1 DEF BInv, RegistryTyped, Kept
<1>12. CallsTyped'
  <2>1. ASSUME NEW w \in Workers PROVE CallTyped(call[w])'
    <3>1. CallTyped(call[w])
      BY DEF BInv, CallsTyped
    <3>2. OpTrue(call[w]) => OpTrue(call[w])'
      BY <1>8
    <3>3. call'[w].id = call[w].id
      BY <1>7 DEF SameCall
    <3> QED BY <1>2, <3>1, <3>2, <3>3 DEF CallTyped
  <2>2. \A id \in Calls : executed'[id] = 0 => moved'[id] = 0
    BY <1>5, <1>6 DEF BInv, CallsTyped
  <2> QED BY <1>6, <2>1, <2>2 DEF CallsTyped
<1>13. ASSUME NEW w \in Workers, Busy(w), ~Owns(w, m)
       PROVE  call[w].id \in Calls \ {m.id} /\ (Carried(w)' <=> Carried(w)) /\ moved'[call[w].id] = moved[call[w].id]
  <2>1. call[w].id \in Calls \ {m.id}
    BY <1>13, BusyFacts DEF Owns
  <2> QED BY <1>5, <1>6, <1>7, <2>1 DEF Carried, SameCall
<1>14. ASSUME NEW w \in Workers, Owns(w, m)
       PROVE  Busy(w) /\ op = call[w] /\ ~Carried(w) /\ Carried(w)' /\ moved'[call[w].id] = data.count
  BY <1>3, <1>5, <1>6, <1>7, <1>14 DEF Sender, Owns, Carried, SameCall
\* Fields that others may write, or that nobody may write, stay as they are.
<1>15. ASSUME NEW c \in Cards, NEW f \in Fields, cards[c] # Absent,
              \/ \E v \in Workers : Busy(v) /\ ~Owns(v, m) /\ <<c, f>> \in Concerns(call[v])
              \/ \A v \in Workers : Touches(v, c, f) => ~Owns(v, m)
       PROVE  cards'[c][f] = cards[c][f] \/ believed[c][f] = Unclear
  <2> SUFFICES ASSUME cards'[c][f] # cards[c][f] PROVE believed[c][f] = Unclear
    OBVIOUS
  <2>1. op.method # "AddCard" /\ <<c, f>> \in Touched(op)
    BY <1>2, <1>15 DEF Kept
  <2>2. ASSUME NEW w \in Workers, Owns(w, m) PROVE FALSE
    <3>1. Busy(w) /\ op = call[w]
      BY <1>14, <2>2
    <3>2. <<c, f>> \in Concerns(call[w])
      BY <2>1, <3>1, TouchedIs
    <3>3. Touches(w, c, f)
      BY <2>1, <3>1 DEF Touches
    <3>4. PICK v \in Workers : Busy(v) /\ ~Owns(v, m) /\ <<c, f>> \in Concerns(call[v])
      BY <1>15, <2>2, <3>3
    <3>5. Concerns(call[v]) \cap Concerns(call[w]) = {}
      BY <2>2, <3>1, <3>4 DEF BInv, CallsApart
    <3> QED BY <3>2, <3>4, <3>5
  <2>3. Forsaken(op)
    BY <2>2 DEF Sender
  <2> QED BY <2>1, <2>3 DEF Forsaken
<1>16. ASSUME NEW c \in Cards, NEW f \in Fields PROVE FieldTrue(c, f)'
  <2>1. \A w \in Workers : (Touches(w, c, f)' <=> Touches(w, c, f)) /\ Promised(call[w], c, f)' = Promised(call[w], c, f)
    BY <1>2, SameTouched
  <2> SUFFICES ASSUME Trusted(c, f)
               PROVE  /\ \A w \in Workers : Touches(w, c, f) /\ Carried(w)' => Promised(call[w], c, f) \in {cards'[c][f], Unclear}
                      /\ (\A w \in Workers : Touches(w, c, f) => ~Carried(w)') => cards'[c][f] = believed[c][f]
    BY <1>2, <2>1 DEF FieldTrue, Trusted
  <2>2. cards[c] # Absent /\ believed[c][f] # Unclear
    BY TrustedIsKnown DEF Trusted
  <2>3. FieldTrue(c, f)
    BY DEF BInv, FieldsTrue
  <2>4. ASSUME NEW w \in Workers, Touches(w, c, f), Carried(w)'
        PROVE  Promised(call[w], c, f) \in {cards'[c][f], Unclear}
    <3>1. Busy(w) /\ <<c, f>> \in Touched(call[w]) /\ <<c, f>> \in Concerns(call[w])
      BY <2>4, TouchedIs DEF Touches
    <3>2. CASE Owns(w, m)
      BY <1>2, <1>14, <3>1, <3>2 DEF Fulfilled
    <3>3. CASE ~Owns(w, m)
      <4>1. Carried(w)
        BY <1>13, <2>4, <3>1, <3>3
      <4>2. cards'[c][f] = cards[c][f]
        BY <1>15, <2>2, <3>1, <3>3
      <4> QED BY <2>3, <2>4, <4>1, <4>2 DEF FieldTrue, Trusted
    <3> QED BY <3>2, <3>3
  <2>5. ASSUME \A w \in Workers : Touches(w, c, f) => ~Carried(w)' PROVE cards'[c][f] = believed[c][f]
    <3>1. \A w \in Workers : Touches(w, c, f) => ~Owns(w, m) /\ ~Carried(w)
      BY <1>13, <1>14, <2>5 DEF Touches
    <3>2. cards'[c][f] = cards[c][f]
      BY <1>15, <2>2, <3>1
    <3> QED BY <2>3, <3>1, <3>2 DEF FieldTrue, Trusted
  <2> QED BY <2>4, <2>5
\* A card that another call has registered stays as it was registered.
<1>17. ASSUME NEW w \in Workers, Busy(w), ~Owns(w, m), call[w].method = "AddCard", NEW k, NewTrue(call[w], k)
       PROVE  NewTrue(call[w], k)'
  <2>1. /\ k \in Cards /\ ~Known(k) /\ cards[k] # Absent
        /\ \A f \in Fields : believed[k][f] # Unclear => cards[k][f] = NewCard(call[w].client.userID, call[w].arg)[f]
    BY <1>17 DEF NewTrue
  <2>2. \A f \in Fields : <<k, f>> \in Concerns(call[w])
    BY <1>17, <2>1, TouchedIs
  <2>3. \A f \in Fields : cards'[k][f] = cards[k][f] \/ believed[k][f] = Unclear
    BY <1>15, <1>17, <2>1, <2>2
  <2>4. SameCall(w)
    BY <1>7
  <2> QED BY <1>2, <1>9, <2>1, <2>3, <2>4 DEF NewTrue, Known, SameCall
<1>18. ASSUME NEW w \in Workers, Busy(w), ~Owns(w, m), NEW r, DataTrue(call[w], r), ~Awaits(w, m)
       PROVE  DataTrue(call[w], r)'
  <2>1. SameCall(w) /\ call'[w].due = call[w].due /\ moved'[call[w].id] = moved[call[w].id]
    BY <1>7, <1>13, <1>18
  <2>2. call[w].method = "AddCard" => NewTrue(call[w], r.card)'
    BY <1>17, <1>18 DEF DataTrue
  <2> QED BY <1>18, <2>1, <2>2 DEF DataTrue, DueTo, SameCall
<1>19. \A w \in Workers : \A r : Awaits(w, r)' <=> Awaits(w, r)
  BY <1>7 DEF Awaits, SameCall
<1>20. ASSUME NEW r \in replies' PROVE /\ DataTyped(r)
                                       /\ \E w \in Workers : Awaits(w, r)'
                                       /\ \A w \in Workers : Awaits(w, r)' /\ r.code = 200 => DataTrue(call[w], r)'
  <2>1. CASE r \in replies
    <3>1. /\ DataTyped(r) /\ \E w \in Workers : Awaits(w, r)
          /\ \A w \in Workers : Awaits(w, r) /\ r.code = 200 => DataTrue(call[w], r)
      BY <2>1 DEF BInv, RepliesGood
    <3>2. r.id # m.id
      BY <1>1, <2>1 DEF IInv, ReplyTrue
    <3>3. \A w \in Workers : Awaits(w, r) => Busy(w) /\ ~Owns(w, m) /\ ~Awaits(w, m)
      BY <3>2 DEF Awaits, Owns, Busy
    <3> QED BY <1>18, <1>19, <3>1, <3>3
  <2>2. CASE r = a /\ r \notin replies
    <3>1. \E w \in Workers : Awaits(w, m)
      BY <1>2, <2>2
    <3>2. r.id = m.id /\ r.count = data.count /\ r.card = data.card /\ r.rows = data.rows
      BY <2>2
    <3>3. \A w \in Workers : Awaits(w, r) <=> Awaits(w, m)
      BY <3>2 DEF Awaits
    <3>4. DataTyped(r)
      BY <3>2 DEF DataTyped
    <3>5. ASSUME NEW w \in Workers, Awaits(w, m) PROVE DataTrue(call[w], r)'
      <4>1. Owns(w, m)
        BY <3>5 DEF Awaits, Owns, Busy
      <4>2. op = call[w] /\ moved'[call[w].id] = data.count /\ SameCall(w)
        BY <1>7, <1>14, <4>1
      <4>3. call[w].method = "AddCard" => NewTrue(call[w], data.card)'
        BY <4>2 DEF NewTrue, Known, SameCall
      <4>4. call[w].method \in ReadMethods => data.rows = DueTo(call'[w])
        BY <3>5, <4>2
      <4> QED BY <3>2, <4>2, <4>3, <4>4 DEF DataTrue, SameCall
    <3> QED BY <1>19, <3>1, <3>3, <3>4, <3>5
  <2> QED BY <1>2, <2>1, <2>2
<1>21. RepliesGood'
  BY <1>20 DEF RepliesGood, DataTyped
<1>22. ASSUME NEW w \in Workers PROVE ResultTrue(call[w])'
  <2>1. /\ SameCall(w) /\ call'[w].pc = call[w].pc /\ call'[w].result = call[w].result
        /\ ~Awaits(w, m) => call'[w].due = call[w].due
    BY <1>7
  <2>2. CASE call[w].pc = "returned"
    <3>1. ResultTrue(call[w]) /\ Busy(w) /\ ~Awaits(w, m) /\ call[w].id \in Calls
      BY <2>2, BusyFacts DEF BInv, Busy, Awaits
    <3>2. ASSUME call[w].result.err = NoError, call[w].method \in Decoding PROVE DataTrue(call[w], call[w].result)'
      <4>1. outcome[call[w].id] = "succeeded"
        BY <2>2, <3>1, <3>2 DEF ResultTrue, OutcomeOf
      <4>2. executed[call[w].id] = 1
        BY <3>1, <4>1 DEF BInv, OutcomesTrue
      <4>3. ~Owns(w, m)
        BY <1>3, <4>2 DEF Owns
      <4>4. DataTrue(call[w], call[w].result)
        BY <2>2, <3>1, <3>2 DEF ResultTrue
      <4>5. SameCall(w) /\ moved'[call[w].id] = moved[call[w].id]
        BY <1>13, <2>1, <3>1, <4>3
      <4>6. call[w].method = "AddCard" => NewTrue(call[w], call[w].result.card)'
        BY <1>17, <3>1, <4>3, <4>4 DEF DataTrue
      <4> QED BY <2>1, <3>1, <4>4, <4>5, <4>6 DEF DataTrue, DueTo, SameCall, NewTrue, Known
    <3> QED BY <1>2, <2>1, <2>2, <3>1, <3>2 DEF ResultTrue, SameCall
  <2>3. CASE call[w].pc # "returned"
    BY <2>1, <2>3 DEF ResultTrue
  <2> QED BY <2>2, <2>3
<1>23. ASSUME NEW w \in Workers PROVE CountTrue(w)'
  <2>1. SameCall(w) /\ (Busy(w)' <=> Busy(w))
    BY <1>7
  <2>2. BelievedOf(call[w].client.userID)' = BelievedOf(call[w].client.userID)
    BY <1>2, <2>1 DEF BelievedOf, SameCall
  <2>3. ASSUME Busy(w), call[w].method = "UpdateUserOwnership", Carried(w)', NothingLost
        PROVE  moved'[call[w].id] = Cardinality(BelievedOf(call[w].client.userID))
    <3>1. CASE Owns(w, m)
      BY <1>14, <2>3, <3>1
    <3>2. CASE ~Owns(w, m)
      BY <1>13, <2>3, <3>2 DEF BInv, CountTrue
    <3> QED BY <3>1, <3>2
  <2> QED BY <1>10, <2>1, <2>2, <2>3 DEF CountTrue, SameCall
<1> QED BY <1>1, <1>2, <1>8, <1>11, <1>12, <1>16, <1>21, <1>22, <1>23 DEF BInv, FieldsTrue

LEMMA NoResultFields ==
    /\ NoResult.err = NoError /\ NoResult.code = 0 /\ NoResult.count = 0 /\ NoResult.card = Absent /\ NoResult.rows = {}
    /\ DOMAIN NoResult = {"err", "code", "count", "card", "rows"}
BY DEF NoResult

LEMMA DataFields ==
    ASSUME NEW x
    PROVE  /\ [NoResult EXCEPT !.card = x].card = x /\ [NoResult EXCEPT !.card = x].count = 0
           /\ [NoResult EXCEPT !.card = x].rows = {}
           /\ [NoResult EXCEPT !.count = x].count = x /\ [NoResult EXCEPT !.count = x].card = Absent
           /\ [NoResult EXCEPT !.count = x].rows = {}
           /\ [NoResult EXCEPT !.rows = x].rows = x /\ [NoResult EXCEPT !.rows = x].card = Absent
           /\ [NoResult EXCEPT !.rows = x].count = 0
BY NoResultFields

LEMMA StillCalls ==
    ASSUME BInv, UNCHANGED call
    PROVE  /\ SameCalls
           /\ \A w \in Workers : /\ call'[w].pc = call[w].pc /\ call'[w].result = call[w].result
                                 /\ call'[w].due = call[w].due /\ call'[w].due \subseteq RowType
<1>1. \A w \in Workers : CallTyped(call[w])
  BY DEF BInv, CallsTyped
<1>2. SameCalls
  BY DEF SameCalls, SameCall, Busy
<1> QED BY <1>1, <1>2 DEF CallTyped

\* A request that is on its way has not been carried out.
LEMMA NotCarried ==
    ASSUME BInv, NEW m \in wire, NEW w \in Workers, Owns(w, m)
    PROVE  Busy(w) /\ ~Carried(w)
BY DEF BInv, IInv, RequestTrue, Owns, Carried

LEMMA RegisterBInv ==
    ASSUME BInv, [Next]_vars, NEW m \in wire, Register(m)
    PROVE  BInv'
<1>1. PICK op : OpTrue(op) /\ m.request = RequestOf(op) /\ Sender(m, op)
  BY HasSender
<1>2. op.method = "AddCard"
  BY <1>1, MethodOf DEF Register
<1>3. m.request.body["user_id"] = op.client.userID /\ m.request.body["info"] = op.arg
  BY <1>1, <1>2, AddRequestMeans
<1>4. PICK k \in Cards : /\ cards[k] = Absent
                         /\ CarryOut(m, [cards EXCEPT ![k] = NewCard(m.request.body.user_id, m.request.body.info)],
                                     [NoResult EXCEPT !.card = k])
  BY DEF Register
<1> PICK new : new = NewCard(op.client.userID, op.arg)
  OBVIOUS
<1> PICK registry : registry = [cards EXCEPT ![k] = new]
  OBVIOUS
<1> PICK data : data = [NoResult EXCEPT !.card = k]
  OBVIOUS
<1>5. CarryOut(m, registry, data) /\ UNCHANGED <<call, believed>> /\ cards' = registry
  BY <1>3, <1>4 DEF CarryOut, Register
<1>6. DataTyped(data) /\ data.card = k
  BY DataFields DEF DataTyped
<1>7. new \in CardType /\ new # Absent
  BY <1>1, <1>2, NewCardTyped, Admin DEF OpTrue, CardMethods
<1>8. /\ registry = [c \in Cards |-> registry[c]]
      /\ \A c \in Cards : registry[c] = IF c = k THEN new ELSE cards[c]
  BY DEF BInv, RegistryTyped
<1>9. Kept(op, registry)
  BY <1>4, <1>7, <1>8 DEF Kept, BInv, RegistryTyped
<1>10. Fulfilled(op, registry)
  <2> SUFFICES ASSUME NEW c \in Cards, NEW f \in Fields, Trusted(c, f), <<c, f>> \in Touched(op) PROVE FALSE
    BY DEF Fulfilled
  <2>1. Known(c)
    BY TrustedIsKnown
  <2> QED BY <1>2, <2>1, TouchedIs
<1>11. NewTrue(op, data.card)'
  <2>1. ~Known(k)
    BY <1>4 DEF BInv, RegistryTyped, BeliefTyped
  <2> QED BY <1>5, <1>6, <1>7, <1>8, <2>1 DEF NewTrue, Known
<1>12. op.method # "UpdateUserOwnership" /\ op.method \notin ReadMethods
  BY <1>2 DEF ReadMethods
<1> QED BY <1>1, <1>5, <1>6, <1>9, <1>10, <1>11, <1>12, StillCalls, CarryBInv

LEMMA ChangeCardBInv ==
    ASSUME BInv, [Next]_vars, NEW m \in wire, ChangeCard(m)
    PROVE  BInv'
<1>1. PICK op : OpTrue(op) /\ m.request = RequestOf(op) /\ Sender(m, op)
  BY HasSender
<1>2. op.method \in CardMethods
  BY <1>1, MethodOf DEF ChangeCard
<1>3. op.arg \in ArgsOf(op.method) /\ op.client.cardID \in Cards /\ Known(op.client.cardID)
  BY <1>1, <1>2 DEF OpTrue, CardMethods
<1> PICK k : k = op.client.cardID
  OBVIOUS
<1> PICK set : set = Intended(op)
  OBVIOUS
<1>4. m.request.body["card_id"] = k /\ Written(m.request) = set
  BY <1>1, <1>2, <1>3, CardRequestMeans
<1>5. k \in Cards /\ cards[k] \in CardType /\ cards[k] # Absent
  BY <1>3 DEF BInv, RegistryTyped, BeliefTyped
<1> PICK card : card = cards[k]
  OBVIOUS
<1> PICK new : new = Overwritten(card, set)
  OBVIOUS
<1> PICK registry : registry = [cards EXCEPT ![k] = new]
  OBVIOUS
<1> PICK data : data = [NoResult EXCEPT !.card = k]
  OBVIOUS
<1>6. CarryOut(m, registry, data) /\ UNCHANGED <<call, believed>>
  BY <1>4 DEF CarryOut, ChangeCard
<1>7. DataTyped(data)
  BY <1>5, DataFields DEF DataTyped
<1>8. DOMAIN set \subseteq Fields /\ \A f \in DOMAIN set : set[f] \in ValuesOf(f)
  BY <1>2, <1>3, IntendedTyped
<1>9. new \in CardType /\ \A f \in Fields : new[f] = IF f \in DOMAIN set THEN set[f] ELSE card[f]
  BY <1>5, <1>8, OverwrittenTyped
<1>10. /\ registry = [c \in Cards |-> registry[c]]
       /\ \A c \in Cards : registry[c] = IF c = k THEN new ELSE cards[c]
  BY DEF BInv, RegistryTyped
<1>11. Touched(op) = {k} \X DOMAIN set
  BY <1>2, TouchedIs
<1>12. op.method \notin {"AddCard", "UpdateUserOwnership"} \cup ReadMethods
  BY <1>2 DEF ReadMethods, CardMethods
<1>13. Kept(op, registry)
  <2>1. ASSUME NEW c \in Cards PROVE registry[c] # Absent => registry[c] \in CardType
    BY <1>9, <1>10 DEF BInv, RegistryTyped
  <2>2. ASSUME NEW c \in Cards, cards[c] # Absent PROVE registry[c] # Absent
    BY <1>9, <1>10, <2>2, Admin
  <2>3. ASSUME NEW c \in Cards, NEW f \in Fields, registry[c][f] # cards[c][f] PROVE <<c, f>> \in Touched(op)
    BY <1>9, <1>10, <1>11, <2>3
  <2> QED BY <1>10, <1>12, <2>1, <2>2, <2>3 DEF Kept
<1>14. Fulfilled(op, registry)
  <2> SUFFICES ASSUME NEW c \in Cards, NEW f \in Fields, <<c, f>> \in Touched(op)
               PROVE  Promised(op, c, f) = registry[c][f]
    BY DEF Fulfilled
  <2> QED BY <1>9, <1>10, <1>11, <1>12 DEF Promised
<1> QED BY <1>1, <1>6, <1>7, <1>12, <1>13, <1>14, StillCalls, CarryBInv

Revoked(b) == b["revoked"] = TRUE
NotRevoked(b) == b["revoked"] = FALSE

\* Who owns the card after a transfer of all cards of u to v.
LEMMA TransferOwner ==
    ASSUME NEW b, Whole(b), NEW u, NEW v, NEW o, o = AfterTransfer(b, u, v)["user_id"]
    PROVE  /\ b["user_id"] # u \/ Revoked(b) => o = b["user_id"]
           /\ b["user_id"] = u /\ ~Revoked(b) /\ NotRevoked(b) => o = v
           /\ b["user_id"] = u /\ ~Revoked(b) /\ ~NotRevoked(b) => o = Unclear
<1> PICK owner : owner = IF b["revoked"] = FALSE THEN v ELSE Unclear
  OBVIOUS
<1>1. ASSUME b["user_id"] = u, ~Revoked(b) PROVE o = owner
  <2>1. AfterTransfer(b, u, v) = [b EXCEPT !["user_id"] = owner]
    BY <1>1 DEF AfterTransfer, Revoked
  <2> QED BY <2>1 DEF Fields, Whole
<1>2. ASSUME b["user_id"] # u \/ Revoked(b) PROVE o = b["user_id"]
  BY <1>2 DEF AfterTransfer, Revoked
<1>3. (NotRevoked(b) => owner = v) /\ (~NotRevoked(b) => owner = Unclear)
  BY Zenon DEF NotRevoked
<1> QED BY <1>1, <1>2, <1>3

\* What IBS counts is what the service would count, if it has lost nothing.
LEMMA TransferBInv ==
    ASSUME BInv, [Next]_vars, NEW m \in wire, Transfer(m)
    PROVE  BInv'
<1>1. PICK op : OpTrue(op) /\ m.request = RequestOf(op) /\ Sender(m, op)
  BY HasSender
<1>2. op.method = "UpdateUserOwnership"
  BY <1>1, MethodOf DEF Transfer
<1> PICK u : u = op.client.userID
  OBVIOUS
<1> PICK v : v = op.arg
  OBVIOUS
<1>3. u \in Users /\ v \in Users
  BY <1>1, <1>2 DEF OpTrue, CardMethods
<1>4. m.request.body["user_id"] = u /\ m.request.body["new_user_id"] = v
  BY <1>1, <1>2, TransferRequestMeans
<1> DEFINE mine == {c \in Cards : /\ cards[c] # Absent
                                  /\ cards[c].user_id = u /\ ~cards[c].revoked}
<1> PICK registry : registry = [c \in Cards |-> IF c \in mine THEN [cards[c] EXCEPT !.user_id = v] ELSE cards[c]]
  OBVIOUS
<1> PICK n : n = Cardinality(mine)
  OBVIOUS
<1> PICK data : data = [NoResult EXCEPT !.count = n]
  OBVIOUS
<1>5. CarryOut(m, registry, data) /\ UNCHANGED <<call, believed>>
  BY <1>4 DEF Transfer, CarryOut
<1>6. n \in Nat
  <2>1. IsFiniteSet(mine)
    BY Admin, FS_Subset
  <2> QED BY <2>1, FS_CardinalityType
<1>7. DataTyped(data) /\ data.count = n
  BY <1>6, DataFields DEF DataTyped
<1>8. \A c \in Cards : cards[c] # Absent => cards[c] \in CardType
  BY DEF BInv, RegistryTyped
<1>9. ASSUME NEW c \in Cards, c \in mine
      PROVE  /\ registry[c] \in CardType /\ registry[c]["user_id"] = v
             /\ \A f \in Fields \ {"user_id"} : registry[c][f] = cards[c][f]
  <2> PICK card : card = cards[c]
    OBVIOUS
  <2>1. card \in CardType
    BY <1>8, <1>9
  <2>2. registry[c] = [card EXCEPT !["user_id"] = v]
    BY <1>9
  <2>3. DOMAIN card = Fields
    BY <2>1, CardFields
  <2> QED BY <1>3, <2>1, <2>2, <2>3 DEF CardType, Fields
<1>10. \A c \in Cards : c \notin mine => registry[c] = cards[c]
  OBVIOUS
<1>11. registry = [c \in Cards |-> registry[c]]
  OBVIOUS
<1>12. Touched(op) = Cards \X {"user_id"} /\ Concerns(op) = Cards \X {"user_id", "revoked"}
  BY <1>2, TouchedIs
<1>13. Kept(op, registry)
  <2>1. ASSUME NEW c \in Cards PROVE registry[c] # Absent => registry[c] \in CardType
    BY <1>8, <1>9, <1>10
  <2>2. ASSUME NEW c \in Cards, cards[c] # Absent PROVE registry[c] # Absent
    BY <1>9, <1>10, <2>2, Admin
  <2>3. ASSUME NEW c \in Cards, NEW f \in Fields, registry[c][f] # cards[c][f] PROVE f = "user_id"
    BY <1>9, <1>10, <2>3
  <2> QED BY <1>2, <1>11, <1>12, <2>1, <2>2, <2>3 DEF Kept
<1>14. ASSUME NEW w \in Workers, Owns(w, m), NEW c \in Cards, NEW f \in {"user_id", "revoked"}, Trusted(c, f)
       PROVE  cards[c][f] = believed[c][f]
  <2>1. op = call[w] /\ Busy(w) /\ ~Carried(w)
    BY <1>1, <1>14, NotCarried DEF Sender
  <2> QED BY <1>12, <1>14, <2>1, NotYet DEF Fields
<1>15. Fulfilled(op, registry) \/ \A w \in Workers : ~Owns(w, m)
  <2> SUFFICES ASSUME NEW w \in Workers, Owns(w, m), NEW c \in Cards, Trusted(c, "user_id")
               PROVE  Promised(op, c, "user_id") \in {registry[c]["user_id"], Unclear}
    BY <1>12 DEF Fulfilled
  <2>1. Known(c) /\ cards[c] # Absent /\ cards[c] \in CardType
    BY TrustedIsKnown DEF Fields
  <2>2. cards[c]["user_id"] = believed[c]["user_id"]
    BY <1>14
  <2> PICK b : b = believed[c]
    OBVIOUS
  <2> PICK o : o = Promised(op, c, "user_id")
    OBVIOUS
  <2>3. Whole(b) /\ (b["revoked"] # Unclear => cards[c]["revoked"] = b["revoked"])
    BY <1>14, <2>1 DEF BInv, RegistryTyped, BeliefTyped, Fields, Trusted
  <2>4. Unclear # TRUE /\ Unclear # FALSE
    BY Admin, ValuesAre DEF Fields
  <2>5. o = AfterTransfer(b, u, v)["user_id"]
    BY <1>2 DEF Promised
  <2>6. /\ b["user_id"] # u \/ Revoked(b) => o = b["user_id"]
        /\ b["user_id"] = u /\ ~Revoked(b) /\ NotRevoked(b) => o = v
        /\ b["user_id"] = u /\ ~Revoked(b) /\ ~NotRevoked(b) => o = Unclear
    BY <2>3, <2>5, TransferOwner
  <2>7. CASE b["user_id"] # u \/ Revoked(b)
    <3>1. ASSUME Revoked(b) PROVE cards[c]["revoked"] = TRUE
      <4>1. b["revoked"] = TRUE /\ b["revoked"] # Unclear
        BY <2>4, <3>1, Zenon DEF Revoked
      <4> QED BY <2>3, <4>1, Zenon
    <3>2. c \notin mine
      BY <2>2, <2>7, <3>1
    <3> QED BY <1>10, <2>2, <2>6, <2>7, <3>2
  <2>8. CASE b["user_id"] = u /\ ~Revoked(b) /\ NotRevoked(b)
    <3>1. b["revoked"] = FALSE /\ b["revoked"] # Unclear
      BY <2>4, <2>8, Zenon DEF NotRevoked
    <3>2. cards[c]["revoked"] = FALSE
      BY <2>3, <3>1, Zenon
    <3>3. c \in mine
      BY <2>1, <2>2, <2>8, <3>2
    <3> QED BY <1>9, <2>6, <2>8, <3>3
  <2>9. CASE b["user_id"] = u /\ ~Revoked(b) /\ ~NotRevoked(b)
    BY <2>6, <2>9
  <2> QED BY <2>7, <2>8, <2>9
<1>16. Fulfilled(op, registry)
  <2>1. ASSUME \A w \in Workers : ~Owns(w, m) PROVE Fulfilled(op, registry)
    BY <1>1, <1>2, <2>1 DEF Sender, Forsaken, Fulfilled, Trusted
  <2> QED BY <1>15, <2>1
<1>17. ASSUME NothingLost, NEW w \in Workers, Owns(w, m) PROVE mine = BelievedOf(u)
  <2> SUFFICES ASSUME NEW c \in Cards
               PROVE  c \in mine <=> believed[c]["user_id"] = u /\ believed[c]["revoked"] = FALSE
    BY DEF BelievedOf
  <2>1. BeliefTyped(c) /\ \A f \in Fields : believed[c][f] # Unclear
    BY <1>17 DEF BInv, RegistryTyped, BeliefTyped, NothingLost
  <2>2. CASE Known(c)
    <3>1. Trusted(c, "user_id") /\ Trusted(c, "revoked") /\ cards[c] # Absent /\ cards[c] \in CardType
      BY <1>8, <2>1, <2>2 DEF BeliefTyped, Trusted, Fields
    <3>2. cards[c]["user_id"] = believed[c]["user_id"] /\ cards[c]["revoked"] = believed[c]["revoked"]
      BY <1>14, <1>17, <3>1
    <3>3. cards[c]["revoked"] \in BOOLEAN
      BY <3>1 DEF CardType
    <3> QED BY <3>1, <3>2, <3>3
  <2>3. CASE ~Known(c)
    <3>1. cards[c] = Absent
      BY <1>17, <2>3 DEF NothingLost, UnknownCards
    <3>2. believed[c]["user_id"] = Absent
      BY <2>1, <2>3 DEF BeliefTyped, Fields
    <3>3. u # Absent
      BY <1>3, Admin, ValuesAre DEF Fields
    <3> QED BY <3>1, <3>2, <3>3
  <2> QED BY <2>2, <2>3
<1>18. \A w \in Workers : Owns(w, m) /\ NothingLost => data.count = Cardinality(BelievedOf(u))
  BY <1>7, <1>17
<1>19. op.method # "AddCard" /\ op.method \notin ReadMethods
  BY <1>2 DEF ReadMethods
<1> HIDE DEF mine
<1> QED BY <1>1, <1>5, <1>7, <1>13, <1>16, <1>18, <1>19, StillCalls, CarryBInv

LEMMA ShowBInv ==
    ASSUME BInv, [Next]_vars, NEW m \in wire, Show(m)
    PROVE  BInv'
<1>1. PICK op : OpTrue(op) /\ m.request = RequestOf(op) /\ Sender(m, op)
  BY HasSender
<1>2. op.method \in ReadMethods
  BY <1>1, MethodOf DEF Show
<1> PICK rows : rows = RowsAt(m.request)
  OBVIOUS
<1> PICK data : data = [NoResult EXCEPT !.rows = rows]
  OBVIOUS
<1> PICK registry : registry = cards
  OBVIOUS
<1>3. /\ CarryOut(m, registry, data) /\ UNCHANGED <<cards, believed>>
      /\ call' = [w \in Workers |-> IF Awaits(w, m) THEN [call[w] EXCEPT !.due = Wanted(call[w])] ELSE call[w]]
  BY DEF CarryOut, Show
<1>4. RegistryTyped
  BY DEF BInv
<1>5. rows \subseteq RowType
  BY <1>1, <1>2, <1>4, RowsTyped
<1>6. DataTyped(data) /\ data.rows = rows
  <2>1. data.rows = rows /\ data.count = 0 /\ data.card = Absent
    BY DataFields
  <2> QED BY <1>5, <2>1 DEF DataTyped
<1>7. ASSUME NEW w \in Workers
      PROVE  /\ SameCall(w) /\ call'[w].pc = call[w].pc /\ call'[w].result = call[w].result
             /\ ~Awaits(w, m) => call'[w].due = call[w].due
             /\ Awaits(w, m) => call'[w].due = Wanted(op)
             /\ call'[w].due \subseteq RowType
  <2>1. CASE Awaits(w, m)
    <3>1. Busy(w) /\ Owns(w, m)
      BY <2>1 DEF Awaits, Owns, Busy
    <3>2. op = call[w] /\ DOMAIN call[w] = CallFields
      BY <1>1, <3>1, BusyFacts DEF Sender
    <3> PICK due : due = Wanted(op)
      OBVIOUS
    <3>3. call'[w] = [call[w] EXCEPT !.due = due]
      BY <1>3, <2>1, <3>2
    <3>4. due \subseteq RowType
      BY <1>1, <1>2, <1>4, RowsTyped
    <3>5. call'[w].due = due
      BY <3>2, <3>3 DEF CallFields
    <3>6. SameCall(w) /\ call'[w].pc = call[w].pc /\ call'[w].result = call[w].result
      BY <3>2, <3>3 DEF CallFields, SameCall
    <3> QED BY <2>1, <3>4, <3>5, <3>6
  <2>2. CASE ~Awaits(w, m)
    <3>1. call'[w] = call[w]
      BY <1>3, <2>2
    <3>2. call[w].due \subseteq RowType
      BY DEF BInv, CallsTyped, CallTyped
    <3> QED BY <2>2, <3>1, <3>2 DEF SameCall
  <2> QED BY <2>1, <2>2
<1>8. SameCalls
  BY <1>7 DEF SameCalls, Busy
<1>9. Touched(op) = {} /\ op.method \notin {"AddCard", "UpdateUserOwnership"}
  BY <1>2, TouchedIs DEF ReadMethods
<1>10. Kept(op, registry) /\ Fulfilled(op, registry)
  BY <1>4, <1>9 DEF Kept, Fulfilled, RegistryTyped
<1>11. rows = IF op.method = "GetCardInfo" /\ CardWithoutUser(op.client) THEN {} ELSE Wanted(op)
  BY <1>1, <1>2, <1>4, RowsAreWanted
<1>12. ASSUME NEW w \in Workers, Awaits(w, m) PROVE data.rows = DueTo(call'[w])
  <2>1. Busy(w) /\ Owns(w, m)
    BY <1>12 DEF Awaits, Owns, Busy
  <2>2. op = call[w] /\ SameCall(w) /\ call'[w].due = Wanted(op)
    BY <1>1, <1>7, <1>12, <2>1 DEF Sender
  <2>3. call'[w].method = op.method /\ call'[w].client = op.client
    BY <2>2 DEF SameCall
  <2> QED BY <1>6, <1>11, <2>2, <2>3 DEF DueTo
<1>13. \A w \in Workers : /\ call'[w].pc = call[w].pc /\ call'[w].result = call[w].result
                          /\ ~Awaits(w, m) => call'[w].due = call[w].due
                          /\ call'[w].due \subseteq RowType
  BY <1>7
<1>14. CarryOut(m, registry, data)
  BY <1>3
<1> QED BY <1>1, <1>6, <1>8, <1>9, <1>10, <1>12, <1>13, <1>14, CarryBInv

LEMMA Answered ==
    ASSUME NEW m, NEW code, NEW body, NEW data, Answer(m, code, body, data)
    PROVE  \E a : /\ a.id = m.id /\ a.code = code
                  /\ a.count = data.count /\ a.card = data.card /\ a.rows = data.rows
                  /\ wire' = wire \ {m} /\ replies' \subseteq replies \cup {a}
                  /\ a \in replies' /\ a \notin replies => \E w \in Workers : Awaits(w, m)
<1> PICK a : a = [id |-> m.id, code |-> code, body |-> body,
                  count |-> data.count, card |-> data.card, rows |-> data.rows]
  OBVIOUS
<1>1. a.id = m.id /\ a.code = code /\ a.count = data.count /\ a.card = data.card /\ a.rows = data.rows
  OBVIOUS
<1>2. /\ wire' = wire \ {m} /\ replies' \subseteq replies \cup {a}
      /\ a \in replies' /\ a \notin replies => \E w \in Workers : Awaits(w, m)
  BY DEF Answer
<1> QED BY <1>1, <1>2

LEMMA DeclineBInv ==
    ASSUME BInv, [Next]_vars, NEW m \in wire, Decline(m)
    PROVE  BInv'
<1>1. PICK code \in {400, 500} : Answer(m, code, "statusFalse", NoResult)
  BY DEF Decline
<1>2. UNCHANGED <<cards, executed, moved, believed, call, made, outcome>>
  BY DEF Decline, serverVars
<1>12. PICK a : /\ a.id = m.id /\ a.code = code
                /\ a.count = NoResult.count /\ a.card = NoResult.card /\ a.rows = NoResult.rows
                /\ wire' = wire \ {m} /\ replies' \subseteq replies \cup {a}
                /\ a \in replies' /\ a \notin replies => \E w \in Workers : Awaits(w, m)
  BY <1>1, Answered
<1>3. IInv' /\ OutcomesTrue'
  BY StepEffect, UnclearStays DEF BInv
<1>4. SameCalls
  BY <1>2, StillCalls
<1>5. /\ RegistryTyped' /\ CallsApart' /\ FieldsTrue'
      /\ \A n \in wire : WireTrue(n)'
      /\ \A w \in Workers : CountTrue(w)'
  BY <1>2, <1>4, QuietStep
<1>6. \A w \in Workers : OpTrue(call[w]) => OpTrue(call[w])'
  BY <1>2, <1>4, CallsQuiet
<1>7. CallsTyped'
  <2>1. \A w \in Workers : CallTyped(call[w])'
    BY <1>2, <1>6 DEF BInv, CallsTyped, CallTyped
  <2> QED BY <1>2, <2>1 DEF BInv, CallsTyped
<1>8. ASSUME NEW w \in Workers, NEW r PROVE DataTrue(call[w], r) => DataTrue(call[w], r)'
  <2>1. NewTrue(call[w], r.card)' <=> NewTrue(call[w], r.card)
    BY <1>2, <1>4, SameNew DEF SameCalls
  <2> QED BY <1>2, <2>1 DEF DataTrue
<1>9. ASSUME NEW r \in replies' PROVE /\ DataTyped(r)
                                      /\ \E w \in Workers : Awaits(w, r)'
                                      /\ \A w \in Workers : Awaits(w, r)' /\ r.code = 200 => DataTrue(call[w], r)'
  <2>1. \A w \in Workers : Awaits(w, r)' <=> Awaits(w, r)
    BY <1>2 DEF Awaits
  <2>2. CASE r \in replies
    BY <1>8, <2>1, <2>2 DEF BInv, RepliesGood
  <2>3. CASE r = a /\ r \notin replies
    <3>1. r.id = m.id /\ r.code # 200 /\ r.count = 0 /\ r.card = Absent /\ r.rows = {}
      BY <1>12, <2>3, NoResultFields
    <3>3. DataTyped(r)
      BY <3>1 DEF DataTyped
    <3>4. \E w \in Workers : Awaits(w, r)
      BY <1>12, <2>3, <3>1 DEF Awaits
    <3> QED BY <2>1, <3>1, <3>3, <3>4
  <2> QED BY <1>12, <2>2, <2>3
<1>10. RepliesGood'
  BY <1>9 DEF RepliesGood, DataTyped
<1>11. \A w \in Workers : ResultTrue(call[w])'
  BY <1>2, <1>8 DEF BInv, ResultTrue
<1> QED BY <1>3, <1>5, <1>7, <1>10, <1>11, <1>12 DEF BInv

-----------------------------------------------------------------------------
(* The service takes note of a result.                                     *)

\* A call that has returned.
Done(w) == call[w].pc = "returned"

LEMMA DoneFacts ==
    ASSUME BInv, NEW w \in Workers, Done(w)
    PROVE  /\ Busy(w) /\ OpTrue(call[w]) /\ call[w].id \in Calls
           /\ outcome[call[w].id] \in {"succeeded", "refused", "unclear"}
           /\ outcome[call[w].id] = "succeeded" => Carried(w)
           /\ outcome[call[w].id] = "refused" => ~Carried(w)
           /\ outcome[call[w].id] = "succeeded" /\ call[w].method = "AddCard" =>
                 NewTrue(call[w], call[w].result.card)
<1>1. Busy(w)
  BY DEF Done, Busy
<1>2. OpTrue(call[w]) /\ call[w].id \in Calls
  BY <1>1, BusyFacts
<1>3. outcome[call[w].id] = OutcomeOf(call[w].result)
  BY DEF BInv, ResultTrue, Done
<1>4. outcome[call[w].id] \in {"succeeded", "refused", "unclear"}
  BY <1>3 DEF OutcomeOf
<1>5. outcome[call[w].id] = "succeeded" => Carried(w)
  BY <1>2 DEF BInv, OutcomesTrue, Carried
<1>6. outcome[call[w].id] = "refused" => ~Carried(w)
  BY <1>2 DEF BInv, OutcomesTrue, Carried
<1>7. outcome[call[w].id] = "succeeded" => call[w].result.err = NoError
  BY <1>3 DEF OutcomeOf
<1>8. outcome[call[w].id] = "succeeded" /\ call[w].method = "AddCard" => NewTrue(call[w], call[w].result.card)
  BY <1>7 DEF BInv, ResultTrue, DataTrue, Decoding, Done
<1> QED BY <1>1, <1>2, <1>4, <1>5, <1>6, <1>8

\* What a transfer of all cards makes of one of them.
LEMMA TransferPromise ==
    ASSUME BInv, NEW op, op.method = "UpdateUserOwnership", OpTrue(op), NEW c \in Cards
    PROVE  LET p == Promised(op, c, "user_id")
           IN  /\ p \in Users \cup {Absent, Unclear}
               /\ believed[c]["user_id"] \in {Absent, Unclear} => p = believed[c]["user_id"]
               /\ believed[c]["user_id"] # Absent => p # Absent
               /\ p = Unclear => \E id \in Calls : outcome[id] = "unclear"
<1> PICK u : u = op.client.userID
  OBVIOUS
<1> PICK v : v = op.arg
  OBVIOUS
<1> PICK b : b = believed[c]
  OBVIOUS
<1> PICK p : p = Promised(op, c, "user_id")
  OBVIOUS
<1>1. u \in Users /\ v \in Users /\ u \notin {Absent, Unclear} /\ v \notin {Absent, Unclear}
  <2>1. u \in Users /\ v \in Users
    BY DEF OpTrue, CardMethods
  <2> QED BY <2>1, Admin, ValuesAre DEF Fields
<1>2. BeliefTyped(c)
  BY DEF BInv, RegistryTyped
<1>3. Whole(b)
  BY <1>2 DEF BeliefTyped
<1>4. p = AfterTransfer(b, u, v)["user_id"]
  BY DEF Promised
<1>5. /\ b["user_id"] # u \/ Revoked(b) => p = b["user_id"]
      /\ b["user_id"] = u /\ ~Revoked(b) /\ NotRevoked(b) => p = v
      /\ b["user_id"] = u /\ ~Revoked(b) /\ ~NotRevoked(b) => p = Unclear
  BY <1>3, <1>4, TransferOwner
<1>6. b["user_id"] \in Users \cup {Absent, Unclear}
  BY <1>2, ValuesAre DEF BeliefTyped, Fields
<1>7. b["user_id"] = Unclear => \E id \in Calls : outcome[id] = "unclear"
  BY <1>2 DEF BeliefTyped, Fields
<1>8. ASSUME b["user_id"] = u, ~Revoked(b), ~NotRevoked(b) PROVE \E id \in Calls : outcome[id] = "unclear"
  <2>1. Known(c)
    BY <1>1, <1>2, <1>8 DEF BeliefTyped, Fields
  <2>2. b["revoked"] # Absent /\ b["revoked"] \in BOOLEAN \cup {Absent, Unclear}
    BY <1>2, <2>1, ValuesAre DEF BeliefTyped, Fields
  <2>3. b["revoked"] # TRUE /\ b["revoked"] # FALSE
    BY <1>8, Zenon DEF Revoked, NotRevoked
  <2>4. b["revoked"] = Unclear
    BY <2>2, <2>3, Zenon
  <2> QED BY <1>2, <2>4 DEF BeliefTyped, Fields
<1> DEFINE Goal == /\ p \in Users \cup {Absent, Unclear}
                   /\ b["user_id"] \in {Absent, Unclear} => p = b["user_id"]
                   /\ b["user_id"] # Absent => p # Absent
                   /\ p = Unclear => \E id \in Calls : outcome[id] = "unclear"
<1>9. CASE b["user_id"] # u \/ Revoked(b)
  BY <1>5, <1>6, <1>7, <1>9
<1>10. CASE b["user_id"] = u /\ ~Revoked(b) /\ NotRevoked(b)
  BY <1>1, <1>5, <1>10
<1>11. CASE b["user_id"] = u /\ ~Revoked(b) /\ ~NotRevoked(b)
  <2>1. p = Unclear /\ Absent # Unclear
    BY <1>5, <1>11, Admin
  <2> QED BY <1>1, <1>8, <1>11, <2>1
<1>12. Goal
  BY <1>9, <1>10, <1>11
<1> QED BY <1>12

\* One field, before and after.
LEMMA LearnedIs ==
    ASSUME BInv, NEW w \in Workers, Done(w), NEW c \in Cards, NEW f \in Fields
    PROVE  LET now == Learned(w, c, f)
           IN  /\ now \in ValuesOf(f) \cup {Absent, Unclear}
               /\ <<c, f>> \notin Touched(call[w]) => now = believed[c][f]
               /\ believed[c][f] = Unclear => now = Unclear
               /\ believed[c][f] # Absent => now # Absent
               /\ now = Unclear => \E id \in Calls : outcome[id] = "unclear"
               /\ ~Known(c) /\ now \notin {believed[c][f], Unclear} =>
                     outcome[call[w].id] = "succeeded" /\ call[w].method = "AddCard" /\ c = call[w].result.card
               /\ ~Known(c) /\ now = Unclear /\ f = "info" => believed[c][f] = Unclear
               /\ outcome[call[w].id] = "succeeded" /\ call[w].method = "AddCard" /\ c = call[w].result.card => now # Absent
               /\ now \notin {Absent, Unclear} /\ <<c, f>> \in Touched(call[w]) => cards[c][f] = now
<1> PICK op : op = call[w]
  OBVIOUS
<1> PICK now : now = Learned(w, c, f)
  OBVIOUS
<1> PICK was : was = believed[c][f]
  OBVIOUS
<1>1. /\ Busy(w) /\ OpTrue(op) /\ op.id \in Calls
      /\ outcome[op.id] \in {"succeeded", "refused", "unclear"}
      /\ outcome[op.id] = "succeeded" => Carried(w)
      /\ outcome[op.id] = "refused" => ~Carried(w)
      /\ outcome[op.id] = "succeeded" /\ op.method = "AddCard" => NewTrue(op, op.result.card)
  BY DoneFacts
<1>2. /\ was \in ValuesOf(f) \cup {Absent, Unclear}
      /\ Known(c) => was # Absent
      /\ ~Known(c) => was \in {Absent, Unclear}
      /\ was = Unclear => \E id \in Calls : outcome[id] = "unclear"
  BY DEF BInv, RegistryTyped, BeliefTyped
<1>3. Absent \notin ValuesOf(f) /\ Unclear \notin ValuesOf(f) /\ Absent # Unclear
  BY Admin
<1>4. now = IF <<c, f>> \notin Touched(op) \/ outcome[op.id] = "refused" THEN was
            ELSE IF outcome[op.id] = "unclear"
                 THEN IF op.method = "AddCard" THEN was ELSE Unclear
            ELSE IF op.method = "UpdateUserOwnership" THEN Promised(op, c, f)
            ELSE IF was = Unclear \/ (op.method = "AddCard" /\ c # op.result.card) THEN was
            ELSE IF op.method = "AddCard" THEN NewCard(op.client.userID, op.arg)[f]
            ELSE Intended(op)[f]
  BY DEF Learned
<1>5. op.method = "AddCard" /\ <<c, f>> \in Touched(op) => ~Known(c)
  BY TouchedIs
<1>6. outcome[op.id] = "succeeded" /\ op.method = "AddCard" /\ c = op.result.card =>
         ~Known(c) /\ <<c, f>> \in Touched(op) /\ (was # Unclear => cards[c][f] = NewCard(op.client.userID, op.arg)[f])
  <2> SUFFICES ASSUME outcome[op.id] = "succeeded", op.method = "AddCard", c = op.result.card
               PROVE  ~Known(c) /\ <<c, f>> \in Touched(op) /\ (was # Unclear => cards[c][f] = NewCard(op.client.userID, op.arg)[f])
    OBVIOUS
  <2>1. NewTrue(op, c)
    BY <1>1
  <2> QED BY <2>1, TouchedIs DEF NewTrue
<1>7. CASE <<c, f>> \notin Touched(op)
  <2>1. now = was
    BY <1>4, <1>7
  <2> QED BY <1>2, <1>6, <1>7, <2>1
<1>8. CASE <<c, f>> \in Touched(op) /\ outcome[op.id] = "refused"
  <2>1. now = was
    BY <1>4, <1>8
  <2>2. now \notin {Absent, Unclear} => cards[c][f] = now
    <3>1. <<c, f>> \in Concerns(op) /\ ~Carried(w)
      BY <1>1, <1>8, TouchedIs
    <3> QED BY <1>1, <2>1, <3>1, NotYet DEF Trusted
  <2> QED BY <1>2, <1>8, <2>1, <2>2
<1>9. CASE <<c, f>> \in Touched(op) /\ outcome[op.id] = "unclear"
  <2>1. CASE op.method = "AddCard"
    <3>1. now = was /\ ~Known(c)
      BY <1>4, <1>5, <1>9, <2>1
    <3> QED BY <1>2, <1>9, <3>1
  <2>2. CASE op.method # "AddCard"
    <3>1. now = Unclear
      BY <1>4, <1>9, <2>2
    <3>2. ~Known(c) => f # "info"
      <4>1. CASE op.method \in CardMethods
        <5>1. c = op.client.cardID
          BY <1>9, <4>1, TouchedIs
        <5> QED BY <1>1, <4>1, <5>1 DEF OpTrue, CardMethods
      <4>2. CASE op.method = "UpdateUserOwnership"
        BY <1>9, <4>2, TouchedIs
      <4>3. CASE op.method \in ReadMethods
        BY <1>9, <4>3, TouchedIs
      <4> QED BY <1>1, <2>2, <4>1, <4>2, <4>3, AllMethods
    <3> QED BY <1>1, <1>3, <1>9, <2>2, <3>1, <3>2
  <2> QED BY <2>1, <2>2
<1>10. CASE <<c, f>> \in Touched(op) /\ outcome[op.id] = "succeeded"
  <2>1. CASE op.method = "UpdateUserOwnership"
    <3>1. now = Promised(op, c, f)
      BY <1>4, <1>10, <2>1
    <3>2. f = "user_id"
      BY <1>10, <2>1, TouchedIs
    <3>3. /\ now \in Users \cup {Absent, Unclear}
          /\ was \in {Absent, Unclear} => now = was
          /\ was # Absent => now # Absent
          /\ now = Unclear => \E id \in Calls : outcome[id] = "unclear"
      BY <1>1, <2>1, <3>1, <3>2, TransferPromise
    <3>4. now \notin {Absent, Unclear} => cards[c][f] = now
      <4>1. Touches(w, c, f)
        BY <1>1, <1>10 DEF Touches
      <4>2. Trusted(c, f) => now \in {cards[c][f], Unclear}
        BY <1>1, <1>10, <3>1, <4>1 DEF BInv, FieldsTrue, FieldTrue, Trusted
      <4> QED BY <3>3, <4>2 DEF Trusted
    <3> QED BY <1>2, <1>10, <2>1, <3>2, <3>3, <3>4, ValuesAre
  <2>2. CASE op.method = "AddCard" /\ c = op.result.card
    <3> PICK new : new = NewCard(op.client.userID, op.arg)
      OBVIOUS
    <3>1. now = IF was = Unclear THEN was ELSE new[f]
      BY <1>4, <1>10, <2>2
    <3>2. new[f] \in ValuesOf(f)
      <4>1. new \in CardType
        BY <1>1, <2>2, NewCardTyped DEF OpTrue, CardMethods
      <4> QED BY <4>1, CardFields
    <3> QED BY <1>2, <1>3, <1>6, <1>10, <2>2, <3>1, <3>2
  <2>3. CASE op.method = "AddCard" /\ c # op.result.card
    <3>1. now = was /\ ~Known(c)
      BY <1>4, <1>5, <1>10, <2>3
    <3> QED BY <1>2, <2>3, <3>1
  <2>4. CASE op.method \in CardMethods
    <3>1. op.method \notin {"AddCard", "UpdateUserOwnership"} /\ op.arg \in ArgsOf(op.method)
      BY <1>1, <2>4 DEF OpTrue, CardMethods
    <3>2. now = IF was = Unclear THEN was ELSE Intended(op)[f]
      BY <1>4, <1>10, <3>1
    <3>3. c = op.client.cardID /\ f \in DOMAIN Intended(op)
      BY <1>10, <2>4, TouchedIs
    <3>4. Intended(op)[f] \in ValuesOf(f)
      BY <2>4, <3>1, <3>3, IntendedTyped
    <3>5. Known(c)
      BY <1>1, <2>4, <3>3 DEF OpTrue, CardMethods
    <3>6. now \notin {Absent, Unclear} => cards[c][f] = now
      <4>1. Touches(w, c, f)
        BY <1>1, <1>10 DEF Touches
      <4>2. Trusted(c, f) => Promised(op, c, f) \in {cards[c][f], Unclear}
        BY <1>1, <1>10, <4>1 DEF BInv, FieldsTrue, FieldTrue, Trusted
      <4>3. Promised(op, c, f) = Intended(op)[f]
        BY <3>1 DEF Promised
      <4>4. was # Absent /\ Intended(op)[f] # Unclear
        BY <1>2, <1>3, <3>4, <3>5
      <4>5. CASE was = Unclear
        BY <3>2, <4>5
      <4>6. CASE was # Unclear
        <5>1. Trusted(c, f) /\ now = Intended(op)[f]
          BY <3>2, <4>4, <4>6 DEF Trusted
        <5> QED BY <4>2, <4>3, <4>4, <5>1
      <4> QED BY <4>5, <4>6
    <3>7. CASE was = Unclear
      <4>1. now = Unclear
        BY <3>2, <3>7
      <4> QED BY <1>2, <1>3, <1>10, <3>1, <3>5, <3>7, <4>1
    <3>8. CASE was # Unclear
      <4>1. now \in ValuesOf(f)
        BY <3>2, <3>4, <3>8
      <4> QED BY <1>3, <1>10, <3>1, <3>5, <3>6, <3>8, <4>1
    <3> QED BY <3>7, <3>8
  <2>5. CASE op.method \in ReadMethods
    BY <1>10, <2>5, TouchedIs
  <2> QED BY <1>1, <2>1, <2>2, <2>3, <2>4, <2>5, AllMethods
<1> QED BY <1>1, <1>7, <1>8, <1>9, <1>10

LEMMA AcknowledgeBInv ==
    ASSUME BInv, [Next]_vars, NEW w \in Workers, Acknowledge(w)
    PROVE  BInv'
<1> PICK op : op = call[w]
  OBVIOUS
<1>1. IInv' /\ OutcomesTrue'
  BY StepEffect, UnclearStays DEF BInv
<1>2. Done(w) /\ Busy(w) /\ UNCHANGED <<cards, executed, moved, made, wire, replies, outcome>>
  BY DEF Acknowledge, serverVars, Done, Busy
<1>3. call' = [v \in Workers |-> IF v = w THEN IdleCall ELSE call[v]]
  BY DEF Acknowledge, BInv, IInv
<1>4. call'[w] = IdleCall /\ \A v \in Workers : v # w => call'[v] = call[v] /\ SameCall(v) /\ (Busy(v)' <=> Busy(v))
  BY <1>3 DEF SameCall, Busy
<1>5. IdleCall.pc = "idle" /\ IdleCall.id = 0 /\ IdleCall.result = NoResult /\ IdleCall.due = {}
  <2>1. IdleCall.pc = "idle" /\ IdleCall.id = 0 /\ IdleCall.result = NoResult
    BY DEF IdleCall
  <2> QED BY <2>1, IdleDue
<1>6. ~Busy(w)'
  BY <1>4, <1>5 DEF Busy
<1>7. /\ believed' = [c \in Cards |-> believed'[c]]
      /\ \A c \in Cards : Whole(believed'[c])
      /\ \A c \in Cards, f \in Fields : believed'[c][f] = Learned(w, c, f)
  BY Acknowledged
<1>8. /\ OpTrue(op) /\ op.id \in Calls
      /\ outcome[op.id] \in {"succeeded", "refused", "unclear"}
      /\ outcome[op.id] = "succeeded" /\ op.method = "AddCard" => NewTrue(op, op.result.card)
  BY <1>2, DoneFacts
<1>9. ASSUME NEW c \in Cards, NEW f \in Fields
      PROVE  /\ believed'[c][f] \in ValuesOf(f) \cup {Absent, Unclear}
             /\ <<c, f>> \notin Touched(op) => believed'[c][f] = believed[c][f]
             /\ believed[c][f] = Unclear => believed'[c][f] = Unclear
             /\ believed[c][f] # Absent => believed'[c][f] # Absent
             /\ believed'[c][f] = Unclear => \E id \in Calls : outcome'[id] = "unclear"
             /\ ~Known(c) /\ believed'[c][f] \notin {believed[c][f], Unclear} =>
                   outcome[op.id] = "succeeded" /\ op.method = "AddCard" /\ c = op.result.card
             /\ ~Known(c) /\ believed'[c][f] = Unclear /\ f = "info" => believed[c][f] = Unclear
             /\ outcome[op.id] = "succeeded" /\ op.method = "AddCard" /\ c = op.result.card => believed'[c][f] # Absent
             /\ believed'[c][f] \notin {Absent, Unclear} /\ <<c, f>> \in Touched(op) => cards'[c][f] = believed'[c][f]
  <2>1. believed'[c][f] = Learned(w, c, f)
    BY <1>7
  <2> QED BY <1>2, <2>1, LearnedIs
<1>10. KnownGrows
  BY <1>9 DEF KnownGrows, Known, Fields
\* The only card that the service comes to know is a new one.
<1>11. ASSUME NEW c \in Cards, ~Known(c), Known(c)'
       PROVE  /\ outcome[op.id] = "succeeded" /\ op.method = "AddCard" /\ c = op.result.card
              /\ cards[c] # Absent /\ \A f \in Fields : <<c, f>> \in Touched(op)
  <2>1. believed[c]["info"] = Absent /\ believed'[c]["info"] # Absent
    BY <1>11 DEF Known
  <2>2. outcome[op.id] = "succeeded" /\ op.method = "AddCard" /\ c = op.result.card
    BY <1>9, <1>11, <2>1, Admin DEF Fields
  <2>3. NewTrue(op, c)
    BY <1>8, <2>2
  <2> QED BY <2>2, <2>3, TouchedIs DEF NewTrue
<1>12. RegistryTyped'
  <2>1. ASSUME NEW c \in Cards PROVE BeliefTyped(c)'
    <3>1. BeliefTyped(c)
      BY DEF BInv, RegistryTyped
    <3>2. Known(c)' => cards'[c] # Absent /\ \A f \in Fields : believed'[c][f] # Absent
      <4>1. CASE Known(c)
        BY <1>2, <1>9, <3>1, <4>1 DEF BeliefTyped
      <4>2. CASE ~Known(c)
        BY <1>2, <1>9, <1>11, <4>2
      <4> QED BY <4>1, <4>2
    <3>3. ASSUME ~Known(c)', NEW f \in Fields PROVE believed'[c][f] \in {Absent, Unclear}
      <4>1. ~Known(c)
        BY <1>10, <3>3 DEF KnownGrows
      <4>2. believed[c][f] \in {Absent, Unclear}
        BY <3>1, <4>1 DEF BeliefTyped
      <4>3. believed'[c]["info"] = Absent
        BY <3>3 DEF Known
      <4>4. ~(outcome[op.id] = "succeeded" /\ op.method = "AddCard" /\ c = op.result.card)
        BY <1>9, <4>3 DEF Fields
      <4> QED BY <1>9, <4>1, <4>2, <4>4
    <3> QED BY <1>7, <1>9, <3>2, <3>3 DEF BeliefTyped
  <2> QED BY <1>2, <1>7, <2>1 DEF BInv, RegistryTyped
<1>13. ASSUME NEW v \in Workers, v # w
       PROVE  /\ Touched(call[v])' \subseteq Touched(call[v]) /\ Concerns(call[v])' \subseteq Concerns(call[v])
              /\ OpTrue(call[v]) => OpTrue(call[v])'
              /\ \A c \in Cards : \A f : Known(c) /\ <<c, f>> \in Touched(call[v]) => <<c, f>> \in Touched(call[v])'
  BY <1>4, <1>10, <1>13, TouchedShrinks
\* What another call is concerned with stays as it is.
<1>14. ASSUME NEW v \in Workers, v # w, Busy(v), NEW c \in Cards, NEW f \in Fields, <<c, f>> \in Concerns(call[v])
       PROVE  <<c, f>> \notin Touched(op) /\ believed'[c][f] = believed[c][f]
  <2>1. Concerns(call[v]) \cap Concerns(op) = {}
    BY <1>2, <1>14 DEF BInv, CallsApart
  <2>2. <<c, f>> \notin Touched(op)
    BY <1>14, <2>1, TouchedIs
  <2> QED BY <1>9, <2>2
<1>15. CallsTyped'
  <2>1. NoResult \in ResultType
    <3>1. [NoResult EXCEPT !.err = NoError] = NoResult
      BY DEF NoResult
    <3> QED BY <3>1, NoResultTyped DEF Errors
  <2>2. made \in Nat
    BY Bounds DEF BInv, IInv
  <2>3. CallTyped(call[w])'
    BY <1>2, <1>4, <1>5, <2>1, <2>2 DEF CallTyped
  <2>4. \A v \in Workers : v # w => CallTyped(call[v])'
    BY <1>2, <1>4, <1>13 DEF BInv, CallsTyped, CallTyped
  <2> QED BY <1>2, <2>3, <2>4 DEF BInv, CallsTyped
<1>16. CallsApart'
  <2> SUFFICES ASSUME NEW u \in Workers, NEW v \in Workers, u # v, Busy(u)', Busy(v)'
               PROVE  call'[u].id # call'[v].id /\ Concerns(call[u])' \cap Concerns(call[v])' = {}
    BY DEF CallsApart
  <2>1. u # w /\ v # w
    BY <1>6
  <2>2. Busy(u) /\ Busy(v) /\ call'[u].id = call[u].id /\ call'[v].id = call[v].id
    BY <1>4, <2>1
  <2>3. call[u].id # call[v].id /\ Concerns(call[u]) \cap Concerns(call[v]) = {}
    BY <2>2 DEF BInv, CallsApart
  <2> QED BY <1>13, <2>1, <2>2, <2>3
\* A request whose answer nobody waits for any more is forsaken.
<1>17. ASSUME NEW o, OpTrue(o), Forsaken(o) PROVE OpTrue(o)' /\ Forsaken(o)'
  <2>1. OpTrue(o)' /\ (o.method # "AddCard" => Touched(o)' = Touched(o))
    BY <1>10, <1>17, OpStays
  <2>2. Touched(o) \subseteq Cards \X Fields
    BY <1>17, TouchedIn
  <2>3. ASSUME o.method # "AddCard", NEW x \in Touched(o) PROVE believed'[x[1]][x[2]] = Unclear
    <3>1. believed[x[1]][x[2]] = Unclear /\ x[1] \in Cards /\ x[2] \in Fields
      BY <1>17, <2>2, <2>3 DEF Forsaken
    <3> QED BY <1>9, <3>1
  <2> QED BY <2>1, <2>3 DEF Forsaken
<1>18. ASSUME outcome[op.id] = "unclear" PROVE OpTrue(op)' /\ Forsaken(op)'
  <2>1. OpTrue(op)' /\ (op.method # "AddCard" => Touched(op)' = Touched(op))
    BY <1>8, <1>10, OpStays
  <2>2. Touched(op) \subseteq Cards \X Fields
    BY <1>8, TouchedIn
  <2>3. ASSUME op.method # "AddCard", NEW x \in Touched(op) PROVE believed'[x[1]][x[2]] = Unclear
    <3> PICK c : c = x[1]
      OBVIOUS
    <3> PICK f : f = x[2]
      OBVIOUS
    <3>1. c \in Cards /\ f \in Fields /\ <<c, f>> \in Touched(op)
      BY <2>2, <2>3
    <3>2. Learned(w, c, f) = Unclear
      BY <1>18, <2>3, <3>1 DEF Learned
    <3> QED BY <1>7, <3>1, <3>2
  <2> QED BY <2>1, <2>3 DEF Forsaken
<1>19. ASSUME NEW m \in wire' PROVE WireTrue(m)'
  <2>1. m \in wire /\ WireTrue(m) /\ RequestTrue(m)
    BY <1>2 DEF BInv, IInv
  <2>2. ~Owns(w, m)' /\ \A v \in Workers : v # w => (Owns(v, m)' <=> Owns(v, m))
    BY <1>4, <1>6 DEF Owns, SameCall
  <2>3. CASE Owns(w, m)
    <3>1. m.request = RequestOf(op) /\ \A v \in Workers : v # w => ~Owns(v, m)
      BY <2>1, <2>3 DEF WireTrue, Owns, BInv, CallsApart
    <3>2. outcome[op.id] = "unclear"
      BY <1>8, <2>1, <2>3 DEF RequestTrue, Owns
    <3>3. OpTrue(op)' /\ Forsaken(op)'
      BY <1>18, <3>2
    <3> QED BY <2>2, <3>1, <3>3 DEF WireTrue
  <2>4. CASE \E v \in Workers : v # w /\ Owns(v, m) /\ m.request = RequestOf(call[v])
    <3>1. PICK v \in Workers : v # w /\ Owns(v, m) /\ m.request = RequestOf(call[v])
      BY <2>4
    <3>2. RequestOf(call[v])' = RequestOf(call[v])
      BY <1>4, <3>1, CallStays
    <3> QED BY <2>2, <3>1, <3>2 DEF WireTrue
  <2>5. CASE (\A v \in Workers : ~Owns(v, m)) /\ \E o : OpTrue(o) /\ m.request = RequestOf(o) /\ Forsaken(o)
    <3>1. PICK o : OpTrue(o) /\ m.request = RequestOf(o) /\ Forsaken(o)
      BY <2>5
    <3>2. OpTrue(o)' /\ Forsaken(o)'
      BY <1>17, <3>1
    <3> QED BY <2>2, <2>5, <3>1, <3>2 DEF WireTrue
  <2> QED BY <2>1, <2>3, <2>4, <2>5 DEF WireTrue
<1>20. \A v \in Workers : v # w => (Carried(v)' <=> Carried(v))
  BY <1>2, <1>4 DEF Carried
\* A transfer promises the same as long as nobody else is concerned.
<1>21. ASSUME NEW v \in Workers, v # w, NEW c \in Cards, NEW f \in Fields, Touches(v, c, f)
       PROVE  Promised(call[v], c, f)' = Promised(call[v], c, f)
  <2>1. SameCall(v) /\ Busy(v) /\ <<c, f>> \in Touched(call[v])
    BY <1>4, <1>21 DEF Touches
  <2>2. CASE call[v].method # "UpdateUserOwnership"
    <3>1. Intended(call[v])' = Intended(call[v])
      BY <2>1, CallStays
    <3> QED BY <2>1, <2>2, <3>1 DEF Promised, SameCall
  <2>3. CASE call[v].method = "UpdateUserOwnership"
    <3> PICK u : u = call[v].client.userID
      OBVIOUS
    <3> PICK to : to = call[v].arg
      OBVIOUS
    <3> PICK b : b = believed[c]
      OBVIOUS
    <3> PICK n : n = believed'[c]
      OBVIOUS
    <3>1. f = "user_id"
      BY <2>1, <2>3, TouchedIs
    <3>2. n["user_id"] = b["user_id"] /\ n["revoked"] = b["revoked"]
      <4>1. <<c, "user_id">> \in Concerns(call[v]) /\ <<c, "revoked">> \in Concerns(call[v])
        BY <2>3, TouchedIs
      <4> QED BY <1>14, <1>21, <2>1, <4>1 DEF Fields
    <3>3. Whole(b) /\ Whole(n)
      BY <1>7 DEF BInv, RegistryTyped, BeliefTyped
    <3> PICK p : p = AfterTransfer(b, u, to)["user_id"]
      OBVIOUS
    <3> PICK q : q = AfterTransfer(n, u, to)["user_id"]
      OBVIOUS
    <3>4. /\ b["user_id"] # u \/ Revoked(b) => p = b["user_id"]
          /\ b["user_id"] = u /\ ~Revoked(b) /\ NotRevoked(b) => p = to
          /\ b["user_id"] = u /\ ~Revoked(b) /\ ~NotRevoked(b) => p = Unclear
      BY <3>3, TransferOwner
    <3>5. /\ n["user_id"] # u \/ Revoked(n) => q = n["user_id"]
          /\ n["user_id"] = u /\ ~Revoked(n) /\ NotRevoked(n) => q = to
          /\ n["user_id"] = u /\ ~Revoked(n) /\ ~NotRevoked(n) => q = Unclear
      BY <3>3, TransferOwner
    <3>6. (Revoked(n) <=> Revoked(b)) /\ (NotRevoked(n) <=> NotRevoked(b))
      BY <3>2 DEF Revoked, NotRevoked
    <3>7. p = q
      BY <3>2, <3>4, <3>5, <3>6
    <3>8. Promised(call[v], c, f) = p
      BY <2>3, <3>1 DEF Promised
    <3>9. Promised(call[v], c, f)' = q
      BY <2>1, <2>3, <3>1 DEF Promised, SameCall, AfterTransfer
    <3> QED BY <3>7, <3>8, <3>9
  <2> QED BY <2>2, <2>3
<1>22. ASSUME NEW c \in Cards, NEW f \in Fields PROVE FieldTrue(c, f)'
  <2> SUFFICES ASSUME believed'[c][f] \notin {Absent, Unclear}
               PROVE  /\ \A v \in Workers : Touches(v, c, f)' /\ Carried(v)' => Promised(call[v], c, f)' \in {cards'[c][f], Unclear}
                      /\ (\A v \in Workers : Touches(v, c, f)' => ~Carried(v)') => cards'[c][f] = believed'[c][f]
    BY DEF FieldTrue
  <2>1. ~Touches(w, c, f)' /\ \A v \in Workers : v # w => (Touches(v, c, f)' => Touches(v, c, f))
    BY <1>4, <1>6, <1>13 DEF Touches
  <2>2. CASE <<c, f>> \in Touched(op)
    <3>1. cards'[c][f] = believed'[c][f]
      BY <1>9, <2>2
    <3>2. \A v \in Workers : v # w => ~Touches(v, c, f)
      BY <1>14, <2>2, TouchedIs DEF Touches
    <3> QED BY <2>1, <3>1, <3>2
  <2>3. CASE <<c, f>> \notin Touched(op)
    <3>1. believed'[c][f] = believed[c][f] /\ ~Touches(w, c, f)
      BY <1>9, <2>3 DEF Touches
    <3>2. Trusted(c, f) /\ FieldTrue(c, f) /\ Known(c)
      BY <3>1, TrustedIsKnown DEF Trusted, BInv, FieldsTrue
    <3>3. \A v \in Workers : v # w => (Touches(v, c, f)' <=> Touches(v, c, f))
      BY <1>4, <1>13, <2>1, <3>2 DEF Touches
    <3>4. ASSUME NEW v \in Workers, Touches(v, c, f)', Carried(v)'
          PROVE  Promised(call[v], c, f)' \in {cards'[c][f], Unclear}
      <4>1. v # w /\ Touches(v, c, f) /\ Carried(v)
        BY <1>20, <2>1, <3>3, <3>4
      <4> QED BY <1>2, <1>21, <3>2, <4>1 DEF FieldTrue, Trusted
    <3>5. ASSUME \A v \in Workers : Touches(v, c, f)' => ~Carried(v)' PROVE cards'[c][f] = believed'[c][f]
      <4>1. \A v \in Workers : Touches(v, c, f) => ~Carried(v)
        BY <1>20, <3>1, <3>3, <3>5
      <4> QED BY <1>2, <3>1, <3>2, <4>1 DEF FieldTrue, Trusted
    <3> QED BY <3>4, <3>5
  <2> QED BY <2>2, <2>3
<1>23. ASSUME NEW v \in Workers, v # w, Busy(v), NEW r, DataTrue(call[v], r) PROVE DataTrue(call[v], r)'
  <2>1. ASSUME call[v].method = "AddCard" PROVE NewTrue(call[v], r.card)'
    <3> PICK k : k = r.card
      OBVIOUS
    <3>1. NewTrue(call[v], k)
      BY <1>23, <2>1 DEF DataTrue
    <3>2. \A f \in Fields : <<k, f>> \in Concerns(call[v])
      BY <2>1, <3>1, TouchedIs DEF NewTrue
    <3>3. \A f \in Fields : believed'[k][f] = believed[k][f]
      BY <1>14, <1>23, <3>1, <3>2 DEF NewTrue
    <3>4. ~Known(k)'
      BY <3>1, <3>3 DEF NewTrue, Known, Fields
    <3> QED BY <1>2, <1>4, <1>23, <3>1, <3>3, <3>4 DEF NewTrue
  <2> QED BY <1>2, <1>4, <1>23, <2>1 DEF DataTrue
<1>24. ASSUME NEW r \in replies' PROVE /\ DataTyped(r)
                                       /\ \E v \in Workers : Awaits(v, r)'
                                       /\ \A v \in Workers : Awaits(v, r)' /\ r.code = 200 => DataTrue(call[v], r)'
  <2>1. /\ DataTyped(r) /\ \E v \in Workers : Awaits(v, r)
        /\ \A v \in Workers : Awaits(v, r) /\ r.code = 200 => DataTrue(call[v], r)
    BY <1>2 DEF BInv, RepliesGood
  <2>2. ~Awaits(w, r) /\ ~Awaits(w, r)'
    BY <1>2, <1>4, <1>5 DEF Awaits, Done
  <2>3. \A v \in Workers : v # w => (Awaits(v, r)' <=> Awaits(v, r)) /\ (Awaits(v, r) => Busy(v))
    BY <1>4 DEF Awaits, Busy
  <2> QED BY <1>23, <2>1, <2>2, <2>3
<1>25. RepliesGood'
  BY <1>24 DEF RepliesGood, DataTyped
<1>26. ASSUME NEW v \in Workers PROVE ResultTrue(call[v])'
  <2>1. CASE v = w
    BY <1>4, <1>5, <2>1 DEF ResultTrue
  <2>2. CASE v # w
    <3>1. ResultTrue(call[v]) /\ call'[v] = call[v] /\ (call[v].pc = "returned" => Busy(v))
      BY <1>4, <2>2 DEF BInv, Busy
    <3> QED BY <1>2, <1>23, <2>2, <3>1 DEF ResultTrue
  <2> QED BY <2>1, <2>2
<1>27. ASSUME NEW v \in Workers PROVE CountTrue(v)'
  <2>1. CASE v = w
    BY <1>6, <2>1 DEF CountTrue
  <2>2. CASE v # w
    <3> SUFFICES ASSUME Busy(v), call[v].method = "UpdateUserOwnership", Carried(v), NothingLost'
                 PROVE  moved[call[v].id] = Cardinality(BelievedOf(call[v].client.userID))'
      BY <1>2, <1>4, <1>20, <2>2 DEF CountTrue
    <3>1. \A c \in Cards : /\ <<c, "user_id">> \in Concerns(call[v]) /\ <<c, "revoked">> \in Concerns(call[v])
      BY TouchedIs
    <3>2. \A c \in Cards : /\ <<c, "user_id">> \notin Touched(op)
                           /\ believed'[c]["user_id"] = believed[c]["user_id"]
                           /\ believed'[c]["revoked"] = believed[c]["revoked"]
      BY <1>14, <2>2, <3>1 DEF Fields
    <3>3. BelievedOf(call[v].client.userID)' = BelievedOf(call[v].client.userID)
      BY <1>4, <2>2, <3>2 DEF BelievedOf
    <3>4. \A c \in Cards : Known(c)' => Known(c)
      BY <1>11, <3>2 DEF Fields
    <3>5. NothingLost
      BY <1>2, <3>4 DEF NothingLost, UnknownCards
    <3> QED BY <3>3, <3>5 DEF BInv, CountTrue
  <2> QED BY <2>1, <2>2
<1> QED BY <1>1, <1>12, <1>15, <1>16, <1>19, <1>22, <1>25, <1>26, <1>27 DEF BInv, FieldsTrue

-----------------------------------------------------------------------------
(* The theorems.                                                           *)

LEMMA InitBInv == Init => BInv
<1> SUFFICES ASSUME Init PROVE BInv
  OBVIOUS
<1> PICK new : new = NewCard(Owner, FirstInfo)
  OBVIOUS
<1>1. IInv
  BY InitInv
<1>2. /\ new \in CardType /\ new # Absent /\ Whole(new)
      /\ \A f \in Fields : new[f] \in ValuesOf(f) /\ new[f] \notin {Absent, Unclear}
  <2>1. new \in CardType
    BY Admin, NewCardTyped
  <2> QED BY <2>1, Admin, CardFields DEF Whole
<1>3. /\ cards = [c \in Cards |-> IF c \in Registered THEN new ELSE Absent]
      /\ believed = [c \in Cards |-> IF c \in Registered THEN new ELSE NothingKnown]
      /\ wire = {} /\ replies = {} /\ made = 0
      /\ outcome = [id \in Calls |-> "none"] /\ executed = [id \in Calls |-> 0] /\ moved = [id \in Calls |-> 0]
  BY DEF Init
<1>4. Whole(NothingKnown) /\ \A f \in Fields : NothingKnown[f] = Absent
  BY DEF NothingKnown, Whole
<1>5. \A w \in Workers : call[w] = IdleCall /\ ~Busy(w)
  BY DEF Init, Busy, IdleCall
<1>6. IdleCall.pc = "idle" /\ IdleCall.id = 0 /\ IdleCall.result = NoResult /\ IdleCall.due = {}
  <2>1. IdleCall.pc = "idle" /\ IdleCall.id = 0 /\ IdleCall.result = NoResult
    BY DEF IdleCall
  <2> QED BY <2>1, IdleDue
<1>7. NoResult \in ResultType
  <2>1. [NoResult EXCEPT !.err = NoError] = NoResult
    BY DEF NoResult
  <2> QED BY <2>1, NoResultTyped DEF Errors
<1>8. OutcomesTrue
  BY <1>3 DEF OutcomesTrue
<1>9. ASSUME NEW c \in Cards
      PROVE  /\ cards[c] = IF c \in Registered THEN new ELSE Absent
             /\ \A f \in Fields : believed[c][f] = IF c \in Registered THEN new[f] ELSE Absent
             /\ Whole(believed[c]) /\ (Known(c) <=> c \in Registered)
  <2>1. CASE c \in Registered
    <3>1. cards[c] = new /\ believed[c] = new
      BY <1>3, <2>1
    <3> QED BY <1>2, <2>1, <3>1 DEF Known, Fields
  <2>2. CASE c \notin Registered
    <3>1. cards[c] = Absent /\ believed[c] = NothingKnown
      BY <1>3, <2>2
    <3> QED BY <1>4, <2>2, <3>1 DEF Known, Fields
  <2> QED BY <2>1, <2>2
<1>10. RegistryTyped
  <2>1. ASSUME NEW c \in Cards PROVE BeliefTyped(c)
    BY <1>2, <1>9, Admin DEF BeliefTyped
  <2>2. cards = [c \in Cards |-> cards[c]] /\ believed = [c \in Cards |-> believed[c]]
    BY <1>3
  <2> QED BY <1>2, <1>9, <2>1, <2>2 DEF RegistryTyped
<1>11. CallsTyped
  <2>1. \A w \in Workers : CallTyped(call[w])
    BY <1>3, <1>5, <1>6, <1>7 DEF CallTyped
  <2> QED BY <1>3, <2>1 DEF CallsTyped
<1>12. CallsApart
  BY <1>5 DEF CallsApart
<1>13. FieldsTrue
  <2>1. \A c, f : \A w \in Workers : ~Touches(w, c, f)
    BY <1>5 DEF Touches
  <2> QED BY <1>9, <2>1 DEF FieldsTrue, FieldTrue
<1>14. \A w \in Workers : ResultTrue(call[w]) /\ CountTrue(w)
  BY <1>5, <1>6 DEF ResultTrue, CountTrue
<1> QED BY <1>1, <1>3, <1>8, <1>10, <1>11, <1>12, <1>13, <1>14 DEF BInv, RepliesGood

LEMMA StepBInv == BInv /\ [Next]_vars => BInv'
<1> SUFFICES ASSUME BInv, [Next]_vars PROVE BInv'
  OBVIOUS
<1>1. ASSUME NEW w \in Workers, NEW op \in ServiceOps, Call(w, op) PROVE BInv'
  BY <1>1, CallBInv
<1>2. ASSUME NEW w \in Workers, NEW op \in ServiceOps, FailLocally(w, op) PROVE BInv'
  BY <1>2, FailBInv
<1>3. ASSUME NEW w \in Workers, Abandon(w) PROVE BInv'
  BY <1>3, AbandonBInv
<1>4. ASSUME NEW w \in Workers, Receive(w) PROVE BInv'
  BY <1>4, ReceiveBInv
<1>5. ASSUME NEW w \in Workers, Acknowledge(w) PROVE BInv'
  BY <1>5, AcknowledgeBInv
<1>6. ASSUME NEW m \in wire, Register(m) PROVE BInv'
  BY <1>6, RegisterBInv
<1>7. ASSUME NEW m \in wire, ChangeCard(m) PROVE BInv'
  BY <1>7, ChangeCardBInv
<1>8. ASSUME NEW m \in wire, Transfer(m) PROVE BInv'
  BY <1>8, TransferBInv
<1>9. ASSUME NEW m \in wire, Show(m) PROVE BInv'
  BY <1>9, ShowBInv
<1>10. ASSUME NEW m \in wire, Decline(m) PROVE BInv'
  BY <1>10, DeclineBInv
<1>11. CASE UNCHANGED vars
  <2>1. UNCHANGED <<cards, executed, moved, believed, call, made, wire, replies, outcome>>
    BY <1>11 DEF vars, serverVars
  <2>2. IInv' /\ OutcomesTrue'
    BY StepEffect, UnclearStays DEF BInv
  <2>3. SameCalls
    BY <2>1, StillCalls
  <2>4. /\ RegistryTyped' /\ CallsApart' /\ FieldsTrue'
        /\ \A m \in wire : WireTrue(m)'
        /\ \A w \in Workers : CountTrue(w)'
    BY <2>1, <2>3, QuietStep
  <2>5. \A w \in Workers : OpTrue(call[w]) => OpTrue(call[w])'
    BY <2>1, <2>3, CallsQuiet
  <2>6. CallsTyped'
    <3>1. \A w \in Workers : CallTyped(call[w])'
      BY <2>1, <2>5 DEF BInv, CallsTyped, CallTyped
    <3> QED BY <2>1, <3>1 DEF BInv, CallsTyped
  <2>7. ASSUME NEW w \in Workers, NEW r PROVE DataTrue(call[w], r) => DataTrue(call[w], r)'
    <3>1. NewTrue(call[w], r.card)' <=> NewTrue(call[w], r.card)
      BY <2>1, <2>3, SameNew DEF SameCalls
    <3> QED BY <2>1, <3>1 DEF DataTrue
  <2>8. ASSUME NEW r \in replies PROVE /\ DataTyped(r)
                                       /\ \E w \in Workers : Awaits(w, r)'
                                       /\ \A w \in Workers : Awaits(w, r)' /\ r.code = 200 => DataTrue(call[w], r)'
    BY <2>1, <2>7 DEF BInv, RepliesGood, Awaits
  <2>9. RepliesGood'
    BY <2>1, <2>8 DEF RepliesGood, DataTyped
  <2>10. \A w \in Workers : ResultTrue(call[w])'
    BY <2>1, <2>7 DEF BInv, ResultTrue
  <2> QED BY <2>1, <2>2, <2>4, <2>6, <2>9, <2>10 DEF BInv
<1> QED BY <1>1, <1>2, <1>3, <1>4, <1>5, <1>6, <1>7, <1>8, <1>9, <1>10, <1>11 DEF Next, ServiceStep, ServerStep

\* Every value of a field is one that some card has there.
LEMMA SomeCard ==
    ASSUME NEW f \in Fields, NEW x \in ValuesOf(f)
    PROVE  \E card \in CardType : card[f] = x
<1> PICK base : base = NewCard(Owner, FirstInfo)
  OBVIOUS
<1>1. base \in CardType
  BY Admin, NewCardTyped
<1>2. \A g \in Fields : base[g] \in ValuesOf(g)
  BY <1>1, CardFields
<1> PICK card : card = [g \in Fields |-> IF g = f THEN x ELSE base[g]]
  OBVIOUS
<1>3. card = [g \in Fields |-> card[g]] /\ card[f] = x
  OBVIOUS
<1>4. \A g \in Fields : card[g] \in ValuesOf(g)
  BY <1>2
<1> QED BY <1>3, <1>4, CardShape

\* Values stay of their types, whatever cards, users, goroutines and calls there
\* are (card_manage.go:10-118, card_settings.go, card.go, card_ledgers.go,
\* card_prices.go, with client.go:354-404).
THEOREM CardsStayTyped == Spec => []TypeOK
<1>1. BInv => TypeOK
  <2> SUFFICES ASSUME BInv PROVE TypeOK
    OBVIOUS
  <2>1. ASSUME NEW c \in Cards
        PROVE  /\ cards[c] # Absent => cards[c] \in CardType
               /\ \A f \in Fields : believed[c][f] \notin {Absent, Unclear} =>
                     \E card \in CardType : card[f] = believed[c][f]
    BY SomeCard DEF BInv, RegistryTyped, BeliefTyped
  <2>2. ASSUME NEW w \in Workers
        PROVE  /\ call[w].pc \in {"idle", "sent", "returned"}
               /\ call[w].id \in 0..made
               /\ call[w].result \in ResultType /\ call[w].due \subseteq RowType
    BY DEF BInv, CallsTyped, CallTyped, IInv, CallsTrue, CallTrue
  <2>3. \A m \in wire : m.id \in 1..made
    BY DEF BInv, IInv, RequestTrue
  <2>4. \A r \in replies : r.id \in 1..made /\ r.body \in Bodies
    BY DEF BInv, IInv, ReplyTrue, Bodies
  <2>5. executed \in [Calls -> Nat] /\ moved \in [Calls -> Nat]
    BY DEF BInv, IInv, CallsTyped
  <2>6. made \in 0..MaxCalls /\ outcome \in [Calls -> {"none", "open", "succeeded", "refused", "unclear"}]
    BY DEF BInv, IInv, Effects!Outcomes
  <2> QED BY <2>1, <2>2, <2>3, <2>4, <2>5, <2>6 DEF TypeOK
<1> QED BY <1>1, InitBInv, StepBInv, PTL DEF Spec

\* For any number of goroutines and calls: a field that the service trusts, and
\* that no call in progress may change, is in IBS as the service takes it to be,
\* whatever was lost or carried out late (card_manage.go:80-118,
\* card_settings.go, with client.go:354-404).
THEOREM ServiceKnowsItsCards == Spec => []BeliefsAreTrue
<1>1. BInv => BeliefsAreTrue
  <2> SUFFICES ASSUME BInv, NEW c \in Cards, NEW f \in Fields, Trusted(c, f),
                      \A w \in Workers : Busy(w) => <<c, f>> \notin Touched(call[w])
               PROVE  cards[c] # Absent /\ cards[c][f] = believed[c][f]
    BY DEF BeliefsAreTrue, Trusted
  <2>1. cards[c] # Absent
    BY TrustedIsKnown
  <2>2. \A w \in Workers : ~Touches(w, c, f)
    BY DEF Touches
  <2> QED BY <2>1, <2>2 DEF BInv, FieldsTrue, FieldTrue, Trusted
<1> QED BY <1>1, InitBInv, StepBInv, PTL DEF Spec

\* The count of UpdateUserOwnership is what this very call transferred and, if
\* nothing was ever lost, what the service would count itself, while other
\* goroutines change and register cards (card_settings.go:89-102).
THEOREM TransfersAreCounted == Spec => []CountIsRight
<1>1. BInv => CountIsRight
  <2> SUFFICES ASSUME BInv, NEW w \in Workers, Done(w),
                      call[w].method = "UpdateUserOwnership", call[w].result.err = NoError
               PROVE  /\ call[w].result.count = moved[call[w].id]
                      /\ NothingLost => call[w].result.count = Cardinality(BelievedOf(call[w].client.userID))
    BY DEF CountIsRight, Done, NothingLost, BelievedOf
  <2>1. call[w].result.count = moved[call[w].id]
    BY DEF BInv, ResultTrue, DataTrue, Decoding, Done
  <2>2. outcome[call[w].id] = "succeeded"
    BY DEF BInv, ResultTrue, OutcomeOf, Done
  <2>3. Busy(w) /\ Carried(w)
    BY <2>2, DoneFacts
  <2> QED BY <2>1, <2>3 DEF BInv, CountTrue
<1> QED BY <1>1, InitBInv, StepBInv, PTL DEF Spec

\* A lookup that returns no error shows what its client's scope stood for when IBS
\* answered it, for any registry, page, filters and scope, but for GetCardInfo of a
\* client with a card and no user (card.go:105-110): that one shows no card at all,
\* not even the one asked for, and none of another scope (card.go:102-123,
\* card_ledgers.go:52-60, card_prices.go:67-100).
THEOREM LookupsAnswerTheirScope == Spec => []ReadsAnswerTheirScope
<1>1. BInv => ReadsAnswerTheirScope
  <2> SUFFICES ASSUME BInv, NEW w \in Workers, Done(w), call[w].method \in ReadMethods,
                      call[w].result.err \in {NoError, "NoPrices"}
               PROVE  call[w].result.rows = DueTo(call[w])
    BY DEF ReadsAnswerTheirScope, Done, ReadMethods
  <2>1. CASE call[w].result.err = NoError
    BY <2>1 DEF BInv, ResultTrue, DataTrue, Decoding, ReadMethods, Done
  <2>2. CASE call[w].result.err = "NoPrices"
    BY <2>2 DEF BInv, ResultTrue, Done, DueTo
  <2> QED BY <2>1, <2>2
<1> QED BY <1>1, InitBInv, StepBInv, PTL DEF Spec

=============================================================================
