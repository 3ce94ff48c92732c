----------------------------- MODULE CardRequests -----------------------------
(***************************************************************************)
(* What the methods of a Client ask the API for: for each method of        *)
(* card_manage.go, card_settings.go, card.go, card_ledgers.go and          *)
(* card_prices.go the endpoint, the path segments after it, the query      *)
(* parameters and the JSON body, made from the client's scope and the      *)
(* arguments.  Parameters and bodies are functions from names to values.   *)
(* A client is [userID, cardID], with NoId for an id that it does not      *)
(* carry; New, WithUser, WithCard and WithUserAndCard make any combination *)
(* of the two.                                                             *)
(***************************************************************************)
EXTENDS Sequences

\* The empty string.
NoId == ""

Get(endpoint, path, query) == [endpoint |-> endpoint, path |-> path, query |-> query, body |-> <<>>]

Post(endpoint, body) == [endpoint |-> endpoint, path |-> <<>>, query |-> <<>>, body |-> body]

\* A body with one more parameter.
With(body, name, value) == [n \in DOMAIN body \cup {name} |-> IF n = name THEN value ELSE body[n]]

CardOf(client) == [card_id |-> client.cardID]

UserAndCardOf(client) == [card_id |-> client.cardID, user_id |-> client.userID]

-----------------------------------------------------------------------------
(* Local card management.  The descriptive fields of a card (name, email,  *)
(* number, ...) are one field, info.                                       *)

AddCard(client, info) == Post("/card/add", [user_id |-> client.userID, info |-> info])

\* Faulty variant: every field is sent, an empty one too.
EveryField(update) == update

\* addNonEmptyString, field by field.
NonEmptyFields(update) == [f \in {f \in DOMAIN update : update[f] # ""} |-> update[f]]

\* The update may name a new owner under user_id.
UpdateCardInfo(client, update) == Post("/card/update/info", With(NonEmptyFields(update), "card_id", client.cardID))

DeleteCard(client) == Post("/card/delete", CardOf(client))

-----------------------------------------------------------------------------
(* Settings and ownership.                                                 *)

CardEnable(client, enabled) ==
    Post("/card/setting/enabled", With(UserAndCardOf(client), "enabled", enabled))

CardATM(client, enabled) == Post("/card/setting/atm", With(UserAndCardOf(client), "enabled", enabled))

ChangePIN(client, newPIN) == Post("/card/pin/change", With(UserAndCardOf(client), "new_pin", newPIN))

SendPIN(client) == Post("/card/pin/send", UserAndCardOf(client))

ChangePhone(client, newPhone) ==
    Post("/card/setting/phone", With(UserAndCardOf(client), "new_phone", newPhone))

\* Faulty variant: the present owner is sent as the new one.
OwnerUnchanged(client, newUserID) ==
    Post("/card/update/ownership", With(UserAndCardOf(client), "new_user_id", client.userID))

UpdateOwnership(client, newUserID) ==
    Post("/card/update/ownership", With(UserAndCardOf(client), "new_user_id", newUserID))

UpdateUserOwnership(client, newUserID) ==
    Post("/card/update/ownership/user", [user_id |-> client.userID, new_user_id |-> newUserID])

-----------------------------------------------------------------------------
(* Reads.                                                                  *)

Segment(id) == IF id = NoId THEN <<>> ELSE <<id>>

\* Faulty variant: a client with both ids asks for the card alone.
CardSegmentOnly(client) == Segment(IF client.cardID # NoId THEN client.cardID ELSE client.userID)

\* GetCardInfo leaves out a segment for an id that is empty.
ScopeSegments(client) == Segment(client.userID) \o Segment(client.cardID)

GetCardInfo(client) == Get("/card/get", ScopeSegments(client), <<>>)

\* GetCardLedgers sends both segments, empty or not, and any page.
GetCardLedgers(client, pageNumber) ==
    Get("/card/ledgers", <<client.userID, client.cardID>>, [page |-> pageNumber])

\* Prices leaves out an empty filter and sends the others as they are.
Prices(query) == Get("/card/prices", <<>>, NonEmptyFields(query))

=============================================================================
