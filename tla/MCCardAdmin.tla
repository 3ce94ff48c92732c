----------------------------- MODULE MCCardAdmin -----------------------------
(***************************************************************************)
(* Instance of CardAdmin for TLC: two goroutines of a service, two cards   *)
(* that it has registered and one that it may register, and two users.     *)
(***************************************************************************)
EXTENDS CardAdmin, TLC

CONSTANTS c1, c2, c3, u1, u2, w1, w2

Client(user, card) == [userID |-> user, cardID |-> card]

MCScopes == {Client(NoId, NoId), Client(u1, NoId)}
            \cup {Client(u, c) : u \in {NoId, u1}, c \in Registered}

Price(bank, type, currency) == [bank_id |-> bank, card_type |-> type, currency |-> currency]

MCPriceList == {Price("papara", "virtual", "TRY"), Price("papara", "physical", "TRY")}

MCPriceFilters == {Price("papara", "virtual", ""), Price("", "", "TRY ")}

Interchangeable == Permutations(Workers) \cup Permutations(Registered)

=============================================================================
