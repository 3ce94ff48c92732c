------------------------- MODULE MCCardTransactions -------------------------
(***************************************************************************)
(* Instance of CardTransactions for TLC: two operators of alice's account, *)
(* a topup of hers that is pending or has failed, and three withdrawals,   *)
(* one by bob, that keep the lists from being all alike.                   *)
(***************************************************************************)
EXTENDS CardTransactions, TLC

CONSTANTS t1, t2, t3, t4, w1, w2

Fact(card, user, type, created) ==
    [bank_id |-> "papara", card_id |-> card, user_id |-> user, type |-> type, created |-> created]

MCFacts == t1 :> Fact("card1", "alice", "topup", 2)
        @@ t2 :> Fact("card2", "alice", "withdraw", 1)
        @@ t3 :> Fact("card3", "bob", "withdraw", 1)
        @@ t4 :> Fact("card2", "alice", "withdraw", 5)

MCFirstStatuses == {[tx \in Txs |-> IF tx = t1 THEN first ELSE "success"] : first \in {"pending", "failed"}}

MCClient == [userID |-> Padded(String("alice")), cardID |-> String("")]

AnyTransaction == [BankID |-> String(""), CardID |-> String(""), UserID |-> String(""),
                   Type |-> String(""), Status |-> String(""),
                   FromDate |-> NoTime, ToDate |-> NoTime, Page |-> 0, Limit |-> 0]

MCLists == {[AnyTransaction EXCEPT !.BankID = Padded(String("papara")), !.CardID = Padded(String("")),
                                   !.FromDate = 3, !.ToDate = 5],
            [AnyTransaction EXCEPT !.Status = Padded(Upper(String("reversed")))],
            [AnyTransaction EXCEPT !.CardID = Padded(String("card2")), !.Type = Upper(String("withdraw")),
                                   !.Page = 2, !.Limit = 1],
            [AnyTransaction EXCEPT !.UserID = Upper(String("bob"))],
            [AnyTransaction EXCEPT !.CardID = String(Malformed)]}

Operators == Permutations(Workers)

=============================================================================
