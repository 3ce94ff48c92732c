--------------------------- MODULE MCCardActivation ---------------------------
(***************************************************************************)
(* Instance of CardActivation for TLC: a virtual and a physical card, and  *)
(* a goroutine that polls.                                                 *)
(***************************************************************************)
EXTENDS CardActivation

CONSTANTS gift, plastic, p1

MCCardType == [a \in Activations |-> IF a = plastic THEN "physical" ELSE "virtual"]

MCUserOf == [a \in Activations |-> IF a = plastic THEN "bob" ELSE "alice"]

Ask(user, type) == [userID |-> user, bankID |-> String(""), cardType |-> type]

MCPollQueries == {Ask(Padded(String("")), String("")),
                  Ask(Padded(String("bob")), String("")),
                  Ask(String(""), Padded(Upper(String("virtual")))),
                  Ask(String(""), String(Malformed))}

=============================================================================
