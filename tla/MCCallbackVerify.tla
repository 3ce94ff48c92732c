-------------------------- MODULE MCCallbackVerify --------------------------
(***************************************************************************)
(* Instances of CallbackVerify for TLC: callbacks that differ in what the  *)
(* verifier and the parsers look at, and configurations that differ from   *)
(* the right one in one thing each.                                        *)
(***************************************************************************)
EXTENDS CallbackVerify

CONSTANTS txReverse, cardReverse, noId, other, blank, garbage, longNonce, h1

Payload(event, tx, order) == [event |-> event, transactionID |-> tx, orderID |-> order]

MCPayloadOf == [c \in Callbacks |->
    CASE c \in {txReverse, longNonce} -> Payload("pending_transaction_reverse", TRUE, FALSE)
      [] c = cardReverse              -> Payload("pending_card_reverse", TRUE, TRUE)
      [] c = noId                     -> Payload("pending_card_reverse", TRUE, FALSE)
      [] c = other                    -> Payload("other", TRUE, TRUE)
      [] c = blank                    -> Payload("blank", TRUE, TRUE)
      [] OTHER                        -> NotJSON]

MCNonceLength == [c \in Callbacks |-> IF c = longNonce THEN MaxNonceLength + 1 ELSE MaxNonceLength]

Credentials(key, secret) == [apiKey |-> String(key), secretKey |-> String(secret)]

MCConfigs == {Credentials(IbsKey, IbsSecret),
              [f \in {"apiKey", "secretKey"} |-> Padded(Credentials(IbsKey, IbsSecret)[f])],
              Credentials("otherKey", IbsSecret), Credentials(IbsKey, "otherSecret"),
              Credentials(IbsKey, "notBase64"), Credentials(Empty, IbsSecret), Credentials(IbsKey, Empty)}

=============================================================================
