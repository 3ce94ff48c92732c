----------------------------- MODULE SignedMessage -----------------------------
(***************************************************************************)
(* The message under the HMAC of a request (Client.sign, src/ibs/client.go)*)
(* and of a callback (signCallbackBody, src/ibs/callback_verify.go): body, *)
(* API key, timestamp and nonce, joined by the byte 0x1F.  A field is a    *)
(* sequence of bytes, or of longer pieces that hold no separator.          *)
(***************************************************************************)
EXTENDS Sequences

Sep == "0x1F"

\* Faulty variant: the body is left out of the signed message.
BodyNotSigned(body, apiKey, timestamp, nonce) ==
    apiKey \o <<Sep>> \o timestamp \o <<Sep>> \o nonce

\* body || 0x1F || apiKey || 0x1F || timestamp || 0x1F || nonce
Message(body, apiKey, timestamp, nonce) ==
    body \o <<Sep>> \o apiKey \o <<Sep>> \o timestamp \o <<Sep>> \o nonce

=============================================================================
