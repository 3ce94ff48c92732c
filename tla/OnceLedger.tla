----------------------------- MODULE OnceLedger -----------------------------
(***************************************************************************)
(* What balance operations promise their caller                            *)
(* (src/ibs/card_balance.go:19-44): an idempotency key stands for one      *)
(* operation and is applied to the balance at most once, at once or after  *)
(* it has been pending, unless it is reversed; an operation whose caller   *)
(* keeps the key has one key only, so it happens at most once however      *)
(* often it is retried.                                                    *)
(***************************************************************************)
EXTENDS Integers

CONSTANTS Ops,      \* logical operations of the caller
          Fresh,    \* those made through CardBalance: a new key on every call
          Keys,     \* idempotency keys
          Amount,   \* Amount[op]: the signed amount of an operation
          NoOp      \* owner of a key that was never used

VARIABLES owner,    \* which operation a key stands for
          pending,  \* the keys accepted and not decided yet
          applied,  \* the keys that have been applied
          reversed, \* the keys that will never be
          balance

ledgerVars == <<owner, pending, applied, reversed, balance>>

LedgerInit == /\ owner = [k \in Keys |-> NoOp]
              /\ pending = {} /\ applied = {} /\ reversed = {} /\ balance = 0

Bind(k, op) == /\ owner[k] = NoOp
               /\ op \notin Fresh => \A j \in Keys : owner[j] # op
               /\ owner' = [owner EXCEPT ![k] = op]
               /\ UNCHANGED <<pending, applied, reversed, balance>>

New(k) == owner[k] # NoOp /\ k \notin pending \cup applied \cup reversed

Queue(k) == /\ New(k)
            /\ pending' = pending \cup {k}
            /\ UNCHANGED <<owner, applied, reversed, balance>>

Apply(k) == /\ New(k) \/ k \in pending
            /\ applied' = applied \cup {k}
            /\ pending' = pending \ {k}
            /\ balance' = balance + Amount[owner[k]]
            /\ UNCHANGED <<owner, reversed>>

Reverse(k) == /\ k \in pending
              /\ reversed' = reversed \cup {k}
              /\ pending' = pending \ {k}
              /\ UNCHANGED <<owner, applied, balance>>

LedgerNext == \E k \in Keys : Queue(k) \/ Apply(k) \/ Reverse(k) \/ \E op \in Ops : Bind(k, op)

LedgerSpec == LedgerInit /\ [][LedgerNext]_ledgerVars

=============================================================================
