----------------------------- MODULE ConfigCell -----------------------------
(***************************************************************************)
(* What the package promises about its global configuration                *)
(* (src/ibs/client.go:81-106): one cell, written at most once in the life  *)
(* of the process.  The write either installs the configuration of one     *)
(* Configure call or, when that call dies half way, spends the only write  *)
(* without installing anything.                                            *)
(***************************************************************************)
CONSTANTS Writers,   \* the Configure calls that may be made
          Nil,       \* nothing written yet
          Spent      \* the only write was used up by a call that died

VARIABLE cell

CellInit == cell = Nil

Install(w) == cell = Nil /\ cell' = w

Spend == cell = Nil /\ cell' = Spent

CellNext == Spend \/ \E w \in Writers : Install(w)

CellSpec == CellInit /\ [][CellNext]_cell

=============================================================================
