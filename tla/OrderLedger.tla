---------------------------- MODULE OrderLedger ----------------------------
(***************************************************************************)
(* What the payment side promises about the money of one order, without    *)
(* payments, keys, workers or the provider's journal: an open order is     *)
(* paid once or closed unpaid; a paid order that is cancelled owes its     *)
(* money until it is returned, once.                                       *)
(***************************************************************************)
CONSTANT Orders

VARIABLE ledger

LedgerStates == {"open", "paid", "closed", "owed", "returned"}

LedgerTypeOK == ledger \in [Orders -> LedgerStates]

Move(o, from, to) == ledger[o] = from /\ ledger' = [ledger EXCEPT ![o] = to]

Settle(o)      == Move(o, "open", "paid")
CloseUnpaid(o) == Move(o, "open", "closed")
Owe(o)         == Move(o, "paid", "owed")
GiveBack(o)    == Move(o, "owed", "returned")

LedgerInit == ledger = [o \in Orders |-> "open"]

LedgerNext == \E o \in Orders : Settle(o) \/ CloseUnpaid(o) \/ Owe(o) \/ GiveBack(o)

LedgerSpec == LedgerInit /\ [][LedgerNext]_ledger

=============================================================================
