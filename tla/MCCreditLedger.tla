--------------------------- MODULE MCCreditLedger ---------------------------
(* CreditLedger on one account with two monthly invoices of one            *)
(* subscription, or a single large one, and two jobs.                      *)
EXTENDS CreditLedger, TLC

CONSTANTS first, second, sub, admin

TwoInvoices == (first :> 2) @@ (second :> 1)
SameSubscription == (first :> sub) @@ (second :> sub)
OneInvoice == first :> sub
LargeInvoice == first :> 4
OneBonus == admin :> 1
NoBonus == <<>>

JobsInterchangeable == Permutations(Ops)
=============================================================================
