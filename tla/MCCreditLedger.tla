--------------------------- MODULE MCCreditLedger ---------------------------
(***************************************************************************)
(* The constants of the runs of CreditLedger.  A quote is the sequence of  *)
(* running totals of a charge.                                             *)
(***************************************************************************)
EXTENDS CreditLedger

OneOfTwo == {{<<2>>}}
OneAndTwo == {{<<1>>}, {<<1, 2>>}}
Repriced == {{<<1, 2>>, <<2, 4>>}}

SubscriptionAndRecharge == {[kind |-> "subscription_grant", points |-> 2],
                            [kind |-> "recharge", points |-> 2]}
TakeTwo == {-2}
=============================================================================
