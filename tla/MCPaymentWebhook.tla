--------------------------- MODULE MCPaymentWebhook ---------------------------
(***************************************************************************)
(* Two events for TLC, the second of which does not fit on an installment  *)
(* together with the first; two deliveries and two officers at a time.     *)
(***************************************************************************)
EXTENDS PaymentWebhook, TLC

CONSTANTS e1, e2

MCEvents == {e1, e2}
MCAmount == e1 :> 1 @@ e2 :> 2
=============================================================================
