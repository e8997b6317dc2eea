--------------------------- MODULE MCPaymentEscrow ---------------------------
(* Two escrows between a platform that is also the administrator's account *)
(* and a hub, in either direction, with windows and release times on both  *)
(* sides of each other.                                                    *)
EXTENDS PaymentEscrow

CONSTANTS e1, e2, platform, hub

MCEscrows == {e1, e2}
MCAccounts == {platform, hub}
MCInitialBalance == [a \in MCAccounts |-> IF a = platform THEN 2 ELSE 0]
MCAmounts == {0, 1, 2}
MCWindows == {0, 1}
MCReleaseTimes == {0, 1}
=============================================================================
