------------------------------ MODULE MCSettlement ------------------------------
(* An instance of Settlement alone for TLC. *)
EXTENDS Settlement

PayTypes == {"PAYMENT_CONFIRMED", "DISPUTED", "RESOLVED"}
===============================================================================
