-------------------------------- MODULE MCStore --------------------------------
(* Instances of LocalStore for TLC. *)
EXTENDS StoreProperties

AllTypes == EventTypes
DisputeTypes == {"DEAL_SIGNED", "PAYMENT_REQUESTED", "DISPUTED", "RESOLVED", "CANCELLED"}
PairTypes == {"DEAL_SIGNED", "PAYMENT_REQUESTED", "ESCROWED", "DISPUTED", "RESOLVED"}
===============================================================================
