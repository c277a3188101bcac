-------------------------------- MODULE MCInbox --------------------------------
(* Instances of Inbox alone for TLC. *)
EXTENDS Inbox, TLC

Symmetry == Permutations(Conns)
===============================================================================
