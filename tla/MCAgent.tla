-------------------------------- MODULE MCAgent --------------------------------
(* Instances of Agent, and of its parts, for TLC. *)
EXTENDS Agent, TLC

PairTypes == {"DEAL_SIGNED", "PAYMENT_REQUESTED", "ESCROWED", "DISPUTED", "RESOLVED"}
PayTypes == {"PAYMENT_CONFIRMED", "DISPUTED", "RESOLVED"}

CONSTANTS x1, x2, y1, y2

\* x1 and x2 are trades to pay for, processes that change tasks, or connections;
\* y1 and y2 are vouchers.
Pair == {x1, x2}
VoucherIds == {y1, y2}
Symmetry == Permutations(Pair) \cup Permutations(VoucherIds) \cup Permutations(Amounts)
===============================================================================
