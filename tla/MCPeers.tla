-------------------------------- MODULE MCPeers --------------------------------
(* An instance of Peers for TLC. *)
EXTENDS Peers, TLC

CONSTANTS u1, u2, c1, c2, d1, s1, s2, h1, h2

\* u1 and u2 are the two parties, senders and agents, or the ids of two tasks; c1 and
\* c2 what a process has under way at once, or two processes.
Actors == {u1, u2}
Slots == {c1, c2}
Symmetry == Permutations(Actors) \cup Permutations(Slots)

MCEventKinds == {"DEAL_SIGNED", "PAYMENT_REQUESTED", "DISPUTED", "RESOLVED", "CANCELLED"}

Body(name, id, subject, bundle, deal, urls) ==
  [name |-> name, id |-> id, subject |-> subject, bundle |-> bundle, deal |-> deal, urls |-> urls,
   settled |-> FALSE, rating |-> "POSITIVE"]

\* Two receipts of one id, for different subjects: one with a deal to fetch, one
\* with a bundle.
MCReceipts ==
  {Body("r1", 1, s1, {}, Absent, 0), Body("r2", 1, s2, Actors, d1, 1),
   Body("r3", 2, s2, {}, Absent, 0)}

MCWeights ==
  {[evidence |-> [bundle |-> 3, referenced |-> 2, none |-> 0], deal |-> 1, noDeal |-> -1,
    settled |-> 1, notSettled |-> -1, requireDeal |-> TRUE, requireSettled |-> FALSE,
    rating |-> [POSITIVE |-> 2, NEUTRAL |-> 1, NEGATIVE |-> -2, FACT_ONLY |-> 0]]}

\* Two offers of one catalog and one of another.
MCOffers == {[catalog |-> h1, item |-> "i1"], [catalog |-> h1, item |-> "i2"],
             [catalog |-> h2, item |-> "i3"]}
===============================================================================
