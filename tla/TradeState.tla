------------------------------ MODULE TradeState ------------------------------
(***************************************************************************)
(* The trade state machine of packages/local-store/src/state.ts.  A        *)
(* position is the pair the code keeps for a trade: the state its row      *)
(* holds and the state to restore when a dispute is resolved.  transition  *)
(* of the code throws exactly where Allowed is FALSE and returns           *)
(* Transition otherwise; it has no other effect.                           *)
(***************************************************************************)
EXTENDS Naturals

\* undefined (no row yet) and null (no pre-dispute state)
None == "none"

\* The payment-and-delivery chain and how far along it each state lies.
StageOf == [AGREED |-> 1, PAYMENT_PENDING |-> 2, PAYMENT_CONFIRMED |-> 3,
            FULFILLING |-> 4, SHIPPED |-> 5, DELIVERED |-> 6, COMPLETED |-> 7]

ChainStates == DOMAIN StageOf

\* RESOLVED is declared by the code's type but no transition leads to it.
TradeStates == ChainStates \cup {"DISPUTED", "CANCELLED"}

TerminalStates == {"COMPLETED", "CANCELLED"}

\* The states a dispute can have interrupted.
OpenStates == ChainStates \ TerminalStates

\* The events of the chain: the state each requires, the state it leads to.
Source == [DEAL_SIGNED |-> None, PAYMENT_REQUESTED |-> "AGREED",
           PAYMENT_CONFIRMED |-> "PAYMENT_PENDING", ESCROWED |-> "PAYMENT_PENDING",
           FULFILLING |-> "PAYMENT_CONFIRMED", SHIPPED |-> "FULFILLING",
           DELIVERED |-> "SHIPPED", COMPLETED |-> "DELIVERED"]

Target == [DEAL_SIGNED |-> "AGREED", PAYMENT_REQUESTED |-> "PAYMENT_PENDING",
           PAYMENT_CONFIRMED |-> "PAYMENT_CONFIRMED", ESCROWED |-> "PAYMENT_CONFIRMED",
           FULFILLING |-> "FULFILLING", SHIPPED |-> "SHIPPED",
           DELIVERED |-> "DELIVERED", COMPLETED |-> "COMPLETED"]

ChainEvents == DOMAIN Source

EventTypes == ChainEvents \cup {"DISPUTED", "RESOLVED", "CANCELLED"}

Position == [state : TradeStates \cup {None}, pre : TradeStates \cup {None}]

NoTrade == [state |-> None, pre |-> None]

\* Mutant: COMPLETED and CANCELLED do not stop a dispute or a cancellation.
AllowedAfterEnd(c, ty) ==
  \/ ty \in ChainEvents /\ c.state = Source[ty]
  \/ ty \in {"DISPUTED", "CANCELLED"} /\ c.state # None
  \/ ty = "RESOLVED" /\ c.state = "DISPUTED" /\ c.pre # None

\* Mutant: FULFILLING is accepted before the payment is confirmed.
AllowedSkipping(c, ty) ==
  /\ c.state \notin TerminalStates
  /\ \/ ty \in ChainEvents /\ c.state = Source[ty]
     \/ ty = "FULFILLING" /\ c.state = "PAYMENT_PENDING"
     \/ ty \in {"DISPUTED", "CANCELLED"} /\ c.state # None
     \/ ty = "RESOLVED" /\ c.state = "DISPUTED" /\ c.pre # None

\* Does the table accept an event of type ty at position c?
Allowed(c, ty) ==
  /\ c.state \notin TerminalStates
  /\ \/ ty \in ChainEvents /\ c.state = Source[ty]
     \/ ty \in {"DISPUTED", "CANCELLED"} /\ c.state # None
     \/ ty = "RESOLVED" /\ c.state = "DISPUTED" /\ c.pre # None

\* Mutant: a second DISPUTED overwrites the state remembered by the first.
TransitionForgetting(c, ty) ==
  CASE ty \in ChainEvents -> [state |-> Target[ty], pre |-> None]
    [] ty = "DISPUTED"    -> [state |-> "DISPUTED", pre |-> c.state]
    [] ty = "RESOLVED"    -> [state |-> c.pre, pre |-> None]
    [] ty = "CANCELLED"   -> [state |-> "CANCELLED", pre |-> None]

\* Mutant: RESOLVED leads to the state of its own name.
TransitionResolved(c, ty) ==
  CASE ty \in ChainEvents -> [state |-> Target[ty], pre |-> None]
    [] ty = "DISPUTED"    -> [state |-> "DISPUTED",
                              pre |-> IF c.pre = None THEN c.state ELSE c.pre]
    [] ty = "RESOLVED"    -> [state |-> "RESOLVED", pre |-> None]
    [] ty = "CANCELLED"   -> [state |-> "CANCELLED", pre |-> None]

\* The position after an accepted event.  A dispute raised again while one is
\* open keeps the state remembered first.
Transition(c, ty) ==
  CASE ty \in ChainEvents -> [state |-> Target[ty], pre |-> None]
    [] ty = "DISPUTED"    -> [state |-> "DISPUTED",
                              pre |-> IF c.pre = None THEN c.state ELSE c.pre]
    [] ty = "RESOLVED"    -> [state |-> c.pre, pre |-> None]
    [] ty = "CANCELLED"   -> [state |-> "CANCELLED", pre |-> None]

\* The positions the table can reach: a remembered state exactly while a
\* dispute is open, and never a terminal or disputed one.
Sound(c) ==
  /\ c \in Position
  /\ c.state = "DISPUTED" => c.pre \in OpenStates
  /\ c.state # "DISPUTED" => c.pre = None

\* How far along the chain a position stands, an open dispute included.
Reached(c) ==
  IF c.state \in ChainStates THEN StageOf[c.state]
  ELSE IF c.state = "DISPUTED" /\ c.pre \in ChainStates THEN StageOf[c.pre]
  ELSE 0
===============================================================================
