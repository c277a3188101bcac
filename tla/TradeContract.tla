----------------------------- MODULE TradeContract -----------------------------
(***************************************************************************)
(* What a trade store promises its readers, whatever happens underneath:   *)
(* a trade moves along the chain one stage at a time, never back; it may   *)
(* be disputed before the last stage and goes on from the stage where it   *)
(* was disputed; a completed or cancelled trade never changes again.       *)
(* (packages/local-store/src/state.ts, header; docs/module-cards/M3.)      *)
(***************************************************************************)
EXTENDS Naturals

CONSTANT Trades

VARIABLES
  progress,   \* [Trades -> 0..7], 0 before the deal is signed, 7 completed
  status      \* [Trades -> {"open", "disputed", "cancelled"}]

cvars == <<progress, status>>

LastStage == 7

CInit ==
  /\ progress = [t \in Trades |-> 0]
  /\ status = [t \in Trades |-> "open"]

Advance(t) ==
  /\ status[t] = "open"
  /\ progress[t] < LastStage
  /\ progress' = [progress EXCEPT ![t] = @ + 1]
  /\ UNCHANGED status

Running(t) == progress[t] \in 1 .. LastStage - 1

Dispute(t) ==
  /\ status[t] = "open" /\ Running(t)
  /\ status' = [status EXCEPT ![t] = "disputed"]
  /\ UNCHANGED progress

Resolve(t) ==
  /\ status[t] = "disputed"
  /\ status' = [status EXCEPT ![t] = "open"]
  /\ UNCHANGED progress

\* A cancelled trade keeps no stage.
Cancel(t) ==
  /\ status[t] # "cancelled" /\ Running(t)
  /\ status' = [status EXCEPT ![t] = "cancelled"]
  /\ progress' = [progress EXCEPT ![t] = 0]

CNext == \E t \in Trades : Advance(t) \/ Dispute(t) \/ Resolve(t) \/ Cancel(t)

CSpec == CInit /\ [][CNext]_cvars
===============================================================================
