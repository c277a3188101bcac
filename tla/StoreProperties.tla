---------------------------- MODULE StoreProperties ----------------------------
(***************************************************************************)
(* What LocalStore is meant to guarantee, and what its documents say of it. *)
(***************************************************************************)
EXTENDS LocalStore

-------------------------------------------------------------------------------
(* Safety *)

\* A trade remembers a state to return to exactly while it is disputed, and
\* that state is one a dispute can interrupt: not final, not itself DISPUTED.
\* (state.ts:38-46 and the DISPUTED and RESOLVED cases, over any order of
\* disputes, re-disputes, cancellations, crashes and rebuilds.)
DisputeMemory == \A t \in TradeIds : Sound(trades[t])

\* The event table never knows an event whose signed file is not on disk, so
\* that dropping index.sqlite loses nothing.  (store.ts:6-7 and 373.)
FactsFirst == events \subseteq facts

\* Some event of S moves the chain to stage i.
Moves(S, i) == \E e \in S : e.type \in ChainEvents /\ StageOf[Target[e.type]] = i

\* The events of S account for position c: one for every stage reached, and
\* a dispute or a cancellation if that is where it stands.
Earned(c, S) ==
  /\ \A i \in 1 .. Reached(c) : Moves(S, i)
  /\ c.state \in {"DISPUTED", "CANCELLED"} => \E e \in S : e.type = c.state

\* A trade never stands at a stage without a logged, signed event for it and
\* for each stage before it: no COMPLETED without DELIVERED, no FULFILLING
\* without a payment confirmation or escrow.  (state.ts:4-7, across the
\* separate writes of applyEvent and across rebuilds.)
StateIsEarned == \A t \in TradeIds : Earned(trades[t], OfTrade(events, t))

\* A write of the trade row is never pending for an event already in effect:
\* a redelivered DISPUTED cannot reopen a dispute that was resolved.
\* (store.ts:360-366.)
AtMostOnce == \A p \in Procs : pc[p] = "trade" => job[p] \notin applied

-------------------------------------------------------------------------------
(* Refinement: with one process, interrupted and retried as it may be, the  *)
(* trade table does what TradeContract promises.                            *)

StatusOf(c) == CASE c.state = "DISPUTED"  -> "disputed"
                 [] c.state = "CANCELLED" -> "cancelled"
                 [] OTHER                 -> "open"

Contract == INSTANCE TradeContract WITH
  Trades   <- TradeIds,
  progress <- [t \in TradeIds |-> Reached(trades[t])],
  status   <- [t \in TradeIds |-> StatusOf(trades[t])]

\* The store keeps the promise of TradeContract: stages in order, never back,
\* COMPLETED and CANCELLED final.  (state.ts:4-7.)
KeepsContract == Contract!CSpec

-------------------------------------------------------------------------------
(* Rebuilding *)

RebuildEnds(p) == pc[p] = "replay" /\ pc'[p] = "idle" /\ faults' = faults

\* If every fact file had been applied, in the order of the events' dates,
\* then the tables after the rebuild are those from before it.
\* (store.ts:10-12, M3 card acceptance 2.)
RebuildRestores ==
  [][\A p \in Procs : RebuildEnds(p) /\ before.complete /\ before.ordered
       => trades' = before.trades /\ events' = facts]_vars

\* A rebuild that reaches its end has put every fact file into effect, also
\* those of operations that were interrupted half-way.  (store.ts:271-273.)
RebuildRepairs ==
  [][\A p \in Procs : RebuildEnds(p) /\ todo = {}
       => facts \subseteq applied' /\ events' = facts]_vars

-------------------------------------------------------------------------------
(* What the documents say, and the code does not do *)

\* "after physically deleting index.sqlite and rebuildIndex(), stateOf is
\* exactly what it was before" for a store every event of which was validly
\* applied.  (docs/module-cards/M3-local-store.md:48.)
RebuildIdentical ==
  [][\A p \in Procs : RebuildEnds(p) /\ before.complete => trades' = before.trades]_vars

\* applyEvent answers a known event with a no-op because it is "already
\* applied": whenever it returns, the event is in effect.  (store.ts:360-362.)
ReturnedIsApplied == returned \subseteq applied
-------------------------------------------------------------------------------
(* The inductive invariant the proofs of LocalStoreProofs use.               *)

Busy(p) == pc[p] \in {"fact", "event", "trade"}
Rebuilding(p) == pc[p] \in {"log", "replay"}

\* Everything on disk and in hand was seen; a key identifies its event.
SeenInv ==
  /\ \A e, f \in seen : e.key = f.key => e = f
  /\ facts \subseteq seen /\ todo \subseteq facts
  /\ \A p \in Procs : Busy(p) => job[p] \in seen

\* The writes of applyEvent happen in their order.
DiskInv ==
  /\ FactsFirst
  /\ \A p \in Procs : pc[p] \in {"event", "trade"} => job[p] \in facts
  /\ \A p \in Procs : pc[p] = "trade" => job[p] \in events

\* A rebuild runs alone, and replays only what it has logged.
ReplayInv ==
  /\ \A p \in Procs : Rebuilding(p) => Procs = {p}
  /\ \A p \in Procs : pc[p] = "log" => facts \subseteq events \cup todo
  /\ \A p \in Procs : pc[p] = "replay" => facts \subseteq events
  /\ (\A p \in Procs : pc[p] # "replay") => cur = None
  /\ cur = None => cursor = NoTrade
  /\ cur # None => Earned(cursor, OfTrade(events, cur))

\* Positions computed but not yet written are sound and accounted for too.
PositionInv ==
  /\ DisputeMemory
  /\ StateIsEarned
  /\ \A p \in Procs : Sound(next[p])
  /\ Sound(cursor)
  /\ \A p \in Procs : Busy(p) =>
       Earned(next[p], OfTrade(events, job[p].trade) \cup {job[p]})

IInv == TypeOK /\ SeenInv /\ DiskInv /\ ReplayInv /\ PositionInv

\* With one process, what the check computed still holds when it is written.
PendingInv ==
  \A p \in Procs :
    /\ Busy(p) => /\ Allowed(trades[job[p].trade], job[p].type)
                  /\ next[p] = Transition(trades[job[p].trade], job[p].type)
    /\ pc[p] \in {"fact", "event"} => ~Logged(job[p])

OnceInv == applied \subseteq events /\ PendingInv /\ AtMostOnce
===============================================================================
