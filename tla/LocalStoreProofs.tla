--------------------------- MODULE LocalStoreProofs ---------------------------
(***************************************************************************)
(* Proofs about LocalStore for every set of trades and processes, every    *)
(* choice of event types and every bound: the type and safety invariants   *)
(* of the whole specification (any number of processes, rebuilds and       *)
(* interruptions included), then the at-most-once and refinement results,  *)
(* which need a single process.                                            *)
(***************************************************************************)
EXTENDS StoreProperties, TradeStateProofs, TLAPS

LEMMA EventFacts ==
  /\ \A e \in Events : e.key \in Keys /\ e.trade \in TradeIds /\ e.type \in EventTypes
  /\ Sound(NoTrade) /\ NoTrade \in Position /\ Reached(NoTrade) = 0
  /\ \A S : Earned(NoTrade, S)
<1>1. \A e \in Events : e.key \in Keys /\ e.trade \in TradeIds /\ e.type \in EventTypes
  BY StoreAssumption DEF Events
<1>2. Sound(NoTrade) /\ NoTrade \in Position
  BY TableFacts DEF NoTrade, Sound, Position, TradeStates
<1>3. Reached(NoTrade) = 0
  BY TableFacts DEF NoTrade, Reached, TradeStates
<1>4. \A S : Earned(NoTrade, S)
  BY <1>3, TableFacts DEF Earned, NoTrade, TradeStates
<1> QED
  BY <1>1, <1>2, <1>3, <1>4

\* What a set of events accounts for, a larger set accounts for too.
LEMMA EarnedMono ==
  ASSUME NEW c, NEW S, NEW T, S \subseteq T, Earned(c, S)
  PROVE  Earned(c, T)
  BY DEF Earned, Moves

\* An accepted event accounts for the step it makes.
LEMMA EarnedStep ==
  ASSUME NEW c, Sound(c), NEW e \in Events, Allowed(c, e.type), NEW S, Earned(c, S)
  PROVE  Earned(Transition(c, e.type), S \cup {e})
<1> DEFINE d == Transition(c, e.type)
           T == S \cup {e}
<1> e.type \in EventTypes
  BY EventFacts
<1>1. Sound(d)
  BY TransitionSound
<1>2. Reached(c) \in 0 .. 7 /\ Reached(d) \in 0 .. 7
  BY <1>1, ReachedType
<1>3. \A i \in 1 .. Reached(c) : Moves(T, i)
  BY DEF Earned, Moves
<1>4. CASE e.type \in ChainEvents
  <2>1. /\ Reached(d) = Reached(c) + 1
        /\ StageOf[Target[e.type]] = Reached(c) + 1
    BY <1>4, ChainStep
  <2>2. Moves(T, Reached(c) + 1)
    BY <1>4, <2>1 DEF Moves
  <2>3. d.state \notin {"DISPUTED", "CANCELLED"}
    <3>1. e.type \notin {"DISPUTED", "RESOLVED", "CANCELLED"}
      BY <1>4 DEF ChainEvents, Source
    <3>2. d.state = Target[e.type]
      BY <1>4, <3>1 DEF Transition
    <3> QED
      BY <1>4, <3>2, TableFacts
  <2>4. \A i \in 1 .. Reached(d) : i \in 1 .. Reached(c) \/ i = Reached(c) + 1
    BY <1>2, <2>1
  <2> QED
    BY <1>3, <2>2, <2>3, <2>4 DEF Earned
<1>5. CASE e.type = "DISPUTED"
  BY <1>3, <1>5, DisputeStep DEF Earned
<1>6. CASE e.type = "RESOLVED"
  <2>1. d.state \in OpenStates /\ Reached(d) = Reached(c)
    BY <1>6, ResolveStep
  <2> QED
    BY <1>3, <2>1, TableFacts DEF Earned
<1>7. CASE e.type = "CANCELLED"
  BY <1>7, CancelStep DEF Earned
<1> QED
  BY <1>4, <1>5, <1>6, <1>7 DEF EventTypes

-------------------------------------------------------------------------------
\* Every variable keeps its type.
LEMMA TypeStep == IInv /\ [Next]_vars => TypeOK'
<1> SUFFICES ASSUME IInv, [Next]_vars PROVE TypeOK'
  OBVIOUS
<1>1. ASSUME NEW p \in Procs, NEW e \in Events, ApplyCheck(p, e) PROVE TypeOK'
  <2>1. Transition(trades[e.trade], e.type) \in Position
    BY <1>1, EventFacts, TransitionSound DEF ApplyCheck, IInv, PositionInv, DisputeMemory, Sound
  <2> QED
    BY <1>1, <2>1 DEF ApplyCheck, IInv, TypeOK, disk, rebuild
<1>2. ASSUME NEW p \in Procs, NEW e \in Events, ApplyDuplicate(p, e) PROVE TypeOK'
  BY <1>2, EventFacts DEF ApplyDuplicate, IInv, TypeOK, disk, rebuild
<1>3. ASSUME NEW p \in Procs, NEW e \in Events, PutObject(p, e) PROVE TypeOK'
  BY <1>3, EventFacts DEF PutObject, WriteFact, IInv, TypeOK, disk, rebuild
<1>4. ASSUME NEW p \in Procs, ApplyFact(p) PROVE TypeOK'
  BY <1>4, EventFacts DEF ApplyFact, WriteFact, SeenInv, Busy, IInv, TypeOK, disk, rebuild
<1>5. ASSUME NEW p \in Procs, ApplyEventRow(p) PROVE TypeOK'
  BY <1>5, EventFacts DEF ApplyEventRow, InsertEvent, SeenInv, Busy, IInv, TypeOK, disk, rebuild
<1>6. ASSUME NEW p \in Procs, ApplyTradeRow(p) PROVE TypeOK'
  BY <1>6, EventFacts DEF ApplyTradeRow, SeenInv, Busy, IInv, TypeOK, disk, rebuild
<1>7. ASSUME NEW p \in Procs, Interrupt(p) PROVE TypeOK'
  BY <1>7, EventFacts DEF Interrupt, IInv, TypeOK, disk, rebuild
<1>8. ASSUME NEW p \in Procs, RebuildWipe(p) PROVE TypeOK'
  BY <1>8, EventFacts DEF RebuildWipe, Collected, Complete, IInv, TypeOK, disk, rebuild
<1>9. ASSUME NEW p \in Procs, RebuildInsert(p) PROVE TypeOK'
  BY <1>9, EventFacts DEF RebuildInsert, InsertEvent, IInv, TypeOK, disk, rebuild
<1>10. ASSUME NEW p \in Procs, RebuildGroup(p) PROVE TypeOK'
  BY <1>10, EventFacts DEF RebuildGroup, IInv, TypeOK, disk, rebuild
<1>11. ASSUME NEW p \in Procs, RebuildReplay(p) PROVE TypeOK'
  <2>1. PICK e \in todo : /\ Allowed(cursor, e.type)
                         /\ cursor' = Transition(cursor, e.type)
                         /\ todo' = todo \ {e} /\ cur' = e.trade
    BY <1>11 DEF RebuildReplay
  <2>2. e \in Events
    BY DEF IInv, TypeOK
  <2>3. Transition(cursor, e.type) \in Position
    BY <2>1, <2>2, EventFacts, TransitionSound DEF IInv, PositionInv, Sound
  <2> QED
    BY <1>11, <2>1, <2>2, <2>3, EventFacts DEF RebuildReplay, IInv, TypeOK, disk
<1>12. ASSUME NEW p \in Procs, RebuildFail(p) PROVE TypeOK'
  BY <1>12, EventFacts DEF RebuildFail, IInv, TypeOK, disk, rebuild
<1>13. ASSUME NEW p \in Procs, RebuildTradeRow(p) PROVE TypeOK'
  BY <1>13, EventFacts DEF RebuildTradeRow, NextTrade, OfTrade, IInv, TypeOK, disk, rebuild
<1>14. ASSUME NEW p \in Procs, RebuildDone(p) PROVE TypeOK'
  BY <1>14, EventFacts DEF RebuildDone, IInv, TypeOK, disk, rebuild
<1>15. CASE UNCHANGED vars
  BY <1>15 DEF IInv, TypeOK, vars
<1> QED
  BY <1>1, <1>2, <1>3, <1>4, <1>5, <1>6, <1>7, <1>8, <1>9, <1>10, <1>11, <1>12, <1>13, <1>14, <1>15 DEF Next, OnlineNext, Apply, Rebuild

\* Only events that were seen are stored or in hand, and keys stay unique.
LEMMA SeenStep == IInv /\ [Next]_vars => SeenInv'
<1> SUFFICES ASSUME IInv, [Next]_vars PROVE SeenInv'
  OBVIOUS
<1>1. ASSUME NEW p \in Procs, NEW e \in Events, ApplyCheck(p, e) PROVE SeenInv'
  BY <1>1 DEF ApplyCheck, Presented, Unused, IInv, TypeOK, SeenInv, Busy, disk, rebuild
<1>2. ASSUME NEW p \in Procs, NEW e \in Events, ApplyDuplicate(p, e) PROVE SeenInv'
  BY <1>2 DEF ApplyDuplicate, IInv, TypeOK, SeenInv, Busy, disk, rebuild
<1>3. ASSUME NEW p \in Procs, NEW e \in Events, PutObject(p, e) PROVE SeenInv'
  BY <1>3 DEF PutObject, WriteFact, Presented, Unused, IInv, TypeOK, SeenInv, Busy, disk, rebuild
<1>4. ASSUME NEW p \in Procs, ApplyFact(p) PROVE SeenInv'
  BY <1>4 DEF ApplyFact, WriteFact, IInv, TypeOK, SeenInv, Busy, disk, rebuild
<1>5. ASSUME NEW p \in Procs, ApplyEventRow(p) PROVE SeenInv'
  BY <1>5 DEF ApplyEventRow, IInv, TypeOK, SeenInv, Busy, disk, rebuild
<1>6. ASSUME NEW p \in Procs, ApplyTradeRow(p) PROVE SeenInv'
  BY <1>6 DEF ApplyTradeRow, IInv, TypeOK, SeenInv, Busy, disk, rebuild
<1>7. ASSUME NEW p \in Procs, Interrupt(p) PROVE SeenInv'
  BY <1>7 DEF Interrupt, IInv, TypeOK, SeenInv, Busy, disk, rebuild
<1>8. ASSUME NEW p \in Procs, RebuildWipe(p) PROVE SeenInv'
  BY <1>8 DEF RebuildWipe, Collected, IInv, TypeOK, SeenInv, Busy, disk, rebuild
<1>9. ASSUME NEW p \in Procs, RebuildInsert(p) PROVE SeenInv'
  BY <1>9 DEF RebuildInsert, IInv, TypeOK, SeenInv, Busy, disk, rebuild
<1>10. ASSUME NEW p \in Procs, RebuildGroup(p) PROVE SeenInv'
  BY <1>10 DEF RebuildGroup, IInv, TypeOK, SeenInv, Busy, disk, rebuild
<1>11. ASSUME NEW p \in Procs, RebuildReplay(p) PROVE SeenInv'
  BY <1>11 DEF RebuildReplay, IInv, TypeOK, SeenInv, Busy, disk, rebuild
<1>12. ASSUME NEW p \in Procs, RebuildFail(p) PROVE SeenInv'
  BY <1>12 DEF RebuildFail, IInv, TypeOK, SeenInv, Busy, disk, rebuild
<1>13. ASSUME NEW p \in Procs, RebuildTradeRow(p) PROVE SeenInv'
  BY <1>13 DEF RebuildTradeRow, NextTrade, IInv, TypeOK, SeenInv, Busy, disk, rebuild
<1>14. ASSUME NEW p \in Procs, RebuildDone(p) PROVE SeenInv'
  BY <1>14 DEF RebuildDone, IInv, TypeOK, SeenInv, Busy, disk, rebuild
<1>15. CASE UNCHANGED vars
  BY <1>15 DEF IInv, SeenInv, Busy, vars
<1> QED
  BY <1>1, <1>2, <1>3, <1>4, <1>5, <1>6, <1>7, <1>8, <1>9, <1>10, <1>11, <1>12, <1>13, <1>14, <1>15 DEF Next, OnlineNext, Apply, Rebuild

\* The fact file precedes the event row, which precedes the trade row.
LEMMA DiskStep == IInv /\ [Next]_vars => DiskInv'
<1> SUFFICES ASSUME IInv, [Next]_vars PROVE DiskInv'
  OBVIOUS
<1>1. ASSUME NEW p \in Procs, NEW e \in Events, ApplyCheck(p, e) PROVE DiskInv'
  BY <1>1 DEF ApplyCheck, IInv, TypeOK, DiskInv, FactsFirst, disk, rebuild
<1>2. ASSUME NEW p \in Procs, NEW e \in Events, ApplyDuplicate(p, e) PROVE DiskInv'
  BY <1>2 DEF ApplyDuplicate, IInv, TypeOK, DiskInv, FactsFirst, disk, rebuild
<1>3. ASSUME NEW p \in Procs, NEW e \in Events, PutObject(p, e) PROVE DiskInv'
  BY <1>3 DEF PutObject, WriteFact, IInv, TypeOK, DiskInv, FactsFirst, disk, rebuild
<1>4. ASSUME NEW p \in Procs, ApplyFact(p) PROVE DiskInv'
  BY <1>4 DEF ApplyFact, WriteFact, IInv, TypeOK, DiskInv, FactsFirst, disk, rebuild
<1>5. ASSUME NEW p \in Procs, ApplyEventRow(p) PROVE DiskInv'
  BY <1>5 DEF ApplyEventRow, InsertEvent, Logged, SeenInv, Busy, IInv, TypeOK, DiskInv, FactsFirst, disk, rebuild
<1>6. ASSUME NEW p \in Procs, ApplyTradeRow(p) PROVE DiskInv'
  BY <1>6 DEF ApplyTradeRow, IInv, TypeOK, DiskInv, FactsFirst, disk, rebuild
<1>7. ASSUME NEW p \in Procs, Interrupt(p) PROVE DiskInv'
  BY <1>7 DEF Interrupt, IInv, TypeOK, DiskInv, FactsFirst, disk, rebuild
<1>8. ASSUME NEW p \in Procs, RebuildWipe(p) PROVE DiskInv'
  BY <1>8 DEF RebuildWipe, Collected, Alone, IInv, TypeOK, DiskInv, FactsFirst, disk, rebuild
<1>9. ASSUME NEW p \in Procs, RebuildInsert(p) PROVE DiskInv'
  BY <1>9 DEF RebuildInsert, InsertEvent, SeenInv, ReplayInv, Rebuilding, IInv, TypeOK, DiskInv, FactsFirst, disk, rebuild
<1>10. ASSUME NEW p \in Procs, RebuildGroup(p) PROVE DiskInv'
  BY <1>10 DEF RebuildGroup, IInv, TypeOK, DiskInv, FactsFirst, disk, rebuild
<1>11. ASSUME NEW p \in Procs, RebuildReplay(p) PROVE DiskInv'
  BY <1>11 DEF RebuildReplay, IInv, TypeOK, DiskInv, FactsFirst, disk, rebuild
<1>12. ASSUME NEW p \in Procs, RebuildFail(p) PROVE DiskInv'
  BY <1>12 DEF RebuildFail, IInv, TypeOK, DiskInv, FactsFirst, disk, rebuild
<1>13. ASSUME NEW p \in Procs, RebuildTradeRow(p) PROVE DiskInv'
  BY <1>13 DEF RebuildTradeRow, NextTrade, IInv, TypeOK, DiskInv, FactsFirst, disk, rebuild
<1>14. ASSUME NEW p \in Procs, RebuildDone(p) PROVE DiskInv'
  BY <1>14 DEF RebuildDone, IInv, TypeOK, DiskInv, FactsFirst, disk, rebuild
<1>15. CASE UNCHANGED vars
  BY <1>15 DEF IInv, DiskInv, FactsFirst, vars
<1> QED
  BY <1>1, <1>2, <1>3, <1>4, <1>5, <1>6, <1>7, <1>8, <1>9, <1>10, <1>11, <1>12, <1>13, <1>14, <1>15 DEF Next, OnlineNext, Apply, Rebuild

\* A rebuild runs alone, and its position is accounted for by logged events.
LEMMA ReplayStep == IInv /\ [Next]_vars => ReplayInv'
<1> SUFFICES ASSUME IInv, [Next]_vars PROVE ReplayInv'
  OBVIOUS
<1>1. ASSUME NEW p \in Procs, NEW e \in Events, ApplyCheck(p, e) PROVE ReplayInv'
  BY <1>1, EventFacts DEF ApplyCheck, IInv, TypeOK, ReplayInv, Rebuilding, disk, rebuild
<1>2. ASSUME NEW p \in Procs, NEW e \in Events, ApplyDuplicate(p, e) PROVE ReplayInv'
  BY <1>2, EventFacts DEF ApplyDuplicate, IInv, TypeOK, ReplayInv, Rebuilding, disk, rebuild
<1>3. ASSUME NEW p \in Procs, NEW e \in Events, PutObject(p, e) PROVE ReplayInv'
  BY <1>3, EventFacts DEF PutObject, WriteFact, IInv, TypeOK, ReplayInv, Rebuilding, disk, rebuild
<1>4. ASSUME NEW p \in Procs, ApplyFact(p) PROVE ReplayInv'
  BY <1>4, EventFacts DEF ApplyFact, WriteFact, IInv, TypeOK, ReplayInv, Rebuilding, disk, rebuild
<1>5. ASSUME NEW p \in Procs, ApplyEventRow(p) PROVE ReplayInv'
  <2>1. events \subseteq events'
    BY <1>5 DEF ApplyEventRow, InsertEvent
  <2>2. cur = None
    BY <1>5 DEF ApplyEventRow, IInv, ReplayInv, Rebuilding
  <2> QED
    BY <1>5, <2>1, <2>2 DEF ApplyEventRow, InsertEvent, Logged, IInv, TypeOK, SeenInv, ReplayInv, Rebuilding, rebuild
<1>6. ASSUME NEW p \in Procs, ApplyTradeRow(p) PROVE ReplayInv'
  BY <1>6, EventFacts DEF ApplyTradeRow, IInv, TypeOK, ReplayInv, Rebuilding, disk, rebuild
<1>7. ASSUME NEW p \in Procs, Interrupt(p) PROVE ReplayInv'
  BY <1>7, EventFacts DEF Interrupt, IInv, TypeOK, ReplayInv, Rebuilding, disk, rebuild
<1>8. ASSUME NEW p \in Procs, RebuildWipe(p) PROVE ReplayInv'
  BY <1>8, EventFacts DEF RebuildWipe, Collected, Alone, IInv, TypeOK, ReplayInv, Rebuilding, disk, rebuild
<1>9. ASSUME NEW p \in Procs, RebuildInsert(p) PROVE ReplayInv'
  <2>1. events \subseteq events'
    BY <1>9 DEF RebuildInsert, InsertEvent
  <2>2. cur = None
    BY <1>9 DEF RebuildInsert, IInv, ReplayInv, Rebuilding
  <2>3. PICK e \in todo : events' = InsertEvent(e) /\ todo' = todo \ {e}
    BY <1>9 DEF RebuildInsert
  <2>4. \A f \in events : f.key = e.key => f = e
    BY DEF IInv, SeenInv, DiskInv, FactsFirst
  <2>5. e \in events'
    BY <2>3, <2>4 DEF InsertEvent, Logged
  <2>6. pc[p] = "log" /\ pc' = pc /\ Procs = {p} /\ facts \subseteq events \cup todo
    BY <1>9 DEF RebuildInsert, IInv, ReplayInv, Rebuilding
  <2>7. facts \subseteq events' \cup todo'
    BY <2>1, <2>3, <2>5, <2>6
  <2>8. facts' = facts /\ cur' = cur /\ cursor' = cursor /\ (cur = None => cursor = NoTrade)
    BY <1>9 DEF RebuildInsert, IInv, ReplayInv
  <2> QED
    BY <2>2, <2>6, <2>7, <2>8 DEF ReplayInv, Rebuilding
<1>10. ASSUME NEW p \in Procs, RebuildGroup(p) PROVE ReplayInv'
  BY <1>10, EventFacts DEF RebuildGroup, IInv, TypeOK, ReplayInv, Rebuilding, disk, rebuild
<1>11. ASSUME NEW p \in Procs, RebuildReplay(p) PROVE ReplayInv'
  <2>1. PICK e \in todo : /\ IsNext(e) /\ Allowed(cursor, e.type)
                         /\ cursor' = Transition(cursor, e.type)
                         /\ todo' = todo \ {e} /\ cur' = e.trade
    BY <1>11 DEF RebuildReplay
  <2>2. e \in Events /\ e \in events /\ e.trade # None
    BY <1>11, StoreAssumption, EventFacts DEF RebuildReplay, IInv, TypeOK, SeenInv, ReplayInv
  <2>3. Earned(cursor, OfTrade(events, e.trade))
    BY <2>1, EventFacts DEF IsNext, IInv, ReplayInv
  <2>4. Earned(Transition(cursor, e.type), OfTrade(events, e.trade) \cup {e})
    BY <2>1, <2>2, <2>3, EarnedStep DEF IInv, PositionInv
  <2>5. OfTrade(events, e.trade) \cup {e} = OfTrade(events, e.trade)
    BY <2>2 DEF OfTrade
  <2> QED
    BY <1>11, <2>1, <2>2, <2>4, <2>5 DEF RebuildReplay, IInv, TypeOK, ReplayInv, Rebuilding, disk
<1>12. ASSUME NEW p \in Procs, RebuildFail(p) PROVE ReplayInv'
  BY <1>12, EventFacts DEF RebuildFail, IInv, TypeOK, ReplayInv, Rebuilding, disk, rebuild
<1>13. ASSUME NEW p \in Procs, RebuildTradeRow(p) PROVE ReplayInv'
  BY <1>13, EventFacts DEF RebuildTradeRow, NextTrade, IInv, TypeOK, ReplayInv, Rebuilding, disk, rebuild
<1>14. ASSUME NEW p \in Procs, RebuildDone(p) PROVE ReplayInv'
  BY <1>14, EventFacts DEF RebuildDone, IInv, TypeOK, ReplayInv, Rebuilding, disk, rebuild
<1>15. CASE UNCHANGED vars
  BY <1>15 DEF IInv, ReplayInv, Rebuilding, OfTrade, Earned, Moves, vars
<1> QED
  BY <1>1, <1>2, <1>3, <1>4, <1>5, <1>6, <1>7, <1>8, <1>9, <1>10, <1>11, <1>12, <1>13, <1>14, <1>15 DEF Next, OnlineNext, Apply, Rebuild

\* Positions, written or about to be, are sound and accounted for.
LEMMA PositionStep == IInv /\ [Next]_vars => PositionInv'
<1> SUFFICES ASSUME IInv, [Next]_vars PROVE PositionInv'
  OBVIOUS
<1>1. ASSUME NEW p \in Procs, NEW e \in Events, ApplyCheck(p, e) PROVE PositionInv'
  <2>1. e.trade \in TradeIds /\ e.type \in EventTypes
    BY EventFacts
  <2>2. Sound(Transition(trades[e.trade], e.type))
    BY <1>1, <2>1, TransitionSound DEF ApplyCheck, IInv, PositionInv, DisputeMemory
  <2>3. Earned(Transition(trades[e.trade], e.type), OfTrade(events, e.trade) \cup {e})
    BY <1>1, <2>1, EarnedStep DEF ApplyCheck, IInv, PositionInv, DisputeMemory, StateIsEarned
  <2> QED
    BY <1>1, <2>1, <2>2, <2>3 DEF ApplyCheck, IInv, TypeOK, PositionInv, DisputeMemory, StateIsEarned, Busy, disk, rebuild
<1>2. ASSUME NEW p \in Procs, NEW e \in Events, ApplyDuplicate(p, e) PROVE PositionInv'
  BY <1>2, EventFacts DEF ApplyDuplicate, IInv, TypeOK, PositionInv, DisputeMemory, StateIsEarned, Busy, disk, rebuild
<1>3. ASSUME NEW p \in Procs, NEW e \in Events, PutObject(p, e) PROVE PositionInv'
  BY <1>3, EventFacts DEF PutObject, WriteFact, IInv, TypeOK, PositionInv, DisputeMemory, StateIsEarned, Busy, disk, rebuild
<1>4. ASSUME NEW p \in Procs, ApplyFact(p) PROVE PositionInv'
  BY <1>4, EventFacts DEF ApplyFact, WriteFact, IInv, TypeOK, PositionInv, DisputeMemory, StateIsEarned, Busy, disk, rebuild
<1>5. ASSUME NEW p \in Procs, ApplyEventRow(p) PROVE PositionInv'
  <2>1. events \subseteq events'
    BY <1>5 DEF ApplyEventRow, InsertEvent
  <2>2. \A t : OfTrade(events, t) \subseteq OfTrade(events', t)
    BY <2>1 DEF OfTrade
  <2>3. \A c, t : Earned(c, OfTrade(events, t)) => Earned(c, OfTrade(events', t))
    BY <2>2, EarnedMono
  <2>4. \A c, t, e : Earned(c, OfTrade(events, t) \cup {e}) => Earned(c, OfTrade(events', t) \cup {e})
    <3> SUFFICES ASSUME NEW c, NEW t, NEW e, Earned(c, OfTrade(events, t) \cup {e})
                 PROVE  Earned(c, OfTrade(events', t) \cup {e})
      OBVIOUS
    <3>1. OfTrade(events, t) \cup {e} \subseteq OfTrade(events', t) \cup {e}
      BY <2>2
    <3> QED
      BY <3>1, EarnedMono
  <2> QED
    BY <1>5, <2>3, <2>4 DEF ApplyEventRow, IInv, TypeOK, PositionInv, DisputeMemory, StateIsEarned, Busy, rebuild
<1>6. ASSUME NEW p \in Procs, ApplyTradeRow(p) PROVE PositionInv'
  <2>1. job[p] \in events /\ job[p] \in Events /\ Busy(p)
    BY <1>6 DEF ApplyTradeRow, IInv, DiskInv, TypeOK, Busy
  <2>2. OfTrade(events, job[p].trade) \cup {job[p]} = OfTrade(events, job[p].trade)
    BY <2>1 DEF OfTrade
  <2>3. Sound(next[p]) /\ Earned(next[p], OfTrade(events, job[p].trade))
    BY <2>1, <2>2 DEF IInv, PositionInv
  <2> QED
    BY <1>6, <2>1, <2>3, EventFacts DEF ApplyTradeRow, IInv, TypeOK, PositionInv, DisputeMemory, StateIsEarned, Busy, disk, rebuild
<1>7. ASSUME NEW p \in Procs, Interrupt(p) PROVE PositionInv'
  BY <1>7, EventFacts DEF Interrupt, IInv, TypeOK, PositionInv, DisputeMemory, StateIsEarned, Busy, disk, rebuild
<1>8. ASSUME NEW p \in Procs, RebuildWipe(p) PROVE PositionInv'
  BY <1>8, EventFacts DEF RebuildWipe, Collected, Alone, IInv, TypeOK, PositionInv, DisputeMemory, StateIsEarned, Busy, disk, rebuild
<1>9. ASSUME NEW p \in Procs, RebuildInsert(p) PROVE PositionInv'
  <2>1. events \subseteq events'
    BY <1>9 DEF RebuildInsert, InsertEvent
  <2>2. \A t : OfTrade(events, t) \subseteq OfTrade(events', t)
    BY <2>1 DEF OfTrade
  <2>3. \A c, t : Earned(c, OfTrade(events, t)) => Earned(c, OfTrade(events', t))
    BY <2>2, EarnedMono
  <2>4. \A c, t, e : Earned(c, OfTrade(events, t) \cup {e}) => Earned(c, OfTrade(events', t) \cup {e})
    <3> SUFFICES ASSUME NEW c, NEW t, NEW e, Earned(c, OfTrade(events, t) \cup {e})
                 PROVE  Earned(c, OfTrade(events', t) \cup {e})
      OBVIOUS
    <3>1. OfTrade(events, t) \cup {e} \subseteq OfTrade(events', t) \cup {e}
      BY <2>2
    <3> QED
      BY <3>1, EarnedMono
  <2> QED
    BY <1>9, <2>3, <2>4 DEF RebuildInsert, IInv, TypeOK, PositionInv, DisputeMemory, StateIsEarned, Busy, rebuild
<1>10. ASSUME NEW p \in Procs, RebuildGroup(p) PROVE PositionInv'
  BY <1>10, EventFacts DEF RebuildGroup, IInv, TypeOK, PositionInv, DisputeMemory, StateIsEarned, Busy, disk, rebuild
<1>11. ASSUME NEW p \in Procs, RebuildReplay(p) PROVE PositionInv'
  <2>1. PICK e \in todo : /\ Allowed(cursor, e.type)
                         /\ cursor' = Transition(cursor, e.type)
    BY <1>11 DEF RebuildReplay
  <2>2. Sound(cursor')
    BY <2>1, EventFacts, TransitionSound DEF IInv, TypeOK, PositionInv
  <2> QED
    BY <1>11, <2>2 DEF RebuildReplay, IInv, TypeOK, PositionInv, DisputeMemory, StateIsEarned, Busy, disk, rebuild
<1>12. ASSUME NEW p \in Procs, RebuildFail(p) PROVE PositionInv'
  BY <1>12, EventFacts DEF RebuildFail, IInv, TypeOK, PositionInv, DisputeMemory, StateIsEarned, Busy, disk, rebuild
<1>13. ASSUME NEW p \in Procs, RebuildTradeRow(p) PROVE PositionInv'
  <2>1. cur \in TradeIds /\ Sound(cursor) /\ Earned(cursor, OfTrade(events, cur))
    BY <1>13 DEF RebuildTradeRow, NextTrade, IInv, TypeOK, ReplayInv, PositionInv
  <2> QED
    BY <1>13, <2>1, EventFacts DEF RebuildTradeRow, NextTrade, IInv, TypeOK, PositionInv, DisputeMemory, StateIsEarned, Busy, disk, rebuild
<1>14. ASSUME NEW p \in Procs, RebuildDone(p) PROVE PositionInv'
  BY <1>14, EventFacts DEF RebuildDone, IInv, TypeOK, PositionInv, DisputeMemory, StateIsEarned, Busy, disk, rebuild
<1>15. CASE UNCHANGED vars
  BY <1>15 DEF IInv, PositionInv, DisputeMemory, StateIsEarned, Busy, OfTrade, Earned, Moves, vars
<1> QED
  BY <1>1, <1>2, <1>3, <1>4, <1>5, <1>6, <1>7, <1>8, <1>9, <1>10, <1>11, <1>12, <1>13, <1>14, <1>15 DEF Next, OnlineNext, Apply, Rebuild

LEMMA IInvInit == Init => IInv
<1> SUFFICES ASSUME Init PROVE IInv
  OBVIOUS
<1>1. TypeOK
  BY EventFacts DEF Init, TypeOK
<1>2. SeenInv
  BY DEF Init, SeenInv, Busy
<1>3. DiskInv
  BY DEF Init, DiskInv, FactsFirst
<1>4. ReplayInv
  BY DEF Init, ReplayInv, Rebuilding
<1>5. PositionInv
  BY EventFacts DEF Init, PositionInv, DisputeMemory, StateIsEarned, Busy
<1> QED
  BY <1>1, <1>2, <1>3, <1>4, <1>5 DEF IInv

\* The inductive invariant holds in every state of the specification.
THEOREM IInvAlways == Spec => []IInv
<1>1. IInv /\ [Next]_vars => IInv'
  BY TypeStep, SeenStep, DiskStep, ReplayStep, PositionStep DEF IInv
<1> QED
  BY IInvInit, <1>1, PTL DEF Spec

\* Every variable has its type: no row holds a state the code does not define.
THEOREM TypeCorrect == Spec => []TypeOK
<1>1. IInv => TypeOK
  BY DEF IInv
<1> QED
  BY IInvAlways, <1>1, PTL

\* The three safety properties of the tables, whatever the number of processes
\* that share the directory and wherever they are interrupted.
THEOREM FactsFirstAlways == Spec => []FactsFirst
<1>1. IInv => FactsFirst
  BY DEF IInv, DiskInv
<1> QED
  BY IInvAlways, <1>1, PTL

\* A trade remembers a state to return to exactly while it is disputed.
THEOREM DisputeMemoryAlways == Spec => []DisputeMemory
<1>1. IInv => DisputeMemory
  BY DEF IInv, PositionInv
<1> QED
  BY IInvAlways, <1>1, PTL

\* No trade stands at a stage that logged events do not account for.
THEOREM StateIsEarnedAlways == Spec => []StateIsEarned
<1>1. IInv => StateIsEarned
  BY DEF IInv, PositionInv
<1> QED
  BY IInvAlways, <1>1, PTL

-------------------------------------------------------------------------------
(* What holds when a single process has the data directory open: a pending      *)
(* write is still the one the check allowed, no event takes effect twice, and   *)
(* the trade table implements TradeContract.                                    *)

OneProcess == \A p, q \in Procs : p = q

\* What is pending stays pending, and is never in effect already.
LEMMA OnceStep == OneProcess /\ IInv /\ OnceInv /\ [Next]_vars => OnceInv'
<1> SUFFICES ASSUME OneProcess, IInv, OnceInv, [Next]_vars PROVE OnceInv'
  OBVIOUS
<1> USE DEF OnceInv, PendingInv, AtMostOnce, Busy
<1>1. ASSUME NEW p \in Procs, NEW e \in Events, ApplyCheck(p, e) PROVE OnceInv'
  BY <1>1 DEF OneProcess, ApplyCheck, IInv, TypeOK, Logged, disk, rebuild
<1>2. ASSUME NEW p \in Procs, NEW e \in Events, ApplyDuplicate(p, e) PROVE OnceInv'
  BY <1>2 DEF ApplyDuplicate, Logged, disk, rebuild
<1>3. ASSUME NEW p \in Procs, NEW e \in Events, PutObject(p, e) PROVE OnceInv'
  BY <1>3 DEF PutObject, WriteFact, Logged, disk, rebuild
<1>4. ASSUME NEW p \in Procs, ApplyFact(p) PROVE OnceInv'
  BY <1>4 DEF OneProcess, ApplyFact, WriteFact, IInv, TypeOK, Logged, disk, rebuild
<1>5. ASSUME NEW p \in Procs, ApplyEventRow(p) PROVE OnceInv'
  <2>1. ~Logged(job[p]) /\ pc[p] = "event" /\ job' = job /\ next' = next
        /\ trades' = trades /\ applied' = applied
    BY <1>5 DEF ApplyEventRow
  <2>2. job[p] \notin applied
    BY <2>1 DEF Logged
  <2>3. events \subseteq events'
    BY <1>5 DEF ApplyEventRow, InsertEvent
  <2>4. pc' = [pc EXCEPT ![p] = "trade"] /\ pc'[p] = "trade"
    BY <1>5 DEF ApplyEventRow, IInv, TypeOK
  <2>5. \A q \in Procs : q = p
    BY DEF OneProcess
  <2>6. Busy(p)
    BY <2>1
  <2> QED
    BY <2>1, <2>2, <2>3, <2>4, <2>5, <2>6
<1>6. ASSUME NEW p \in Procs, ApplyTradeRow(p) PROVE OnceInv'
  <2>1. \A q \in Procs : pc'[q] = "idle"
    BY <1>6 DEF OneProcess, ApplyTradeRow, IInv, TypeOK
  <2>2. applied' \subseteq events'
    BY <1>6 DEF ApplyTradeRow, IInv, DiskInv
  <2> QED
    BY <2>1, <2>2
<1>7. ASSUME NEW p \in Procs, Interrupt(p) PROVE OnceInv'
  <2>1. \A q \in Procs : pc'[q] = "idle"
    BY <1>7 DEF OneProcess, Interrupt, IInv, TypeOK
  <2> QED
    BY <1>7, <2>1 DEF Interrupt, disk
<1>8. ASSUME NEW p \in Procs, RebuildWipe(p) PROVE OnceInv'
  <2>1. \A q \in Procs : pc'[q] = "log"
    BY <1>8 DEF OneProcess, RebuildWipe, Collected, IInv, TypeOK
  <2> QED
    BY <1>8, <2>1 DEF RebuildWipe, Collected
<1>9. ASSUME NEW p \in Procs, RebuildInsert(p) PROVE OnceInv'
  <2>1. \A q \in Procs : pc'[q] = "log"
    BY <1>9 DEF OneProcess, RebuildInsert
  <2>2. events \subseteq events' /\ applied' = applied
    BY <1>9 DEF RebuildInsert, InsertEvent
  <2> QED
    BY <2>1, <2>2
<1>10. ASSUME NEW p \in Procs, RebuildGroup(p) PROVE OnceInv'
  <2>1. \A q \in Procs : pc'[q] = "replay"
    BY <1>10 DEF OneProcess, RebuildGroup, IInv, TypeOK
  <2> QED
    BY <1>10, <2>1 DEF RebuildGroup, disk
<1>11. ASSUME NEW p \in Procs, RebuildReplay(p) PROVE OnceInv'
  <2>1. \A q \in Procs : pc'[q] = "replay"
    BY <1>11 DEF OneProcess, RebuildReplay
  <2> QED
    BY <1>11, <2>1 DEF RebuildReplay, disk
<1>12. ASSUME NEW p \in Procs, RebuildFail(p) PROVE OnceInv'
  <2>1. \A q \in Procs : pc'[q] = "idle"
    BY <1>12 DEF OneProcess, RebuildFail, IInv, TypeOK
  <2> QED
    BY <1>12, <2>1 DEF RebuildFail, disk
<1>13. ASSUME NEW p \in Procs, RebuildTradeRow(p) PROVE OnceInv'
  <2>1. \A q \in Procs : pc'[q] = "replay"
    BY <1>13 DEF OneProcess, RebuildTradeRow, NextTrade
  <2>2. applied' \subseteq events'
    BY <1>13 DEF RebuildTradeRow, NextTrade, IInv, ReplayInv, OfTrade
  <2> QED
    BY <2>1, <2>2
<1>14. ASSUME NEW p \in Procs, RebuildDone(p) PROVE OnceInv'
  <2>1. \A q \in Procs : pc'[q] = "idle"
    BY <1>14 DEF OneProcess, RebuildDone, IInv, TypeOK
  <2> QED
    BY <1>14, <2>1 DEF RebuildDone, disk
<1>15. CASE UNCHANGED vars
  BY <1>15 DEF Logged, vars
<1> QED
  BY <1>1, <1>2, <1>3, <1>4, <1>5, <1>6, <1>7, <1>8, <1>9, <1>10, <1>11, <1>12, <1>13, <1>14, <1>15 DEF Next, OnlineNext, Apply, Rebuild

LEMMA OnceInit == Init => OnceInv
  BY DEF Init, OnceInv, PendingInv, AtMostOnce, Busy

\* With one process no event takes effect twice, over interruptions, repeated
\* deliveries and rebuilds.  (store.ts:360-366.)
THEOREM AtMostOnceAlways ==
  ASSUME OneProcess
  PROVE  Spec => []AtMostOnce
<1>1. IInv /\ OnceInv /\ [Next]_vars => OnceInv'
  BY OnceStep
<1>2. OnceInv => AtMostOnce
  BY DEF OnceInv
<1> QED
  BY IInvAlways, OnceInit, <1>1, <1>2, PTL DEF Spec

-------------------------------------------------------------------------------
(* The refinement *)

\* An accepted event, read through the refinement mapping, is one step of the
\* contract or none (a dispute raised again).
LEMMA TableStep ==
  ASSUME NEW c, Sound(c), NEW ty \in EventTypes, Allowed(c, ty),
         NEW d, d = Transition(c, ty)
  PROVE  \/ /\ StatusOf(c) = "open" /\ Reached(c) < 7
            /\ StatusOf(d) = "open" /\ Reached(d) = Reached(c) + 1
         \/ /\ StatusOf(c) \in {"open", "disputed"} /\ Reached(c) \in 1 .. 6
            /\ StatusOf(d) = "disputed" /\ Reached(d) = Reached(c)
         \/ /\ StatusOf(c) = "disputed"
            /\ StatusOf(d) = "open" /\ Reached(d) = Reached(c)
         \/ /\ StatusOf(c) # "cancelled" /\ Reached(c) \in 1 .. 6
            /\ StatusOf(d) = "cancelled" /\ Reached(d) = 0
<1>1. Sound(d) /\ Reached(c) \in 0 .. 7 /\ Reached(d) \in 0 .. 7
  BY TransitionSound, ReachedType
<1>2. CASE ty \in ChainEvents
  <2>1. ty \notin {"DISPUTED", "RESOLVED", "CANCELLED"}
    BY <1>2 DEF ChainEvents, Source
  <2>2. d.state \in ChainStates
    BY <1>2, <2>1, TableFacts DEF Transition
  <2>3. d.state # "DISPUTED" /\ d.state # "CANCELLED"
    BY <2>2, TableFacts
  <2>4. /\ Reached(d) = Reached(c) + 1
        /\ c.state # "DISPUTED" /\ c.state # "CANCELLED"
    BY <1>2, ChainStep
  <2> QED
    BY <1>1, <2>3, <2>4 DEF StatusOf
<1>3. CASE ty = "DISPUTED"
  <2>1. Reached(d) = Reached(c) /\ d.state = "DISPUTED" /\ Reached(c) \in 1 .. 6
    BY <1>3, DisputeStep
  <2>2. c.state # "CANCELLED"
    BY DEF Allowed, TerminalStates
  <2> QED
    BY <2>1, <2>2 DEF StatusOf
<1>4. CASE ty = "RESOLVED"
  <2>1. Reached(d) = Reached(c) /\ d.state \in OpenStates /\ c.state = "DISPUTED"
    BY <1>4, ResolveStep
  <2>2. d.state # "DISPUTED" /\ d.state # "CANCELLED"
    BY <2>1, TableFacts
  <2> QED
    BY <2>1, <2>2 DEF StatusOf
<1>5. CASE ty = "CANCELLED"
  <2>1. Reached(d) = 0 /\ d.state = "CANCELLED" /\ Reached(c) \in 1 .. 6 /\ c.state # "CANCELLED"
    BY <1>5, CancelStep
  <2> QED
    BY <2>1 DEF StatusOf
<1> QED
  BY <1>2, <1>3, <1>4, <1>5 DEF EventTypes

\* Only the upsert of a trade row is a step of the contract.
LEMMA ContractStep ==
  IInv /\ OnceInv /\ [OnlineNext]_vars => [Contract!CNext]_(Contract!cvars)
<1> SUFFICES ASSUME IInv, OnceInv, [OnlineNext]_vars
             PROVE  [Contract!CNext]_(Contract!cvars)
  OBVIOUS
<1>1. CASE trades' = trades
  BY <1>1 DEF Contract!cvars
<1>2. ASSUME NEW p \in Procs, ApplyTradeRow(p) PROVE [Contract!CNext]_(Contract!cvars)
  <2> DEFINE t == job[p].trade
             c == trades[t]
             ty == job[p].type
  <2>1. job[p] \in Events /\ t \in TradeIds /\ ty \in EventTypes
    BY <1>2, EventFacts DEF ApplyTradeRow, IInv, DiskInv, FactsFirst, SeenInv, TypeOK
  <2>2. Sound(c) /\ Allowed(c, ty) /\ next[p] = Transition(c, ty)
    BY <1>2, <2>1 DEF ApplyTradeRow, IInv, PositionInv, DisputeMemory, OnceInv, PendingInv, Busy
  <2> DEFINE d == next[p]
  <2>3. trades' = [trades EXCEPT ![t] = d] /\ trades \in [TradeIds -> Position]
    BY <1>2 DEF ApplyTradeRow, IInv, TypeOK
  <2> HIDE DEF t, c, ty, d
  <2> DEFINE progress == [u \in TradeIds |-> Reached(trades[u])]
             status == [u \in TradeIds |-> StatusOf(trades[u])]
  <2>4. \A u \in TradeIds : trades'[u] = IF u = t THEN d ELSE trades[u]
    BY <2>1, <2>3
  <2>5. progress' = [progress EXCEPT ![t] = Reached(d)]
    BY <2>1, <2>4
  <2>6. status' = [status EXCEPT ![t] = StatusOf(d)]
    BY <2>1, <2>4
  <2>7. progress[t] = Reached(c) /\ status[t] = StatusOf(c)
    BY <2>1 DEF c
  <2>8. \/ Contract!Advance(t) \/ Contract!Dispute(t) \/ Contract!Resolve(t) \/ Contract!Cancel(t)
        \/ UNCHANGED Contract!cvars
    <3>1. d = Transition(c, ty)
      BY <2>2 DEF d
    <3>2. Reached(d) = Reached(c) => progress' = progress
      BY <2>1, <2>5, <2>7
    <3>3. StatusOf(d) = StatusOf(c) => status' = status
      BY <2>1, <2>6, <2>7
    <3> HIDE DEF progress, status
    <3>4. CASE StatusOf(c) = "open" /\ Reached(c) < 7
               /\ StatusOf(d) = "open" /\ Reached(d) = Reached(c) + 1
      <4>1. progress' = [progress EXCEPT ![t] = progress[t] + 1] /\ status' = status
        BY <2>5, <2>7, <3>3, <3>4
      <4>2. status[t] = "open" /\ progress[t] < 7
        BY <2>7, <3>4
      <4> QED
        BY <4>1, <4>2 DEF Contract!Advance, Contract!LastStage, progress, status
    <3>5. CASE StatusOf(c) \in {"open", "disputed"} /\ Reached(c) \in 1 .. 6
               /\ StatusOf(d) = "disputed" /\ Reached(d) = Reached(c)
      <4>1. progress' = progress /\ status' = [status EXCEPT ![t] = "disputed"]
        BY <2>6, <3>2, <3>5
      <4>2. status[t] = "open" \/ status' = status
        BY <2>7, <3>3, <3>5
      <4>3. progress[t] \in 1 .. 7 - 1
        BY <2>7, <3>5
      <4> QED
        BY <4>1, <4>2, <4>3
        DEF Contract!Dispute, Contract!Running, Contract!LastStage, Contract!cvars, progress, status
    <3>6. CASE StatusOf(c) = "disputed" /\ StatusOf(d) = "open" /\ Reached(d) = Reached(c)
      <4>1. progress' = progress /\ status' = [status EXCEPT ![t] = "open"]
            /\ status[t] = "disputed"
        BY <2>6, <2>7, <3>2, <3>6
      <4> QED
        BY <4>1 DEF Contract!Resolve, progress, status
    <3>7. CASE StatusOf(c) # "cancelled" /\ Reached(c) \in 1 .. 6
               /\ StatusOf(d) = "cancelled" /\ Reached(d) = 0
      <4>1. progress' = [progress EXCEPT ![t] = 0] /\ status' = [status EXCEPT ![t] = "cancelled"]
        BY <2>5, <2>6, <3>7
      <4>2. status[t] # "cancelled" /\ progress[t] \in 1 .. 7 - 1
        BY <2>7, <3>7
      <4> QED
        BY <4>1, <4>2 DEF Contract!Cancel, Contract!Running, Contract!LastStage, progress, status
    <3> QED
      BY <2>1, <2>2, <3>1, <3>4, <3>5, <3>6, <3>7, TableStep
  <2> QED
    BY <2>1, <2>8 DEF Contract!CNext
<1>3. ASSUME NEW p \in Procs, NEW e \in Events,
             ApplyCheck(p, e) \/ ApplyDuplicate(p, e) \/ PutObject(p, e)
      PROVE  trades' = trades
  BY <1>3 DEF ApplyCheck, ApplyDuplicate, PutObject, WriteFact, disk
<1>4. ASSUME NEW p \in Procs, ApplyFact(p) \/ ApplyEventRow(p) \/ Interrupt(p)
      PROVE  trades' = trades
  BY <1>4 DEF ApplyFact, WriteFact, ApplyEventRow, Interrupt, disk
<1>5. CASE UNCHANGED vars
  BY <1>5 DEF vars, Contract!cvars
<1> QED
  BY <1>1, <1>2, <1>3, <1>4, <1>5 DEF OnlineNext, Apply

\* With one process, applyEvent implements the contract of the trade chain,
\* wherever it is interrupted and however often it is called again.
THEOREM StoreImplementsContract ==
  ASSUME OneProcess
  PROVE  OnlineSpec => KeepsContract
<1>1. Init => Contract!CInit
  <2>1. Reached(NoTrade) = 0
    BY EventFacts
  <2>2. StatusOf(NoTrade) = "open"
    BY DEF StatusOf, NoTrade, None
  <2> QED
    BY <2>1, <2>2 DEF Init, Contract!CInit
<1>2. [OnlineNext]_vars => [Next]_vars
  BY DEF Next
<1>3. OnlineSpec => Spec
  BY <1>2, PTL DEF OnlineSpec, Spec
<1>4. IInv /\ OnceInv /\ [Next]_vars => OnceInv'
  BY OnceStep
<1>5. Spec => []IInv /\ []OnceInv
  BY IInvAlways, OnceInit, <1>4, PTL DEF Spec
<1> QED
  BY <1>1, <1>3, <1>5, ContractStep, PTL DEF OnlineSpec, KeepsContract, Contract!CSpec
===============================================================================
