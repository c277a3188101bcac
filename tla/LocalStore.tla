------------------------------ MODULE LocalStore ------------------------------
(***************************************************************************)
(* packages/local-store/src/store.ts: one data directory with its fact     *)
(* files and its two index tables, used by a set of processes.  applyEvent *)
(* checks first and then makes three separate writes, with no transaction  *)
(* around them: the fact file, the row of the event table, the row of the  *)
(* trade table.  A process can stop between any two of them, because it    *)
(* dies or because SQLite refuses the write (no busy timeout is set, and   *)
(* the human-task mirror opens the same file).  rebuildIndex drops the two *)
(* tables and replays the fact files.                                      *)
(*                                                                         *)
(* An event's key stands for the pair (occurred_at, event_id) by which     *)
(* rebuildIndex sorts; it also identifies the event, as event_id does.     *)
(***************************************************************************)
EXTENDS TradeState, Naturals

CONSTANTS
  TradeIds,   \* trades
  Procs,      \* processes that have the data directory open
  Types,      \* event types the actors of this instance use
  MaxKey,     \* bound: keys are 1..MaxKey, so at most MaxKey events exist
  MaxFaults,  \* bound: interrupted operations and events stored unapplied
  InOrder     \* TRUE: every event is dated after all events seen before it

ASSUME StoreAssumption ==
  /\ None \notin TradeIds
  /\ Types \subseteq EventTypes
  /\ MaxKey \in Nat
  /\ MaxFaults \in Nat
  /\ InOrder \in BOOLEAN

VARIABLES
  facts,      \* .data/objects: the TRADE_EVENT fact files
  events,     \* index.sqlite, table events
  trades,     \* index.sqlite, table trades: a position, NoTrade for no row
  pc,         \* what each process does next
  job,        \* the event each process applies
  next,       \* the position its check computed
  todo,       \* rebuildIndex: collected events not yet inserted or replayed
  cur,        \* rebuildIndex: the trade being replayed
  cursor,     \* rebuildIndex: its position so far
  seen,       \* history: events that reached this directory
  applied,    \* history: events whose effect the trade table holds
  ordered,    \* history: applied in the order of their keys, trade by trade
  returned,   \* history: events for which applyEvent returned normally
  before,     \* history: the trade table when the last rebuild began
  faults      \* history: faults so far, at most MaxFaults

disk == <<facts, events, trades>>
rebuild == <<todo, cur, cursor, before>>
vars == <<facts, events, trades, pc, job, next, todo, cur, cursor,
          seen, applied, ordered, returned, before, faults>>

Keys == 1 .. MaxKey
Events == [key : Keys, trade : TradeIds, type : Types]
NoEvent == [key |-> 0, trade |-> None, type |-> None]

OfTrade(S, t) == {e \in S : e.trade = t}

\* Mutant: the event table is not asked.
LoggedNever(e) == FALSE

\* SELECT 1 FROM events WHERE trade_id = ? AND event_id = ?
Logged(e) == \E f \in events : f.trade = e.trade /\ f.key = e.key

\* INSERT OR IGNORE INTO events
InsertEvent(e) == IF Logged(e) THEN events ELSE events \cup {e}

\* Temporary file and rename: the file is there or it is not.
WriteFact(e) == facts' = facts \cup {e}

\* An event nobody has presented yet.  Keys are used up from 1 when actors'
\* clocks agree with the order of arrival, in any order when they do not.
Unused(e) ==
  /\ \A f \in seen : f.key # e.key
  /\ InOrder => \A k \in 1 .. e.key - 1 : \E f \in seen : f.key = k

Presented(e) == e \in Events /\ (e \in seen \/ Unused(e))

TypeOK ==
  /\ facts \subseteq Events /\ events \subseteq Events
  /\ trades \in [TradeIds -> Position]
  /\ pc \in [Procs -> {"idle", "fact", "event", "trade", "log", "replay"}]
  /\ job \in [Procs -> Events \cup {NoEvent}]
  /\ next \in [Procs -> Position]
  /\ todo \subseteq Events
  /\ cur \in TradeIds \cup {None}
  /\ cursor \in Position
  /\ seen \subseteq Events /\ applied \subseteq Events /\ returned \subseteq Events
  /\ ordered \in BOOLEAN
  /\ before \in [trades : [TradeIds -> Position], complete : BOOLEAN, ordered : BOOLEAN]
  /\ faults \in Nat

Init ==
  /\ facts = {} /\ events = {}
  /\ trades = [t \in TradeIds |-> NoTrade]
  /\ pc = [p \in Procs |-> "idle"]
  /\ job = [p \in Procs |-> NoEvent]
  /\ next = [p \in Procs |-> NoTrade]
  /\ todo = {} /\ cur = None /\ cursor = NoTrade
  /\ seen = {} /\ applied = {} /\ returned = {}
  /\ ordered = TRUE
  /\ before = [trades |-> [t \in TradeIds |-> NoTrade], complete |-> FALSE, ordered |-> FALSE]
  /\ faults = 0

-------------------------------------------------------------------------------
(* applyEvent *)

\* The checks, before anything is written.  A file that fails verification and
\* an event the table rejects throw here and leave no trace.  The two SELECTs
\* of the code are one step.
ApplyCheck(p, e) ==
  /\ pc[p] = "idle" /\ Presented(e)
  /\ ~Logged(e)
  /\ Allowed(trades[e.trade], e.type)
  /\ seen' = seen \cup {e}
  /\ pc' = [pc EXCEPT ![p] = "fact"]
  /\ job' = [job EXCEPT ![p] = e]
  /\ next' = [next EXCEPT ![p] = Transition(trades[e.trade], e.type)]
  /\ UNCHANGED <<disk, rebuild, applied, ordered, returned, faults>>

\* A logged event is answered with the current state and changes nothing.
ApplyDuplicate(p, e) ==
  /\ pc[p] = "idle" /\ e \in seen /\ Logged(e)
  /\ returned' = returned \cup {e}
  /\ UNCHANGED <<disk, rebuild, pc, job, next, seen, applied, ordered, faults>>

ApplyFact(p) ==
  /\ pc[p] = "fact"
  /\ WriteFact(job[p])
  /\ pc' = [pc EXCEPT ![p] = "event"]
  /\ UNCHANGED <<events, trades, rebuild, job, next, seen, applied, ordered, returned, faults>>

ApplyEventRow(p) ==
  /\ pc[p] = "event"
  /\ events' = InsertEvent(job[p])
  /\ pc' = [pc EXCEPT ![p] = "trade"]
  /\ UNCHANGED <<facts, trades, rebuild, job, next, seen, applied, ordered, returned, faults>>

\* The upsert of the trade row; applyEvent returns the state it computed.
ApplyTradeRow(p) ==
  /\ pc[p] = "trade"
  /\ trades' = [trades EXCEPT ![job[p].trade] = next[p]]
  /\ applied' = applied \cup {job[p]}
  /\ ordered' = (ordered /\ \A f \in OfTrade(applied, job[p].trade) : f.key < job[p].key)
  /\ returned' = returned \cup {job[p]}
  /\ pc' = [pc EXCEPT ![p] = "idle"]
  /\ job' = [job EXCEPT ![p] = NoEvent]
  /\ next' = [next EXCEPT ![p] = NoTrade]
  /\ UNCHANGED <<facts, events, rebuild, seen, faults>>
-------------------------------------------------------------------------------
(* putObject, and operations that stop half-way *)

\* putObject verifies and writes the fact file; it does not consult the state
\* machine, whatever the type of the object.
PutObject(p, e) ==
  /\ pc[p] = "idle" /\ Presented(e) /\ e \notin facts
  /\ faults < MaxFaults
  /\ WriteFact(e)
  /\ seen' = seen \cup {e}
  /\ faults' = faults + 1
  /\ UNCHANGED <<events, trades, rebuild, pc, job, next, applied, ordered, returned>>

\* The process dies, or a write throws: what is on disk stays, what the
\* operation held in memory is gone.
Interrupt(p) ==
  /\ pc[p] # "idle"
  /\ faults < MaxFaults
  /\ pc' = [pc EXCEPT ![p] = "idle"]
  /\ job' = [job EXCEPT ![p] = NoEvent]
  /\ next' = [next EXCEPT ![p] = NoTrade]
  /\ todo' = {} /\ cur' = None /\ cursor' = NoTrade
  /\ faults' = faults + 1
  /\ UNCHANGED <<disk, before, seen, applied, ordered, returned>>

-------------------------------------------------------------------------------
(* rebuildIndex.  It deletes the database file under any other process that *)
(* has it open, so it is modelled for a single process.                     *)

Alone(p) == Procs = {p}

IsFirst(e, S) == \A f \in S : e.key <= f.key

Complete == facts \subseteq applied

\* Mutant: the rebuild reads the event table it is about to drop.
CollectedFromTable == events

\* The rows of every TRADE_EVENT fact file.
Collected == facts

\* Close the database, delete it, create it again, collect the fact files.
RebuildWipe(p) ==
  /\ Alone(p) /\ pc[p] = "idle"
  /\ pc' = [pc EXCEPT ![p] = "log"]
  /\ todo' = Collected
  /\ events' = {} /\ trades' = [t \in TradeIds |-> NoTrade]
  /\ before' = [trades |-> trades, complete |-> Complete, ordered |-> ordered]
  /\ applied' = {} /\ ordered' = TRUE
  /\ UNCHANGED <<facts, job, next, cur, cursor, seen, returned, faults>>

\* Insert the collected events one by one in key order, then group them by
\* trade for the replay.
RebuildInsert(p) ==
  /\ pc[p] = "log"
  /\ \E e \in todo :
       /\ IsFirst(e, todo)
       /\ events' = InsertEvent(e)
       /\ todo' = todo \ {e}
  /\ UNCHANGED <<facts, trades, pc, job, next, cur, cursor, before,
                 seen, applied, ordered, returned, faults>>

RebuildGroup(p) ==
  /\ pc[p] = "log" /\ todo = {}
  /\ pc' = [pc EXCEPT ![p] = "replay"]
  /\ todo' = facts
  /\ UNCHANGED <<disk, job, next, cur, cursor, before, seen, applied, ordered, returned, faults>>

\* Trades are replayed one after the other, in the order of their first event.
IsNext(e) ==
  IF cur = None THEN IsFirst(e, todo)
  ELSE e.trade = cur /\ IsFirst(e, OfTrade(todo, cur))

RebuildReplay(p) ==
  /\ pc[p] = "replay"
  /\ \E e \in todo :
       /\ IsNext(e) /\ Allowed(cursor, e.type)
       /\ cursor' = Transition(cursor, e.type)
       /\ todo' = todo \ {e}
       /\ cur' = e.trade
  /\ UNCHANGED <<disk, pc, job, next, before, seen, applied, ordered, returned, faults>>

\* The table rejects the next event: the rebuild throws, with every event row
\* inserted and the rows of this trade and of the trades after it missing.
RebuildFail(p) ==
  /\ pc[p] = "replay"
  /\ \E e \in todo : IsNext(e) /\ ~Allowed(cursor, e.type)
  /\ pc' = [pc EXCEPT ![p] = "idle"]
  /\ todo' = {} /\ cur' = None /\ cursor' = NoTrade
  /\ UNCHANGED <<disk, job, next, before, seen, applied, ordered, returned, faults>>

\* Mutant: the position is not reset between two trades.
NextTradeKeeping == cur' = None /\ UNCHANGED cursor

NextTrade == cur' = None /\ cursor' = NoTrade

\* A trade is replayed to its end: upsert its row, start the next one afresh.
RebuildTradeRow(p) ==
  /\ pc[p] = "replay" /\ cur # None /\ OfTrade(todo, cur) = {}
  /\ trades' = [trades EXCEPT ![cur] = cursor]
  /\ applied' = applied \cup OfTrade(facts, cur)
  /\ NextTrade
  /\ UNCHANGED <<facts, events, pc, job, next, todo, before,
                 seen, ordered, returned, faults>>

RebuildDone(p) ==
  /\ pc[p] = "replay" /\ cur = None /\ todo = {}
  /\ pc' = [pc EXCEPT ![p] = "idle"]
  /\ UNCHANGED <<disk, rebuild, job, next, seen, applied, ordered, returned, faults>>

-------------------------------------------------------------------------------
Apply(p) ==
  \/ \E e \in Events : ApplyCheck(p, e) \/ ApplyDuplicate(p, e)
  \/ ApplyFact(p) \/ ApplyEventRow(p) \/ ApplyTradeRow(p)

Rebuild(p) ==
  \/ RebuildWipe(p) \/ RebuildInsert(p) \/ RebuildGroup(p)
  \/ RebuildReplay(p) \/ RebuildFail(p) \/ RebuildTradeRow(p) \/ RebuildDone(p)

OnlineNext ==
  \E p \in Procs : Apply(p) \/ Interrupt(p) \/ \E e \in Events : PutObject(p, e)

\* Everyday operation: nobody rebuilds the index.
OnlineSpec == Init /\ [][OnlineNext]_vars

Next == OnlineNext \/ \E p \in Procs : Rebuild(p)

Spec == Init /\ [][Next]_vars
===============================================================================
