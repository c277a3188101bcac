--------------------------------- MODULE Exchange ---------------------------------
(***************************************************************************)
(* One trade between parties that keep a store each and no store in        *)
(* common: the event tool of apps/mcp-server, the events the parties mail  *)
(* to each other, as the parties of examples/llm-doll-trade do, and what a *)
(* party does with an event it received.  An attachment stays in the inbox *)
(* directory of its receiver, so what was sent may be taken late, twice,   *)
(* in any order or never.                                                  *)
(*                                                                         *)
(* The parties know each other's keys and the contract: an event may be    *)
(* recorded whoever has signed it.  Each records a DEAL_SIGNED of its own; *)
(* the events after it are shared.                                         *)
(***************************************************************************)
EXTENDS TradeState, Sequences, FiniteSets

CONSTANTS
  Parties,
  EventKinds,  \* event types the parties record
  MaxEvents,   \* bound: events recorded
  MaxPosted    \* bound: events that reached a party

ASSUME ExchangeAssumption ==
  EventKinds \subseteq EventTypes /\ MaxEvents \in Nat /\ MaxPosted \in Nat

VARIABLES
  place,       \* each store: position of the trade
  ledger,      \* each store: events, in the order they were applied
  post,        \* events that reached each party
  recorded,    \* history: number of events recorded
  crossed,     \* history: a party recorded an event before it knew all others
  skipped      \* history: an event was applied before one older than it

stores == <<place, ledger>>
exchangeHistory == <<recorded, crossed, skipped>>
exchangeVars == <<stores, post, exchangeHistory>>

TradeEvents == [actor : Parties, type : EventKinds, n : 1 .. MaxEvents]

Elements(s) == {s[i] : i \in DOMAIN s}
InStore(p) == Elements(ledger[p])
IsShared(e) == e.type # "DEAL_SIGNED"

ExchangeTypeOK ==
  /\ place \in [Parties -> Position]
  /\ ledger \in [Parties -> Seq(TradeEvents)]
  /\ post \in [Parties -> SUBSET TradeEvents]
  /\ recorded \in 0 .. MaxEvents /\ crossed \in BOOLEAN /\ skipped \in BOOLEAN

ExchangeInit ==
  /\ place = [p \in Parties |-> NoTrade] /\ ledger = [p \in Parties |-> <<>>]
  /\ post = [p \in Parties |-> {}]
  /\ recorded = 0 /\ crossed = FALSE /\ skipped = FALSE

-------------------------------------------------------------------------------
Effect(p, e) ==
  /\ ledger' = [ledger EXCEPT ![p] = Append(@, e)]
  /\ place' = [place EXCEPT ![p] = Transition(@, e.type)]

\* The shared events in effect at some other party and not here.
Missing(p) == {e \in (UNION {InStore(q) : q \in Parties}) \ InStore(p) : IsShared(e)}

\* trade_record_event: build, sign and apply; what the table refuses is not kept.
RecordEvent(p, ty) ==
  LET e == [actor |-> p, type |-> ty, n |-> recorded + 1] IN
  /\ recorded < MaxEvents /\ recorded' = recorded + 1
  /\ Allowed(place[p], ty)
  /\ Effect(p, e)
  /\ crossed' = (crossed \/ (IsShared(e) /\ Missing(p) # {}))
  /\ UNCHANGED <<post, skipped>>

\* An event is mailed from the store it is in.
SendEvent(p, q, e) ==
  /\ p # q /\ e \in InStore(p) \ post[q] /\ Cardinality(post[q]) < MaxPosted
  /\ post' = [post EXCEPT ![q] = @ \cup {e}]
  /\ UNCHANGED <<stores, exchangeHistory>>

\* Mutant: the event table is not asked.
HeldNever(p, e) == FALSE

Held(p, e) == e \in InStore(p)

\* applyEvent of a received event; one that is held is answered and changes
\* nothing, one the table refuses throws and changes nothing.
TakeEvent(p, e) ==
  /\ e \in post[p] /\ ~Held(p, e)
  /\ Allowed(place[p], e.type)
  /\ Effect(p, e)
  /\ skipped' = (skipped \/ (IsShared(e) /\ \E f \in Missing(p) : f.n < e.n))
  /\ UNCHANGED <<post, recorded, crossed>>

ExchangeNext ==
  \E p \in Parties :
    \/ \E ty \in EventKinds : RecordEvent(p, ty)
    \/ \E e \in TradeEvents : TakeEvent(p, e) \/ \E q \in Parties : SendEvent(p, q, e)

ExchangeSpec == ExchangeInit /\ [][ExchangeNext]_exchangeVars

-------------------------------------------------------------------------------
(* Properties *)

SharedEvents(p) == {e \in InStore(p) : IsShared(e)}

\* Parties that know the same events stand at the same position, in whatever order,
\* how late and how often each of them took the events, unless two disputes were
\* raised (store.ts:351-385, state.ts:38-129).
SameEventsAgree ==
  \A p, q \in Parties :
    /\ place[p] # NoTrade /\ place[q] # NoTrade
    /\ SharedEvents(p) = SharedEvents(q)
    /\ Cardinality({e \in SharedEvents(p) : e.type = "DISPUTED"}) <= 1
    => place[p] = place[q]

\* As long as no party records an event before it has taken those of the others, and
\* all take events in their order, the ledger of one continues that of the other after
\* the DEAL_SIGNED each opens with, and the one behind can take the next: no trade gets
\* stuck between two stores (event.ts:44-76, demo.mjs:840-1020).
TurnsConverge ==
  ~crossed /\ ~skipped =>
    \A p, q \in Parties :
      LET behind == Len(ledger[p]) IN
      behind \in 1 .. Len(ledger[q]) =>
        /\ \A i \in 2 .. behind : ledger[p][i] = ledger[q][i]
        /\ behind < Len(ledger[q]) => Allowed(place[p], ledger[q][behind + 1].type)
===============================================================================
