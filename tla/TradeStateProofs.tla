--------------------------- MODULE TradeStateProofs ---------------------------
(***************************************************************************)
(* Facts about the transition table, for every position and event type.    *)
(***************************************************************************)
EXTENDS TradeState, TLAPS

\* The stages are numbered, chain events name chain states, and the sentinel
\* is none of the names the code uses.
LEMMA TableFacts ==
  /\ \A s \in ChainStates : StageOf[s] \in 1 .. 7
  /\ \A ty \in ChainEvents : Target[ty] \in ChainStates
  /\ None \notin TradeStates /\ None \notin EventTypes
  /\ "DISPUTED" \notin ChainStates /\ "CANCELLED" \notin ChainStates
  /\ OpenStates \subseteq ChainStates
  BY DEF ChainStates, StageOf, ChainEvents, Target, Source, TradeStates, EventTypes,
         OpenStates, TerminalStates, None

\* An accepted event leads from a sound position to a sound position.
\* (state.ts, transition: preDispute is non-null only while DISPUTED.)
THEOREM TransitionSound ==
  ASSUME NEW c, Sound(c), NEW ty \in EventTypes, Allowed(c, ty)
  PROVE  Sound(Transition(c, ty))
<1>1. CASE ty \in ChainEvents
  <2>1. ty \notin {"DISPUTED", "RESOLVED", "CANCELLED"}
    BY <1>1 DEF ChainEvents, Source
  <2>2. Transition(c, ty) = [state |-> Target[ty], pre |-> None]
    BY <1>1, <2>1 DEF Transition
  <2> QED
    BY <1>1, <2>2, TableFacts DEF Sound, Position, TradeStates
<1>2. CASE ty = "DISPUTED"
  <2>1. ty \notin ChainEvents
    BY <1>2 DEF ChainEvents, Source
  <2>2. Transition(c, ty) = [state |-> "DISPUTED",
                             pre |-> IF c.pre = None THEN c.state ELSE c.pre]
    BY <1>2, <2>1 DEF Transition
  <2>3. c.state # "DISPUTED" => c.state \in OpenStates
    BY <1>2, <2>1 DEF Sound, Allowed, Position, TradeStates, OpenStates, TerminalStates
  <2>4. (IF c.pre = None THEN c.state ELSE c.pre) \in OpenStates
    BY <2>3, TableFacts DEF Sound, TradeStates
  <2> QED
    BY <2>2, <2>4, TableFacts DEF Sound, Position, TradeStates
<1>3. CASE ty = "RESOLVED"
  <2>1. ty \notin ChainEvents
    BY <1>3 DEF ChainEvents, Source
  <2>2. Transition(c, ty) = [state |-> c.pre, pre |-> None]
    BY <1>3, <2>1 DEF Transition
  <2>3. c.pre \in OpenStates
    BY <1>3, <2>1 DEF Sound, Allowed
  <2> QED
    BY <2>2, <2>3, TableFacts DEF Sound, Position, TradeStates
<1>4. CASE ty = "CANCELLED"
  <2>1. ty \notin ChainEvents
    BY <1>4 DEF ChainEvents, Source
  <2>2. Transition(c, ty) = [state |-> "CANCELLED", pre |-> None]
    BY <1>4, <2>1 DEF Transition
  <2> QED
    BY <2>2 DEF Sound, Position, TradeStates
<1> QED
  BY <1>1, <1>2, <1>3, <1>4 DEF EventTypes

\* How far a sound position stands is a stage number.
LEMMA ReachedType ==
  ASSUME NEW c, Sound(c)
  PROVE  Reached(c) \in 0 .. 7
  BY TableFacts DEF Sound, Reached

\* An accepted chain event moves a trade to the next stage, never over one.
\* (state.ts:5-7: payment events never skip a state.)
THEOREM ChainStep ==
  ASSUME NEW c, Sound(c), NEW ty \in ChainEvents, Allowed(c, ty)
  PROVE  /\ Reached(Transition(c, ty)) = Reached(c) + 1
         /\ StageOf[Target[ty]] = Reached(c) + 1
         /\ c.state # "DISPUTED" /\ c.state # "CANCELLED"
<1> ty \notin {"DISPUTED", "RESOLVED", "CANCELLED"}
  BY DEF ChainEvents, Source
<1>1. Transition(c, ty) = [state |-> Target[ty], pre |-> None]
  BY DEF Transition
<1>2. Reached(Transition(c, ty)) = StageOf[Target[ty]]
  BY <1>1, TableFacts DEF Reached
<1>3. c.state = Source[ty]
  BY DEF Allowed, ChainEvents, Source
<1>4. /\ c.state # "DISPUTED" /\ c.state # "CANCELLED"
      /\ IF c.state \in ChainStates THEN StageOf[Target[ty]] = StageOf[c.state] + 1
                                    ELSE StageOf[Target[ty]] = 1
  BY <1>3 DEF ChainEvents, Source, Target, ChainStates, StageOf, None
<1> QED
  BY <1>2, <1>4 DEF Reached

\* A dispute keeps the stage, raised once or again.
THEOREM DisputeStep ==
  ASSUME NEW c, Sound(c), Allowed(c, "DISPUTED")
  PROVE  /\ Reached(Transition(c, "DISPUTED")) = Reached(c)
         /\ Transition(c, "DISPUTED").state = "DISPUTED"
         /\ Reached(c) \in 1 .. 6
<1>1. "DISPUTED" \notin ChainEvents
  BY DEF ChainEvents, Source
<1>2. Transition(c, "DISPUTED") = [state |-> "DISPUTED",
                                   pre |-> IF c.pre = None THEN c.state ELSE c.pre]
  BY <1>1 DEF Transition
<1>3. \A s \in OpenStates : s \in ChainStates /\ StageOf[s] \in 1 .. 6
  BY DEF OpenStates, TerminalStates, ChainStates, StageOf
<1>4. CASE c.state = "DISPUTED"
  BY <1>2, <1>3, <1>4, TableFacts DEF Sound, Reached, TradeStates
<1>5. CASE c.state # "DISPUTED"
  <2>1. c.state \in OpenStates /\ c.pre = None
    BY <1>1, <1>5 DEF Sound, Allowed, Position, TradeStates, OpenStates, TerminalStates
  <2> QED
    BY <1>2, <1>3, <2>1, TableFacts DEF Reached
<1> QED
  BY <1>4, <1>5

\* Resolving a dispute returns to the stage it interrupted.
THEOREM ResolveStep ==
  ASSUME NEW c, Sound(c), Allowed(c, "RESOLVED")
  PROVE  /\ Reached(Transition(c, "RESOLVED")) = Reached(c)
         /\ Transition(c, "RESOLVED").state \in OpenStates
         /\ c.state = "DISPUTED"
<1>1. "RESOLVED" \notin ChainEvents
  BY DEF ChainEvents, Source
<1>2. Transition(c, "RESOLVED") = [state |-> c.pre, pre |-> None]
  BY <1>1 DEF Transition
<1>3. c.state = "DISPUTED" /\ c.pre \in OpenStates
  BY <1>1 DEF Sound, Allowed
<1> QED
  BY <1>2, <1>3, TableFacts DEF Reached

\* A cancellation is accepted at a running stage or in a dispute, and keeps none.
THEOREM CancelStep ==
  ASSUME NEW c, Sound(c), Allowed(c, "CANCELLED")
  PROVE  /\ Reached(Transition(c, "CANCELLED")) = 0
         /\ Transition(c, "CANCELLED").state = "CANCELLED"
         /\ Reached(c) \in 1 .. 6 /\ c.state # "CANCELLED"
<1>1. "CANCELLED" \notin ChainEvents
  BY DEF ChainEvents, Source
<1>2. Transition(c, "CANCELLED") = [state |-> "CANCELLED", pre |-> None]
  BY <1>1 DEF Transition
<1>3. \A s \in OpenStates : s \in ChainStates /\ StageOf[s] \in 1 .. 6
  BY DEF OpenStates, TerminalStates, ChainStates, StageOf
<1>4. c.state \in OpenStates \/ (c.state = "DISPUTED" /\ c.pre \in OpenStates)
  BY <1>1 DEF Sound, Allowed, Position, TradeStates, OpenStates, TerminalStates
<1>5. Reached(c) \in 1 .. 6
  BY <1>3, <1>4, TableFacts DEF Reached
<1>6. c.state # "CANCELLED"
  BY DEF Allowed, TerminalStates
<1> QED
  BY <1>2, <1>5, <1>6, TableFacts DEF Reached
===============================================================================
