------------------------------ MODULE ExchangeProofs ------------------------------
(***************************************************************************)
(* Parties that know the same events agree, and signatures stay, for any   *)
(* number of parties, events and objects on the way.                       *)
(*                                                                         *)
(* A position is more than the set of its events tells: which of two       *)
(* disputes was resolved depends on their order.  Follows says what of a   *)
(* position the set does tell, whatever the order was.                     *)
(***************************************************************************)
EXTENDS Exchange, TradeStateProofs, FiniteSetTheorems

\* Some event of S has this type.
Has(S, ty) == \E e \in S : e.type = ty

OneDispute(S) ==
  \A e, f \in S : e.type = "DISPUTED" /\ f.type = "DISPUTED" => e = f

\* The stage is that of the furthest chain event of S, or that of the signed deal.
Furthest(c, S) ==
  /\ \A e \in S : e.type \in ChainEvents => StageOf[Target[e.type]] <= Reached(c)
  /\ \/ Reached(c) = 1
     \/ \E e \in S : e.type \in ChainEvents /\ StageOf[Target[e.type]] = Reached(c)

\* Position c as far as the shared events S, applied in some order, determine it.
Follows(c, S) ==
  /\ c.state = None => S = {}
  /\ c.state = "CANCELLED" <=> Has(S, "CANCELLED")
  /\ c.state \notin {None, "CANCELLED"} => Furthest(c, S)
  /\ c.state = "DISPUTED" \/ Has(S, "RESOLVED") => Has(S, "DISPUTED")
  /\ c.state # "CANCELLED" /\ OneDispute(S) =>
       (c.state = "DISPUTED" <=> Has(S, "DISPUTED") /\ ~Has(S, "RESOLVED"))

KnownEvents == \A p \in Parties : \A e \in InStore(p) \cup post[p] : e.n <= recorded

PlacesFollow ==
  \A p \in Parties :
    Sound(place[p]) /\ Follows(place[p], SharedEvents(p)) /\ IsFiniteSet(SharedEvents(p))

ExchangeInv == ExchangeTypeOK /\ KnownEvents /\ PlacesFollow

-------------------------------------------------------------------------------
(* Positions *)

\* The position after an accepted shared event follows from the events and it.
LEMMA FollowsStep ==
  ASSUME NEW c, Sound(c), NEW S, Follows(c, S),
         NEW e, e \notin S, e.type \in EventTypes, IsShared(e), Allowed(c, e.type)
  PROVE  Follows(Transition(c, e.type), S \cup {e})
<1> DEFINE d == Transition(c, e.type)
           T == S \cup {e}
<1> SUFFICES Follows(d, T)
  OBVIOUS
<1>1. Sound(d)
  BY TransitionSound
<1>2. c.state # None /\ c.state # "CANCELLED"
  BY DEF Allowed, IsShared, Source, ChainEvents, TerminalStates, None
<1>3. \A ty : Has(T, ty) <=> Has(S, ty) \/ e.type = ty
  BY DEF Has
<1>4. OneDispute(T) => OneDispute(S)
  BY DEF OneDispute
<1>5. Furthest(c, S)
  BY <1>2 DEF Follows
<1>6. CASE e.type \in ChainEvents
  <2>1. /\ Reached(d) = Reached(c) + 1 /\ StageOf[Target[e.type]] = Reached(d)
        /\ c.state # "DISPUTED"
    BY <1>6, ChainStep
  <2>2. e.type \notin {"DISPUTED", "RESOLVED", "CANCELLED"}
    BY <1>6 DEF ChainEvents, Source
  <2>3. d.state \in ChainStates
    BY <1>6, <2>2, TableFacts DEF Transition
  <2>4. d.state \notin {None, "DISPUTED", "CANCELLED"}
    BY <2>3, TableFacts DEF TradeStates
  <2>5. Reached(c) \in Nat /\ \A f \in S : f.type \in ChainEvents => StageOf[Target[f.type]] \in Nat
    BY ReachedType, TableFacts
  <2>6. Furthest(d, T)
    <3>1. \A f \in T : f.type \in ChainEvents => StageOf[Target[f.type]] <= Reached(d)
      BY <1>5, <2>1, <2>5 DEF Furthest
    <3> QED
      BY <1>6, <2>1, <3>1 DEF Furthest
  <2> HIDE DEF d, T
  <2>7. Follows(c, S)
    OBVIOUS
  <2> QED
    BY <1>2, <1>3, <1>4, <2>1, <2>2, <2>4, <2>6, <2>7 DEF Follows
<1>7. CASE e.type \notin ChainEvents
  <2>1. e.type \in {"DISPUTED", "RESOLVED", "CANCELLED"}
    BY <1>7 DEF EventTypes
  <2>2. CASE e.type = "DISPUTED"
    <3>1. Reached(d) = Reached(c) /\ d.state = "DISPUTED"
      BY <2>2, DisputeStep
    <3>2. Furthest(d, T)
      BY <1>5, <1>7, <3>1 DEF Furthest
    <3>3. OneDispute(T) => ~Has(S, "DISPUTED")
      BY <2>2 DEF OneDispute, Has
    <3>4. Follows(c, S)
      OBVIOUS
    <3> HIDE DEF d, T
    <3> QED
      BY <1>2, <1>3, <1>4, <2>2, <3>1, <3>2, <3>3, <3>4 DEF Follows, None
  <2>3. CASE e.type = "RESOLVED"
    <3>1. Reached(d) = Reached(c) /\ d.state \in OpenStates /\ c.state = "DISPUTED"
      BY <2>3, ResolveStep
    <3>2. d.state \notin {None, "DISPUTED", "CANCELLED"}
      BY <3>1, TableFacts DEF TradeStates
    <3>3. Furthest(d, T)
      BY <1>5, <1>7, <3>1 DEF Furthest
    <3>4. Follows(c, S)
      OBVIOUS
    <3> HIDE DEF d, T
    <3> QED
      BY <1>2, <1>3, <1>4, <2>3, <3>1, <3>2, <3>3, <3>4 DEF Follows
  <2>4. CASE e.type = "CANCELLED"
    <3>1. d.state = "CANCELLED"
      BY <2>4, CancelStep
    <3>2. Follows(c, S)
      OBVIOUS
    <3> HIDE DEF d, T
    <3> QED
      BY <1>3, <1>2, <2>4, <3>1, <3>2 DEF Follows, None
  <2> QED
    BY <2>1, <2>2, <2>3, <2>4
<1> QED
  BY <1>6, <1>7

\* A party's own DEAL_SIGNED opens the trade, and no other event of its kind is taken.
LEMMA SignedStep ==
  ASSUME NEW c, Sound(c), NEW S, Follows(c, S), Allowed(c, "DEAL_SIGNED")
  PROVE  Follows(Transition(c, "DEAL_SIGNED"), S)
<1>1. c.state = None /\ S = {}
  BY DEF Allowed, Source, ChainEvents, Follows
<1>2. Transition(c, "DEAL_SIGNED") = [state |-> "AGREED", pre |-> None]
  BY DEF Transition, ChainEvents, Source, Target
<1>3. Reached(Transition(c, "DEAL_SIGNED")) = 1
  BY <1>2 DEF Reached, ChainStates, StageOf
<1> QED
  BY <1>1, <1>2, <1>3 DEF Follows, Furthest, Has, None

\* Two sound positions that follow from one set with one dispute at most are one.
LEMMA FollowsUnique ==
  ASSUME NEW c, NEW d, Sound(c), Sound(d), NEW S, Follows(c, S), Follows(d, S),
         c # NoTrade, d # NoTrade, OneDispute(S)
  PROVE  c = d
<1>1. \A x : Sound(x) => x = [state |-> x.state, pre |-> x.pre]
  BY DEF Sound, Position
<1>2. c.state # None /\ d.state # None
  BY <1>1 DEF Sound, NoTrade, None
<1>3. CASE Has(S, "CANCELLED")
  <2>1. c.state = "CANCELLED" /\ d.state = "CANCELLED"
    BY <1>3 DEF Follows
  <2>2. c.pre = None /\ d.pre = None
    BY <2>1 DEF Sound
  <2> QED
    BY <1>1, <2>1, <2>2
<1>4. CASE ~Has(S, "CANCELLED")
  <2>1. Furthest(c, S) /\ Furthest(d, S)
    BY <1>2, <1>4 DEF Follows
  <2>2. ASSUME NEW x, Sound(x), x.state \notin {None, "CANCELLED"}
        PROVE  /\ x.state \in ChainStates \/ (x.state = "DISPUTED" /\ x.pre \in ChainStates)
               /\ Reached(x) \in 1 .. 7
    BY <2>2, TableFacts DEF Sound, Position, TradeStates, Reached
  <2>3. Reached(c) \in 1 .. 7 /\ Reached(d) \in 1 .. 7
    BY <1>2, <1>4, <2>2 DEF Follows
  <2>4. Reached(c) = Reached(d)
    BY <2>1, <2>3 DEF Furthest
  <2>5. c.state = "DISPUTED" <=> d.state = "DISPUTED"
    BY <1>4 DEF Follows
  <2>6. \A s, t \in ChainStates : StageOf[s] = StageOf[t] => s = t
    BY DEF ChainStates, StageOf
  <2>7. c.state # "CANCELLED" /\ d.state # "CANCELLED"
    BY <1>4 DEF Follows
  <2>8. CASE c.state = "DISPUTED"
    <3>1. c.pre \in ChainStates /\ d.pre \in ChainStates
      BY <2>5, <2>8, TableFacts DEF Sound
    <3>2. Reached(c) = StageOf[c.pre] /\ Reached(d) = StageOf[d.pre]
      BY <2>5, <2>8, <3>1, TableFacts DEF Reached
    <3> QED
      BY <1>1, <2>4, <2>5, <2>6, <2>8, <3>1, <3>2
  <2>9. CASE c.state # "DISPUTED"
    <3>1. c.state \in ChainStates /\ d.state \in ChainStates
      BY <1>2, <2>2, <2>5, <2>7, <2>9
    <3>2. Reached(c) = StageOf[c.state] /\ Reached(d) = StageOf[d.state]
      BY <3>1 DEF Reached
    <3>3. c.pre = None /\ d.pre = None
      BY <2>5, <2>9 DEF Sound
    <3> QED
      BY <1>1, <2>4, <2>6, <3>1, <3>2, <3>3
  <2> QED
    BY <2>8, <2>9
<1> QED
  BY <1>3, <1>4

\* At most one event of a finite set is a dispute if their number is at most one.
LEMMA CountedOnce ==
  ASSUME NEW S, IsFiniteSet(S), Cardinality({e \in S : e.type = "DISPUTED"}) <= 1
  PROVE  OneDispute(S)
<1> DEFINE D == {e \in S : e.type = "DISPUTED"}
<1>1. IsFiniteSet(D)
  BY FS_Subset
<1>2. SUFFICES ASSUME NEW e \in D, NEW f \in D, e # f
               PROVE  FALSE
  BY DEF OneDispute
<1>3. IsFiniteSet({e}) /\ Cardinality({e}) = 1
  BY FS_Singleton
<1>4. Cardinality({e} \cup {f}) = 2
  <2>1. f \notin {e}
    BY <1>2
  <2>2. Cardinality({e} \cup {f}) = Cardinality({e}) + 1
    BY <1>3, <2>1, FS_AddElement
  <2> QED
    BY <1>3, <2>2
<1>5. {e} \cup {f} \in SUBSET D
  OBVIOUS
<1>6. Cardinality({e} \cup {f}) <= Cardinality(D)
  BY <1>1, <1>5, FS_Subset
<1>7. Cardinality(D) <= 1
  OBVIOUS
<1>8. Cardinality(D) \in Nat
  BY <1>1, FS_CardinalityType
<1> DEFINE n == Cardinality(D)
<1>9. 2 <= n /\ n <= 1 /\ n \in Nat
  BY <1>4, <1>6, <1>7, <1>8
<1> HIDE DEF n
<1> QED
  BY <1>9

-------------------------------------------------------------------------------
(* Steps *)

\* The elements of a ledger with one more event.
LEMMA ElementsAppend ==
  ASSUME NEW A, NEW s \in Seq(A), NEW e \in A
  PROVE  Elements(Append(s, e)) = Elements(s) \cup {e} /\ Append(s, e) \in Seq(A)
<1>1. Len(Append(s, e)) = Len(s) + 1 /\ Append(s, e)[Len(s) + 1] = e /\ Len(s) \in Nat
      /\ \A i \in 1 .. Len(s) : Append(s, e)[i] = s[i]
  OBVIOUS
<1>2. DOMAIN Append(s, e) = 1 .. Len(s) + 1 /\ DOMAIN s = 1 .. Len(s)
  OBVIOUS
<1>3. Append(s, e) \in Seq(A)
  OBVIOUS
<1> QED
  BY <1>1, <1>2, <1>3 DEF Elements

\* An event is applied at one party, which does not have it.
LEMMA EffectStep ==
  ASSUME ExchangeInv, NEW p \in Parties, NEW e \in TradeEvents, e \notin InStore(p),
         Allowed(place[p], e.type), Effect(p, e)
  PROVE  /\ place' \in [Parties -> Position] /\ ledger' \in [Parties -> Seq(TradeEvents)]
         /\ PlacesFollow'
         /\ \A q \in Parties : InStore(q)' = IF q = p THEN InStore(p) \cup {e} ELSE InStore(q)
<1>1. /\ e.type \in EventTypes
      /\ place \in [Parties -> Position] /\ ledger \in [Parties -> Seq(TradeEvents)]
  BY ExchangeAssumption DEF TradeEvents, ExchangeInv, ExchangeTypeOK
<1>2. Sound(Transition(place[p], e.type))
  BY <1>1, TransitionSound DEF ExchangeInv, PlacesFollow
<1>3. /\ place' = [place EXCEPT ![p] = Transition(place[p], e.type)]
      /\ ledger' = [ledger EXCEPT ![p] = Append(ledger[p], e)]
  BY DEF Effect
<1>4. Elements(Append(ledger[p], e)) = Elements(ledger[p]) \cup {e}
      /\ Append(ledger[p], e) \in Seq(TradeEvents)
  BY <1>1, ElementsAppend
<1>5. place' \in [Parties -> Position] /\ ledger' \in [Parties -> Seq(TradeEvents)]
  BY <1>1, <1>2, <1>3, <1>4 DEF Sound
<1>6. \A q \in Parties : InStore(q)' = IF q = p THEN InStore(p) \cup {e} ELSE InStore(q)
  BY <1>1, <1>3, <1>4 DEF InStore
<1>7. ASSUME NEW q \in Parties
      PROVE  /\ Sound(place'[q]) /\ Follows(place'[q], SharedEvents(q)')
             /\ IsFiniteSet(SharedEvents(q)')
  <2>0. /\ Sound(place[q]) /\ Follows(place[q], SharedEvents(q))
        /\ IsFiniteSet(SharedEvents(q))
    BY DEF ExchangeInv, PlacesFollow
  <2>1. CASE q # p
    <3>1. place'[q] = place[q] /\ SharedEvents(q)' = SharedEvents(q)
      BY <1>1, <1>3, <1>6, <2>1 DEF SharedEvents
    <3> QED
      BY <2>0, <3>1
  <2>2. CASE q = p /\ IsShared(e)
    <3>1. place'[q] = Transition(place[q], e.type)
      BY <1>1, <1>3, <2>2
    <3>2. SharedEvents(q)' = SharedEvents(q) \cup {e} /\ e \notin SharedEvents(q)
      BY <1>6, <2>2 DEF SharedEvents
    <3>3. Follows(place'[q], SharedEvents(q)')
      <4>1. Allowed(place[q], e.type)
        BY <2>2
      <4>2. Follows(Transition(place[q], e.type), SharedEvents(q) \cup {e})
        BY <1>1, <2>0, <2>2, <3>2, <4>1, FollowsStep
      <4> QED
        BY <3>1, <3>2, <4>2
    <3>4. IsFiniteSet(SharedEvents(q)')
      BY <2>0, <3>2, FS_AddElement
    <3> QED
      BY <1>2, <2>2, <3>1, <3>3, <3>4
  <2>3. CASE q = p /\ ~IsShared(e)
    <3>1. e.type = "DEAL_SIGNED" /\ place'[q] = Transition(place[q], "DEAL_SIGNED")
      BY <1>1, <1>3, <2>3 DEF IsShared
    <3>2. SharedEvents(q)' = SharedEvents(q)
      BY <1>6, <2>3 DEF SharedEvents
    <3>3. Follows(place'[q], SharedEvents(q)')
      BY <2>0, <2>3, <3>1, <3>2, SignedStep
    <3> QED
      BY <1>2, <2>0, <2>3, <3>1, <3>2, <3>3
  <2> QED
    BY <2>1, <2>2, <2>3
<1>8. PlacesFollow'
  BY <1>7 DEF PlacesFollow
<1> QED
  BY <1>5, <1>6, <1>8

\* The stores' events stay as they are when neither place nor ledger changes.
LEMMA StoresKept ==
  ASSUME ExchangeInv, UNCHANGED <<place, ledger>>
  PROVE  PlacesFollow' /\ \A q \in Parties : InStore(q)' = InStore(q)
  BY DEF ExchangeInv, PlacesFollow, SharedEvents, InStore

LEMMA ExchangeInitial == ExchangeInit => ExchangeInv
<1> SUFFICES ASSUME ExchangeInit
             PROVE  ExchangeInv
  OBVIOUS
<1>1. Sound(NoTrade) /\ NoTrade \in Position
  BY TableFacts DEF NoTrade, Sound, Position, None
<1>2. \A q \in Parties : InStore(q) = {} /\ SharedEvents(q) = {}
  BY DEF ExchangeInit, InStore, Elements, SharedEvents
<1>3. Follows(NoTrade, {})
  BY DEF Follows, Has, NoTrade, None
<1>4. PlacesFollow
  BY <1>1, <1>2, <1>3, FS_EmptySet DEF PlacesFollow, ExchangeInit
<1>5. KnownEvents
  BY <1>2 DEF ExchangeInit, KnownEvents
<1>6. ExchangeTypeOK
  <2>1. place \in [Parties -> Position] /\ ledger \in [Parties -> Seq(TradeEvents)]
    BY <1>1 DEF ExchangeInit
  <2>3. post \in [Parties -> SUBSET TradeEvents]
    BY DEF ExchangeInit
  <2>4. recorded \in 0 .. MaxEvents
    BY ExchangeAssumption DEF ExchangeInit
  <2>5. crossed \in BOOLEAN /\ skipped \in BOOLEAN
    BY DEF ExchangeInit
  <2> QED
    BY <2>1, <2>3, <2>4, <2>5 DEF ExchangeTypeOK
<1> QED
  BY <1>4, <1>5, <1>6 DEF ExchangeInv

LEMMA ExchangeStep == ExchangeInv /\ [ExchangeNext]_exchangeVars => ExchangeInv'
<1> SUFFICES ASSUME ExchangeInv, [ExchangeNext]_exchangeVars
             PROVE  ExchangeInv'
  OBVIOUS
<1>0. ExchangeTypeOK /\ KnownEvents
  BY DEF ExchangeInv
<1>4. ASSUME NEW p \in Parties, NEW ty \in EventKinds, RecordEvent(p, ty)
      PROVE  ExchangeInv'
  <2> DEFINE e == [actor |-> p, type |-> ty, n |-> recorded + 1]
  <2>1. /\ recorded < MaxEvents /\ recorded' = recorded + 1
        /\ Allowed(place[p], ty) /\ Effect(p, e)
        /\ crossed' = (crossed \/ (IsShared(e) /\ Missing(p) # {}))
        /\ UNCHANGED <<post, skipped>>
    BY <1>4 DEF RecordEvent
  <2>2. recorded \in 0 .. MaxEvents /\ MaxEvents \in Nat
    BY <1>0, ExchangeAssumption DEF ExchangeTypeOK
  <2>3. e \in TradeEvents
    BY <2>1, <2>2 DEF TradeEvents
  <2>4. e \notin InStore(p)
    BY <1>0, <2>2 DEF KnownEvents
  <2>5. /\ place' \in [Parties -> Position] /\ ledger' \in [Parties -> Seq(TradeEvents)]
        /\ PlacesFollow'
        /\ \A q \in Parties : InStore(q)' = IF q = p THEN InStore(p) \cup {e} ELSE InStore(q)
    BY <2>1, <2>3, <2>4, EffectStep
  <2>6. \A q \in Parties : \A f \in InStore(q) \cup post[q] : f.n \in Nat
    <3>1. \A q \in Parties : InStore(q) \subseteq TradeEvents /\ post[q] \subseteq TradeEvents
      BY <1>0 DEF ExchangeTypeOK, InStore, Elements
    <3> QED
      BY <3>1 DEF TradeEvents
  <2>7. e.n = recorded + 1
    OBVIOUS
  <2> HIDE DEF e
  <2>8. KnownEvents'
    <3>1. ASSUME NEW q \in Parties, NEW f \in InStore(q)' \cup post'[q] PROVE f.n <= recorded'
      <4>1. CASE f = e
        BY <2>1, <2>2, <2>7, <4>1
      <4>2. CASE f # e
        <5>1. f \in InStore(q) \cup post[q]
          BY <2>1, <2>5, <3>1, <4>2
        <5>2. f.n \in Nat /\ f.n <= recorded
          BY <1>0, <2>6, <5>1 DEF KnownEvents
        <5> QED
          BY <2>1, <2>2, <5>2
      <4> QED
        BY <4>1, <4>2
    <3> QED
      BY <3>1 DEF KnownEvents
  <2>9. crossed' \in BOOLEAN
    BY <1>0, <2>1 DEF ExchangeTypeOK
  <2>10. recorded' \in 0 .. MaxEvents
    BY <2>1, <2>2
  <2>11. ExchangeTypeOK'
    BY <1>0, <2>1, <2>5, <2>9, <2>10 DEF ExchangeTypeOK
  <2> QED
    BY <2>5, <2>8, <2>11 DEF ExchangeInv
<1>5. ASSUME NEW p \in Parties, NEW e \in TradeEvents, TakeEvent(p, e)
      PROVE  ExchangeInv'
  <2>1. /\ e \in post[p] /\ e \notin InStore(p)
        /\ Allowed(place[p], e.type) /\ Effect(p, e)
        /\ UNCHANGED <<post, recorded, crossed>>
    BY <1>5 DEF TakeEvent, Held
  <2>2. skipped' \in BOOLEAN
    <3>1. skipped' = (skipped \/ (IsShared(e) /\ \E f \in Missing(p) : f.n < e.n))
      BY <1>5 DEF TakeEvent
    <3> QED
      BY <1>0, <3>1 DEF ExchangeTypeOK
  <2>5. /\ place' \in [Parties -> Position] /\ ledger' \in [Parties -> Seq(TradeEvents)]
        /\ PlacesFollow'
        /\ \A q \in Parties : InStore(q)' = IF q = p THEN InStore(p) \cup {e} ELSE InStore(q)
    BY <2>1, EffectStep
  <2>8. KnownEvents'
    BY <1>0, <2>1, <2>5 DEF KnownEvents
  <2>11. ExchangeTypeOK'
    BY <1>0, <2>1, <2>2, <2>5 DEF ExchangeTypeOK
  <2> QED
    BY <2>5, <2>8, <2>11 DEF ExchangeInv
<1>6. ASSUME NEW p \in Parties, NEW q \in Parties, NEW e \in TradeEvents, SendEvent(p, q, e)
      PROVE  ExchangeInv'
  <2>1. /\ e \in InStore(p)
        /\ post' = [post EXCEPT ![q] = post[q] \cup {e}]
        /\ UNCHANGED <<place, ledger, recorded, crossed, skipped>>
    BY <1>6 DEF SendEvent, stores, exchangeHistory
  <2>2. post' \in [Parties -> SUBSET TradeEvents]
    BY <1>0, <2>1 DEF ExchangeTypeOK
  <2>3. \A r \in Parties : post'[r] \subseteq post[r] \cup {e}
    BY <1>0, <2>1 DEF ExchangeTypeOK
  <2>4. PlacesFollow' /\ \A r \in Parties : InStore(r)' = InStore(r)
    BY <2>1, StoresKept
  <2>5. ExchangeTypeOK'
    BY <1>0, <2>1, <2>2 DEF ExchangeTypeOK
  <2>6. e.n <= recorded
    BY <1>0, <2>1 DEF KnownEvents
  <2>7. KnownEvents'
    BY <1>0, <2>1, <2>3, <2>4, <2>6 DEF KnownEvents
  <2> QED
    BY <2>4, <2>5, <2>7 DEF ExchangeInv
<1>7. CASE UNCHANGED exchangeVars
  <2>1. UNCHANGED <<place, ledger, post, recorded, crossed, skipped>>
    BY <1>7 DEF exchangeVars, stores, exchangeHistory
  <2>2. PlacesFollow' /\ \A r \in Parties : InStore(r)' = InStore(r)
    BY <2>1, StoresKept
  <2> QED
    BY <1>0, <2>1, <2>2 DEF ExchangeInv, ExchangeTypeOK, KnownEvents
<1> QED
  BY <1>4, <1>5, <1>6, <1>7 DEF ExchangeNext

LEMMA ExchangeInvAlways == ExchangeSpec => []ExchangeInv
  BY ExchangeInitial, ExchangeStep, PTL DEF ExchangeSpec

-------------------------------------------------------------------------------
(* Taking turns *)

Agreed == [state |-> "AGREED", pre |-> None]

\* The first event of a ledger, and no other, is a DEAL_SIGNED.
Opens(p) ==
  /\ place[p] = NoTrade <=> Len(ledger[p]) = 0
  /\ \A i \in 1 .. Len(ledger[p]) : IsShared(ledger[p][i]) <=> i # 1

\* Nobody was sent an event that is in no store.
Posted == \A p \in Parties : \A e \in post[p] : \E q \in Parties : e \in InStore(q)

\* The positions a trade goes through are those of one course f: every ledger, as far
\* as it reaches, has taken the steps of f.
OnCourse(f) ==
  /\ f[1] = Agreed
  /\ \A p \in Parties :
       /\ Len(ledger[p]) >= 1 => place[p] = f[Len(ledger[p])]
       /\ \A i \in 2 .. Len(ledger[p]) :
            Allowed(f[i - 1], ledger[p][i].type) /\ f[i] = Transition(f[i - 1], ledger[p][i].type)

Agree ==
  \A p, q \in Parties : \A i \in 2 .. Len(ledger[p]) : i <= Len(ledger[q]) => ledger[p][i] = ledger[q][i]

\* Shared events are in the order they were recorded in.
InOrder == \A p \in Parties : \A i, j \in 2 .. Len(ledger[p]) : i < j => ledger[p][i].n < ledger[p][j].n

InTurn == ~crossed /\ ~skipped

TurnInv ==
  /\ Posted /\ \A p \in Parties : Opens(p)
  /\ InTurn => Agree /\ InOrder /\ \E f \in [Nat -> Position] : OnCourse(f)

\* DEAL_SIGNED opens a trade, and nothing else does.
LEMMA OpeningEvent ==
  ASSUME NEW c, Sound(c), NEW ty \in EventTypes, Allowed(c, ty)
  PROVE  /\ c = NoTrade <=> ty = "DEAL_SIGNED"
         /\ Transition(c, ty) # NoTrade /\ (c = NoTrade => Transition(c, ty) = Agreed)
<1>1. c = [state |-> c.state, pre |-> c.pre]
  BY DEF Sound, Position
<1>2. c.state = None => c.pre = None
  BY DEF Sound, None
<1>3. c.state = None <=> ty = "DEAL_SIGNED"
  BY DEF Allowed, Source, ChainEvents, None
<1>4. c = NoTrade <=> ty = "DEAL_SIGNED"
  BY <1>1, <1>2, <1>3 DEF NoTrade
<1>5. ty = "DEAL_SIGNED" => Transition(c, ty) = Agreed
  BY DEF Transition, ChainEvents, Source, Target, Agreed
<1>6. Transition(c, ty).state # None
  <2>1. CASE ty \in ChainEvents
    BY <2>1, TableFacts DEF Transition, ChainEvents, Source, TradeStates
  <2>2. CASE ty = "DISPUTED" \/ ty = "CANCELLED"
    BY <2>2 DEF Transition, ChainEvents, Source, None
  <2>3. CASE ty = "RESOLVED"
    BY <2>3 DEF Transition, ChainEvents, Source, Allowed
  <2> QED
    BY <2>1, <2>2, <2>3 DEF EventTypes
<1> QED
  BY <1>4, <1>5, <1>6 DEF NoTrade

\* An event applied at p is the last of its ledger.
LEMMA LedgerGrows ==
  ASSUME ExchangeInv, NEW p \in Parties, NEW e \in TradeEvents, Effect(p, e)
  PROVE  /\ \A q \in Parties : Len(ledger[q]) \in Nat
         /\ Len(ledger'[p]) = Len(ledger[p]) + 1 /\ ledger'[p][Len(ledger[p]) + 1] = e
         /\ \A i \in 1 .. Len(ledger[p]) : ledger'[p][i] = ledger[p][i]
         /\ place'[p] = Transition(place[p], e.type)
         /\ \A q \in Parties : q # p => ledger'[q] = ledger[q] /\ place'[q] = place[q]
<1>1. place \in [Parties -> Position] /\ ledger \in [Parties -> Seq(TradeEvents)]
  BY DEF ExchangeInv, ExchangeTypeOK
<1>2. /\ place' = [place EXCEPT ![p] = Transition(place[p], e.type)]
      /\ ledger' = [ledger EXCEPT ![p] = Append(ledger[p], e)]
  BY DEF Effect
<1>3. ledger'[p] = Append(ledger[p], e) /\ \A q \in Parties : ledger[q] \in Seq(TradeEvents)
  BY <1>1, <1>2
<1>4. place'[p] = Transition(place[p], e.type)
      /\ \A q \in Parties : q # p => ledger'[q] = ledger[q] /\ place'[q] = place[q]
  BY <1>1, <1>2
<1> QED
  BY <1>3, <1>4

LEMMA InLedger ==
  ASSUME ExchangeInv, NEW p \in Parties
  PROVE  /\ Len(ledger[p]) \in Nat
         /\ \A e : e \in InStore(p) <=> \E i \in 1 .. Len(ledger[p]) : ledger[p][i] = e
<1>1. ledger[p] \in Seq(TradeEvents)
  BY DEF ExchangeInv, ExchangeTypeOK
<1>2. DOMAIN ledger[p] = 1 .. Len(ledger[p]) /\ Len(ledger[p]) \in Nat
  BY <1>1
<1> QED
  BY <1>2 DEF InStore, Elements

LEMMA OpensStep ==
  ASSUME ExchangeInv, \A q \in Parties : Opens(q), NEW p \in Parties, NEW e \in TradeEvents,
         Allowed(place[p], e.type), Effect(p, e)
  PROVE  /\ \A q \in Parties : Opens(q)'
         /\ IsShared(e) <=> Len(ledger[p]) # 0
         /\ Len(ledger[p]) = 0 => place'[p] = Agreed
<1> DEFINE n == Len(ledger[p])
<1>1. /\ e.type \in EventTypes /\ Sound(place[p]) /\ (place[p] = NoTrade <=> n = 0)
      /\ \A i \in 1 .. n : IsShared(ledger[p][i]) <=> i # 1
  BY ExchangeAssumption DEF TradeEvents, ExchangeInv, ExchangeTypeOK, PlacesFollow, Opens
<1>2. /\ n \in Nat /\ Len(ledger'[p]) = n + 1 /\ ledger'[p][n + 1] = e
      /\ \A i \in 1 .. n : ledger'[p][i] = ledger[p][i]
      /\ place'[p] = Transition(place[p], e.type)
      /\ \A q \in Parties : q # p => ledger'[q] = ledger[q] /\ place'[q] = place[q]
  BY LedgerGrows
<1>3. /\ place[p] = NoTrade <=> e.type = "DEAL_SIGNED"
      /\ place'[p] # NoTrade /\ (place[p] = NoTrade => place'[p] = Agreed)
  BY <1>1, <1>2, OpeningEvent
<1>4. IsShared(e) <=> n # 0
  BY <1>1, <1>3 DEF IsShared
<1> HIDE DEF n
<1>5. ASSUME NEW i \in 1 .. n + 1 PROVE IsShared(ledger'[p][i]) <=> i # 1
  <2>1. CASE i = n + 1
    <3>1. ledger'[p][i] = e
      BY <1>2, <2>1
    <3> QED
      BY <1>2, <1>4, <2>1, <3>1
  <2>2. CASE i # n + 1
    <3>1. i \in 1 .. n /\ ledger'[p][i] = ledger[p][i]
      BY <1>2, <2>2
    <3> QED
      BY <1>1, <3>1
  <2> QED
    BY <2>1, <2>2
<1>6. Opens(p)'
  BY <1>2, <1>3, <1>5 DEF Opens, IsShared
<1>7. \A q \in Parties : q # p => Opens(q)'
  BY <1>2 DEF Opens, IsShared
<1> QED
  BY <1>1, <1>3, <1>4, <1>6, <1>7 DEF n

\* A party ahead of all others goes on, or one behind takes the next event.
LEMMA CourseStep ==
  ASSUME ExchangeInv, Agree, InOrder, \A q \in Parties : Opens(q), NEW f \in [Nat -> Position], OnCourse(f),
         NEW p \in Parties, NEW e \in TradeEvents, Allowed(place[p], e.type), Effect(p, e),
         IsShared(e) =>
           \/ /\ \A q \in Parties : Len(ledger[q]) <= Len(ledger[p])
              /\ \A x \in InStore(p) : x.n < e.n
           \/ \E q \in Parties : Len(ledger[p]) < Len(ledger[q]) /\ ledger[q][Len(ledger[p]) + 1] = e
  PROVE  Agree' /\ InOrder' /\ \E g \in [Nat -> Position] : OnCourse(g)'
<1> DEFINE n == Len(ledger[p])
<1>1. /\ n \in Nat /\ Len(ledger'[p]) = n + 1 /\ ledger'[p][n + 1] = e
      /\ \A i \in 1 .. n : ledger'[p][i] = ledger[p][i]
      /\ place'[p] = Transition(place[p], e.type)
      /\ \A q \in Parties : q # p => ledger'[q] = ledger[q] /\ place'[q] = place[q]
      /\ \A q \in Parties : Len(ledger[q]) \in Nat
  BY LedgerGrows
<1>2. (IsShared(e) <=> n # 0) /\ (n = 0 => place'[p] = Agreed)
  BY OpensStep
<1>3. place'[p] \in Position
  <2>1. place' \in [Parties -> Position]
    <3>1. place \in [Parties -> Position] /\ e.type \in EventTypes /\ Sound(place[p])
      BY ExchangeAssumption DEF TradeEvents, ExchangeInv, ExchangeTypeOK, PlacesFollow
    <3>2. Transition(place[p], e.type) \in Position
      BY <3>1, TransitionSound DEF Sound
    <3> QED
      BY <3>1, <3>2 DEF Effect
  <2> QED
    BY <2>1
<1>4. CASE n = 0
  <2>1. Len(ledger'[p]) = 1
    BY <1>1, <1>4
  <2>2. Agree' /\ InOrder'
    <3>1. \A q \in Parties : Len(ledger'[q]) = IF q = p THEN 1 ELSE Len(ledger[q])
      BY <1>1, <2>1
    <3>2. \A q \in Parties : \A i \in 2 .. Len(ledger'[q]) : q # p /\ ledger'[q][i] = ledger[q][i]
      BY <1>1, <3>1
    <3>3. Agree'
      <4> SUFFICES ASSUME NEW r \in Parties, NEW t \in Parties,
                          NEW i \in 2 .. Len(ledger'[r]), i <= Len(ledger'[t])
                   PROVE  ledger'[r][i] = ledger'[t][i]
        BY DEF Agree
      <4>1. /\ i \in 2 .. Len(ledger[r]) /\ i <= Len(ledger[t])
            /\ ledger'[r] = ledger[r] /\ ledger'[t] = ledger[t]
        BY <1>1, <3>1, <3>2
      <4> QED
        BY <4>1 DEF Agree
    <3>4. InOrder'
      <4> SUFFICES ASSUME NEW r \in Parties, NEW i \in 2 .. Len(ledger'[r]), NEW j \in 2 .. Len(ledger'[r]), i < j
                   PROVE  ledger'[r][i].n < ledger'[r][j].n
        BY DEF InOrder
      <4>1. ledger'[r] = ledger[r]
        BY <1>1, <3>2
      <4> QED
        BY <4>1 DEF InOrder
    <3> QED
      BY <3>3, <3>4
  <2>3. OnCourse(f)'
    <3>1. \A r \in Parties : Len(ledger'[r]) >= 1 => place'[r] = f[Len(ledger'[r])]
      BY <1>1, <1>2, <1>4, <2>1 DEF OnCourse
    <3>2. ASSUME NEW r \in Parties, NEW i \in 2 .. Len(ledger'[r])
          PROVE  Allowed(f[i - 1], ledger'[r][i].type) /\ f[i] = Transition(f[i - 1], ledger'[r][i].type)
      <4>1. ledger'[r] = ledger[r]
        BY <1>1, <2>1, <3>2
      <4> QED
        BY <3>2, <4>1 DEF OnCourse
    <3> QED
      BY <3>1, <3>2 DEF OnCourse
  <2> QED
    BY <2>2, <2>3
<1>5. CASE n # 0 /\ \E q \in Parties : n < Len(ledger[q]) /\ ledger[q][n + 1] = e
  <2>1. PICK q \in Parties : n < Len(ledger[q]) /\ ledger[q][n + 1] = e
    BY <1>5
  <2>2. q # p /\ n + 1 \in 2 .. Len(ledger[q])
    BY <1>1, <1>5, <2>1
  <2>3. \A i \in 2 .. n + 1 : ledger'[p][i] = ledger[q][i]
    <3> SUFFICES ASSUME NEW i \in 2 .. n + 1 PROVE ledger'[p][i] = ledger[q][i]
      OBVIOUS
    <3>1. CASE i = n + 1
      BY <1>1, <2>1, <3>1
    <3>2. CASE i # n + 1
      <4>1. i \in 2 .. n /\ i <= Len(ledger[q])
        BY <1>1, <2>1, <3>2
      <4> QED
        BY <1>1, <4>1 DEF Agree
    <3> QED
      BY <3>1, <3>2
  <2> HIDE DEF n
  <2>4. Agree'
    <3> SUFFICES ASSUME NEW r \in Parties, NEW t \in Parties,
                        NEW i \in 2 .. Len(ledger'[r]), i <= Len(ledger'[t])
                 PROVE  ledger'[r][i] = ledger'[t][i]
      BY DEF Agree
    <3> DEFINE at(x) == IF x = p THEN q ELSE x
    <3>1. \A x \in {r, t} : at(x) \in Parties /\ i \in 2 .. Len(ledger[at(x)])
                           /\ ledger'[x][i] = ledger[at(x)][i]
      BY <1>1, <2>2, <2>3 DEF n
    <3> HIDE DEF at
    <3> QED
      BY <3>1 DEF Agree
  <2>5. InOrder'
    <3> SUFFICES ASSUME NEW r \in Parties, NEW i \in 2 .. Len(ledger'[r]), NEW j \in 2 .. Len(ledger'[r]), i < j
                 PROVE  ledger'[r][i].n < ledger'[r][j].n
      BY DEF InOrder
    <3>1. CASE r # p
      BY <1>1, <3>1 DEF InOrder
    <3>2. CASE r = p
      <4>1. /\ i \in 2 .. n + 1 /\ j \in 2 .. n + 1
            /\ i \in 2 .. Len(ledger[q]) /\ j \in 2 .. Len(ledger[q])
        BY <1>1, <2>2, <3>2 DEF n
      <4> QED
        BY <2>3, <3>2, <4>1 DEF InOrder
    <3> QED
      BY <3>1, <3>2
  <2>6. f[n] = place[p] /\ f[n + 1] = Transition(f[n], e.type) /\ Allowed(f[n], e.type)
    <3>1. n + 1 - 1 = n /\ n >= 1
      BY <1>1, <1>5 DEF n
    <3>2. place[p] = f[n]
      BY <3>1 DEF OnCourse, n
    <3>3. \A i \in 2 .. Len(ledger[q]) :
            Allowed(f[i - 1], ledger[q][i].type) /\ f[i] = Transition(f[i - 1], ledger[q][i].type)
      BY DEF OnCourse
    <3>4. ledger[q][n + 1] = e
      BY <2>1 DEF n
    <3>5. PICK i \in 2 .. Len(ledger[q]) : i = n + 1
      BY <2>2
    <3>6. i - 1 = n /\ Allowed(f[i - 1], ledger[q][i].type) /\ f[i] = Transition(f[i - 1], ledger[q][i].type)
      BY <1>1, <3>1, <3>3, <3>5
    <3> QED
      BY <3>2, <3>4, <3>5, <3>6
  <2>7. OnCourse(f)'
    <3>1. ASSUME NEW r \in Parties, NEW i \in 2 .. Len(ledger'[r])
          PROVE  Allowed(f[i - 1], ledger'[r][i].type) /\ f[i] = Transition(f[i - 1], ledger'[r][i].type)
      <4>1. CASE r # p
        BY <1>1, <3>1, <4>1 DEF OnCourse
      <4>2. CASE r = p
        <5>1. i \in 2 .. n + 1 /\ i \in 2 .. Len(ledger[q])
          BY <1>1, <2>2, <4>2 DEF n
        <5> QED
          BY <2>3, <4>2, <5>1 DEF OnCourse
      <4> QED
        BY <4>1, <4>2
    <3>2. \A r \in Parties : Len(ledger'[r]) >= 1 => place'[r] = f[Len(ledger'[r])]
      BY <1>1, <2>6 DEF OnCourse, n
    <3> QED
      BY <3>1, <3>2 DEF OnCourse
  <2> QED
    BY <2>4, <2>5, <2>7
<1>6. CASE n # 0 /\ (\A q \in Parties : Len(ledger[q]) <= n) /\ \A x \in InStore(p) : x.n < e.n
  <2>1. Agree'
    <3> SUFFICES ASSUME NEW r \in Parties, NEW t \in Parties,
                        NEW i \in 2 .. Len(ledger'[r]), i <= Len(ledger'[t])
                 PROVE  ledger'[r][i] = ledger'[t][i]
      BY DEF Agree
    <3>1. CASE r = t
      BY <3>1
    <3>2. CASE r # t
      <4>1. i <= n
        BY <1>1, <1>6, <3>2
      <4>2. \A x \in {r, t} : i \in 2 .. Len(ledger[x]) /\ ledger'[x][i] = ledger[x][i]
        BY <1>1, <4>1
      <4> QED
        BY <4>2 DEF Agree
    <3> QED
      BY <3>1, <3>2
  <2>2. InOrder'
    <3> SUFFICES ASSUME NEW r \in Parties, NEW i \in 2 .. Len(ledger'[r]), NEW j \in 2 .. Len(ledger'[r]), i < j
                 PROVE  ledger'[r][i].n < ledger'[r][j].n
      BY DEF InOrder
    <3>1. CASE r # p
      BY <1>1, <3>1 DEF InOrder
    <3>2. CASE r = p /\ j = n + 1
      <4>1. i \in 1 .. n /\ ledger'[r][j] = e /\ ledger'[r][i] = ledger[p][i]
        BY <1>1, <3>2
      <4>2. ledger[p][i] \in InStore(p)
        BY <4>1, InLedger
      <4> QED
        BY <1>6, <4>1, <4>2
    <3>3. CASE r = p /\ j # n + 1
      <4>1. i \in 2 .. n /\ j \in 2 .. n
        BY <1>1, <3>3
      <4>2. ledger'[r][i] = ledger[p][i] /\ ledger'[r][j] = ledger[p][j]
        BY <1>1, <3>3, <4>1
      <4> QED
        BY <4>1, <4>2 DEF InOrder
    <3> QED
      BY <3>1, <3>2, <3>3
  <2> PICK g : g = [f EXCEPT ![n + 1] = place'[p]]
    OBVIOUS
  <2>3. /\ g \in [Nat -> Position] /\ g[n + 1] = place'[p]
        /\ \A i \in 1 .. n : g[i] = f[i]
    BY <1>1, <1>3
  <2>4. OnCourse(g)'
    <3>1. \A r \in Parties : r # p => Len(ledger'[r]) <= n /\ Len(ledger'[r]) \in Nat
      BY <1>1, <1>6
    <3>2. \A r \in Parties : Len(ledger'[r]) >= 1 => place'[r] = g[Len(ledger'[r])]
      BY <1>1, <2>3, <3>1 DEF OnCourse
    <3>3. \A r \in Parties : \A i \in 2 .. Len(ledger[r]) :
            Allowed(g[i - 1], ledger[r][i].type) /\ g[i] = Transition(g[i - 1], ledger[r][i].type)
      <4> SUFFICES ASSUME NEW r \in Parties, NEW i \in 2 .. Len(ledger[r])
                   PROVE  Allowed(g[i - 1], ledger[r][i].type) /\ g[i] = Transition(g[i - 1], ledger[r][i].type)
        OBVIOUS
      <4>1. i \in 1 .. n /\ i - 1 \in 1 .. n
        BY <1>1, <1>6
      <4>2. g[i] = f[i] /\ g[i - 1] = f[i - 1]
        BY <2>3, <4>1
      <4> QED
        BY <4>2 DEF OnCourse
    <3>4. Allowed(g[n], e.type) /\ g[n + 1] = Transition(g[n], e.type)
      <4>1. n \in 1 .. n /\ place[p] = f[n]
        BY <1>1, <1>6 DEF OnCourse
      <4> QED
        BY <1>1, <2>3, <4>1
    <3>5. ASSUME NEW r \in Parties, NEW i \in 2 .. Len(ledger'[r])
          PROVE  Allowed(g[i - 1], ledger'[r][i].type) /\ g[i] = Transition(g[i - 1], ledger'[r][i].type)
      <4>1. CASE r = p /\ i = n + 1
        <5>1. ledger'[r][i] = e /\ i - 1 = n
          BY <1>1, <4>1
        <5> QED
          BY <3>4, <4>1, <5>1
      <4>2. CASE r # p \/ i # n + 1
        <5>1. i \in 2 .. Len(ledger[r]) /\ ledger'[r][i] = ledger[r][i]
          BY <1>1, <3>5, <4>2
        <5> QED
          BY <3>3, <5>1
      <4> QED
        BY <4>1, <4>2
    <3>6. g[1] = Agreed
      BY <1>1, <1>6, <2>3 DEF OnCourse
    <3> QED
      BY <3>2, <3>5, <3>6 DEF OnCourse
  <2> QED
    BY <2>1, <2>2, <2>3, <2>4
<1> QED
  BY <1>2, <1>4, <1>5, <1>6

LEMMA TurnInitial == ExchangeInit => TurnInv
<1> SUFFICES ASSUME ExchangeInit PROVE TurnInv
  OBVIOUS
<1>1. Posted /\ \A p \in Parties : ledger[p] = <<>> /\ place[p] = NoTrade
  BY DEF ExchangeInit, Posted
<1>2. Len(<<>>) = 0
  OBVIOUS
<1>3. (\A p \in Parties : Opens(p)) /\ Agree /\ InOrder
  BY <1>1, <1>2 DEF Opens, Agree, InOrder
<1>4. PICK f : f = [i \in Nat |-> Agreed]
  OBVIOUS
<1>5. Agreed \in Position
  BY DEF Agreed, Position, TradeStates, ChainStates, StageOf
<1>6. f \in [Nat -> Position] /\ OnCourse(f)
  BY <1>1, <1>2, <1>4, <1>5 DEF OnCourse
<1> QED
  BY <1>1, <1>3, <1>6 DEF TurnInv

\* In turn, a party that misses no event is not behind, and the next event of another is
\* the oldest it misses.
LEMMA NextInTurn ==
  ASSUME ExchangeInv, TurnInv, InTurn, NEW p \in Parties, place[p] # NoTrade,
         NEW q \in Parties, NEW j \in 1 .. Len(ledger[q]), NEW e, e = ledger[q][j],
         IsShared(e), e \notin InStore(p), \A x \in Missing(p) : ~(x.n < e.n)
  PROVE  Len(ledger[p]) < Len(ledger[q]) /\ ledger[q][Len(ledger[p]) + 1] = e
<1> DEFINE n == Len(ledger[p])
           m == Len(ledger[q])
<1>1. /\ n \in Nat /\ m \in Nat /\ n # 0
      /\ \A x : x \in InStore(p) <=> \E i \in 1 .. n : ledger[p][i] = x
      /\ \A x : x \in InStore(q) <=> \E i \in 1 .. m : ledger[q][i] = x
  BY InLedger DEF TurnInv, Opens
<1>2. Agree /\ InOrder /\ (\A i \in 1 .. m : IsShared(ledger[q][i]) <=> i # 1)
      /\ (\A i \in 1 .. n : IsShared(ledger[p][i]) <=> i # 1)
  BY DEF TurnInv, Opens
<1>3. ledger[q] \in Seq(TradeEvents)
  BY DEF ExchangeInv, ExchangeTypeOK
<1>4. \A i \in 2 .. m : ledger[q][i].n \in Nat
  <2>1. \A i \in 2 .. m : ledger[q][i] \in TradeEvents
    BY <1>3
  <2> QED
    BY <2>1 DEF TradeEvents
<1>5. \A i \in 2 .. m : i <= n => ledger[q][i] = ledger[p][i]
  BY <1>2 DEF Agree
<1> HIDE DEF n, m
<1>6. j \in 2 .. m /\ n < j
  <2>1. j \in 2 .. m
    BY <1>1, <1>2 DEF m
  <2>2. j <= n => ledger[p][j] = e /\ j \in 1 .. n
    BY <1>1, <1>5, <2>1
  <2> QED
    BY <1>1, <2>1, <2>2
<1>7. CASE j = n + 1
  BY <1>1, <1>6, <1>7 DEF n, m
<1>8. CASE j # n + 1
  <2> DEFINE x == ledger[q][n + 1]
  <2>1. n + 1 \in 2 .. m /\ n + 1 < j /\ n + 1 \in 1 .. m /\ n + 1 # 1
    BY <1>1, <1>6, <1>8
  <2>2. x.n < e.n
    BY <1>2, <1>6, <2>1 DEF InOrder, m
  <2>3. IsShared(x) /\ x \in InStore(q)
    BY <1>1, <1>2, <2>1
  <2>4. x \notin InStore(p)
    <3> SUFFICES ASSUME NEW i \in 1 .. n, ledger[p][i] = x PROVE FALSE
      BY <1>1
    <3>1. i \in 2 .. n /\ i \in 2 .. m
      BY <1>1, <1>2, <2>1, <2>3
    <3>2. ledger[q][i].n < ledger[q][n + 1].n
      BY <1>1, <1>2, <2>1, <3>1 DEF InOrder, m
    <3>3. ledger[q][i] = x
      BY <1>5, <3>1
    <3> QED
      BY <1>4, <2>1, <3>2, <3>3
  <2>5. x \in Missing(p)
    BY <2>3, <2>4 DEF Missing
  <2> QED
    BY <2>2, <2>5
<1> QED
  BY <1>7, <1>8

LEMMA TurnStep == ExchangeInv /\ TurnInv /\ [ExchangeNext]_exchangeVars => TurnInv'
<1> SUFFICES ASSUME ExchangeInv, TurnInv, [ExchangeNext]_exchangeVars
             PROVE  TurnInv'
  OBVIOUS
<1>1. Posted /\ \A p \in Parties : Opens(p)
  BY DEF TurnInv
<1>2. ASSUME UNCHANGED <<place, ledger>>, InTurn' => InTurn, Posted' PROVE TurnInv'
  <2>1. \A p \in Parties : Opens(p)'
    BY <1>1, <1>2 DEF Opens
  <2>2. ASSUME InTurn' PROVE Agree' /\ InOrder' /\ \E f \in [Nat -> Position] : OnCourse(f)'
    <3>1. Agree' /\ InOrder'
      BY <1>2, <2>2 DEF TurnInv, Agree, InOrder
    <3>2. PICK f \in [Nat -> Position] : OnCourse(f)
      BY <1>2, <2>2 DEF TurnInv
    <3>3. OnCourse(f)'
      BY <1>2, <3>2 DEF OnCourse
    <3> QED
      BY <3>1, <3>3
  <2> QED
    BY <1>2, <2>1, <2>2 DEF TurnInv
<1>5. ASSUME NEW p \in Parties, NEW q \in Parties, NEW e \in TradeEvents, SendEvent(p, q, e)
      PROVE  TurnInv'
  <2>1. /\ e \in InStore(p)
        /\ post' = [post EXCEPT ![q] = post[q] \cup {e}]
        /\ UNCHANGED <<place, ledger, crossed, skipped>>
    BY <1>5 DEF SendEvent, stores, exchangeHistory
  <2>2. \A r \in Parties : post'[r] \subseteq post[r] \cup {e}
    BY <2>1 DEF ExchangeInv, ExchangeTypeOK
  <2> QED
    BY <1>1, <1>2, <2>1, <2>2 DEF InTurn, Posted, InStore
<1>6. ASSUME NEW p \in Parties, NEW e \in TradeEvents, e \notin InStore(p),
             Allowed(place[p], e.type), Effect(p, e), UNCHANGED post,
             InTurn' => InTurn,
             InTurn' /\ IsShared(e) =>
               \/ /\ \A q \in Parties : Len(ledger[q]) <= Len(ledger[p])
                  /\ \A x \in InStore(p) : x.n < e.n
               \/ \E q \in Parties : Len(ledger[p]) < Len(ledger[q]) /\ ledger[q][Len(ledger[p]) + 1] = e
      PROVE  TurnInv'
  <2>1. \A q \in Parties : Opens(q)'
    BY <1>1, <1>6, OpensStep
  <2>2. Posted'
    <3>1. \A q \in Parties : InStore(q)' = IF q = p THEN InStore(p) \cup {e} ELSE InStore(q)
      BY <1>6, EffectStep
    <3> QED
      BY <1>1, <1>6, <3>1 DEF Posted
  <2>3. ASSUME InTurn' PROVE Agree' /\ InOrder' /\ \E f \in [Nat -> Position] : OnCourse(f)'
    <3>1. Agree /\ InOrder
      BY <1>6, <2>3 DEF TurnInv
    <3>2. PICK f \in [Nat -> Position] : OnCourse(f)
      BY <1>6, <2>3 DEF TurnInv
    <3> QED
      BY <1>1, <1>6, <2>3, <3>1, <3>2, CourseStep
  <2> QED
    BY <2>1, <2>2, <2>3 DEF TurnInv
<1>7. ASSUME NEW p \in Parties, NEW ty \in EventKinds, RecordEvent(p, ty)
      PROVE  TurnInv'
  <2> DEFINE e == [actor |-> p, type |-> ty, n |-> recorded + 1]
  <2>1. /\ recorded < MaxEvents /\ Allowed(place[p], ty) /\ Effect(p, e)
        /\ crossed' = (crossed \/ (IsShared(e) /\ Missing(p) # {}))
        /\ UNCHANGED <<post, skipped>>
    BY <1>7 DEF RecordEvent
  <2>2. recorded \in 0 .. MaxEvents /\ MaxEvents \in Nat /\ crossed \in BOOLEAN
    BY ExchangeAssumption DEF ExchangeInv, ExchangeTypeOK
  <2>3. e \in TradeEvents /\ e.n = recorded + 1 /\ e.type = ty
    BY <2>1, <2>2 DEF TradeEvents
  <2> HIDE DEF e
  <2>4. \A x \in InStore(p) : x.n < e.n
    <3>1. \A x \in InStore(p) : x.n \in Nat
      <4>1. InStore(p) \subseteq TradeEvents
        BY DEF ExchangeInv, ExchangeTypeOK, InStore, Elements
      <4> QED
        BY <4>1 DEF TradeEvents
    <3> QED
      BY <2>2, <2>3, <3>1 DEF ExchangeInv, KnownEvents
  <2>5. e \notin InStore(p)
    BY <2>2, <2>3, <2>4
  <2>6. InTurn' => InTurn
    BY <2>1, <2>2 DEF InTurn
  <2>7. ASSUME InTurn', IsShared(e), NEW q \in Parties
        PROVE  Len(ledger[q]) <= Len(ledger[p])
    <3>1. Missing(p) = {} /\ InTurn
      BY <2>1, <2>2, <2>6, <2>7 DEF InTurn
    <3>2. place[p] # NoTrade
      <4>1. Sound(place[p]) /\ ty \in EventTypes /\ ty # "DEAL_SIGNED"
        BY <2>3, <2>7, ExchangeAssumption DEF ExchangeInv, PlacesFollow, IsShared
      <4> QED
        BY <2>1, <4>1, OpeningEvent
    <3> DEFINE n == Len(ledger[p])
    <3>3. n \in Nat /\ Len(ledger[q]) \in Nat /\ n # 0
      BY <1>1, <3>2, InLedger DEF Opens
    <3> SUFFICES ASSUME n < Len(ledger[q]) PROVE FALSE
      BY <3>3
    <3>4. n + 1 \in 1 .. Len(ledger[q]) /\ n + 1 # 1
      BY <3>3
    <3> DEFINE x == ledger[q][n + 1]
    <3>5. IsShared(x) /\ x \in InStore(q)
      BY <1>1, <3>4, InLedger DEF Opens
    <3>6. x \in InStore(p)
      BY <3>1, <3>5 DEF Missing
    <3>7. PICK i \in 1 .. n : ledger[p][i] = x
      BY <3>6, InLedger
    <3>8. i # 1 /\ i \in 2 .. n /\ n + 1 \in 2 .. Len(ledger[q]) /\ i \in 2 .. Len(ledger[q]) /\ i < n + 1
      BY <1>1, <3>3, <3>4, <3>5, <3>7 DEF Opens
    <3>9. ledger[q][i] = x
      BY <3>1, <3>7, <3>8 DEF TurnInv, Agree
    <3>10. ledger[q][i].n < ledger[q][n + 1].n
      BY <3>1, <3>8 DEF TurnInv, InOrder
    <3>11. x \in TradeEvents
      BY <3>5 DEF ExchangeInv, ExchangeTypeOK, InStore, Elements
    <3> HIDE DEF n
    <3> QED
      BY <3>9, <3>10, <3>11 DEF TradeEvents
  <2> QED
    BY <1>6, <2>1, <2>3, <2>4, <2>5, <2>6, <2>7
<1>8. ASSUME NEW p \in Parties, NEW e \in TradeEvents, TakeEvent(p, e)
      PROVE  TurnInv'
  <2>1. /\ e \in post[p] /\ e \notin InStore(p) /\ Allowed(place[p], e.type) /\ Effect(p, e)
        /\ skipped' = (skipped \/ (IsShared(e) /\ \E f \in Missing(p) : f.n < e.n))
        /\ UNCHANGED <<post, crossed>>
    BY <1>8 DEF TakeEvent, Held
  <2>2. InTurn' => InTurn
    BY <2>1 DEF InTurn, ExchangeInv, ExchangeTypeOK
  <2>3. ASSUME InTurn', IsShared(e)
        PROVE  \E q \in Parties : Len(ledger[p]) < Len(ledger[q]) /\ ledger[q][Len(ledger[p]) + 1] = e
    <3>1. InTurn /\ \A x \in Missing(p) : ~(x.n < e.n)
      BY <2>1, <2>2, <2>3 DEF InTurn
    <3>2. place[p] # NoTrade
      <4>1. Sound(place[p]) /\ e.type \in EventTypes /\ e.type # "DEAL_SIGNED"
        BY <2>3, ExchangeAssumption DEF ExchangeInv, PlacesFollow, IsShared, TradeEvents
      <4> QED
        BY <2>1, <4>1, OpeningEvent
    <3>3. PICK q \in Parties : e \in InStore(q)
      BY <1>1, <2>1 DEF Posted
    <3>4. PICK j \in 1 .. Len(ledger[q]) : ledger[q][j] = e
      BY <3>3, InLedger
    <3> QED
      BY <2>1, <2>3, <3>1, <3>2, <3>4, NextInTurn
  <2> QED
    BY <1>6, <2>1, <2>2, <2>3
<1>9. CASE UNCHANGED exchangeVars
  <2>1. UNCHANGED <<place, ledger, post, crossed, skipped>>
    BY <1>9 DEF exchangeVars, stores, exchangeHistory
  <2> QED
    BY <1>1, <1>2, <2>1 DEF InTurn, Posted, InStore
<1> QED
  BY <1>5, <1>7, <1>8, <1>9 DEF ExchangeNext

LEMMA TurnGood == ExchangeInv /\ TurnInv => TurnsConverge
<1> SUFFICES ASSUME ExchangeInv, TurnInv, InTurn, NEW p \in Parties, NEW q \in Parties,
                    Len(ledger[p]) \in 1 .. Len(ledger[q])
             PROVE  /\ \A i \in 2 .. Len(ledger[p]) : ledger[p][i] = ledger[q][i]
                    /\ Len(ledger[p]) < Len(ledger[q]) =>
                         Allowed(place[p], ledger[q][Len(ledger[p]) + 1].type)
  BY DEF InTurn, TurnsConverge
<1> DEFINE n == Len(ledger[p])
<1>1. n \in Nat /\ Len(ledger[q]) \in Nat /\ n >= 1 /\ n <= Len(ledger[q])
  BY InLedger
<1>2. \A i \in 2 .. n : ledger[p][i] = ledger[q][i]
  BY <1>1 DEF TurnInv, Agree
<1>3. ASSUME n < Len(ledger[q]) PROVE Allowed(place[p], ledger[q][n + 1].type)
  <2>1. PICK f \in [Nat -> Position] : OnCourse(f)
    BY DEF TurnInv
  <2>2. place[p] = f[n] /\ \A i \in 2 .. Len(ledger[q]) : Allowed(f[i - 1], ledger[q][i].type)
    BY <1>1, <2>1 DEF OnCourse
  <2> HIDE DEF n
  <2>3. PICK i \in 2 .. Len(ledger[q]) : i = n + 1
    BY <1>1, <1>3
  <2>4. i - 1 = n /\ Allowed(f[i - 1], ledger[q][i].type)
    BY <1>1, <2>2, <2>3
  <2> QED
    BY <2>2, <2>3, <2>4
<1> QED
  BY <1>2, <1>3

-------------------------------------------------------------------------------
(* Theorems *)

\* SameEventsAgree: parties that know the same events stand at one position, in
\* whatever order they took them, unless two disputes were raised
\* (store.ts:351-385, state.ts:38-129).
THEOREM SameEventsAgreeAlways == ExchangeSpec => []SameEventsAgree
<1>1. ExchangeInv => SameEventsAgree
  <2> SUFFICES ASSUME ExchangeInv, NEW p \in Parties, NEW q \in Parties,
                      place[p] # NoTrade, place[q] # NoTrade,
                      SharedEvents(p) = SharedEvents(q),
                      Cardinality({e \in SharedEvents(p) : e.type = "DISPUTED"}) <= 1
               PROVE  place[p] = place[q]
    BY DEF SameEventsAgree
  <2>1. /\ Sound(place[p]) /\ Follows(place[p], SharedEvents(p)) /\ IsFiniteSet(SharedEvents(p))
        /\ Sound(place[q]) /\ Follows(place[q], SharedEvents(p))
    BY DEF ExchangeInv, PlacesFollow
  <2>2. OneDispute(SharedEvents(p))
    BY <2>1, CountedOnce
  <2> QED
    BY <2>1, <2>2, FollowsUnique
<1> QED
  BY <1>1, ExchangeInvAlways, PTL

\* TurnsConverge: while parties record only once they know all events of the others and
\* take events in their order, every ledger continues the shorter ones after the
\* DEAL_SIGNED each opens with, and the party behind can take the next event: no
\* trade gets stuck between two stores (event.ts:44-76, demo.mjs:840-1020).
THEOREM TurnsConvergeAlways == ExchangeSpec => []TurnsConverge
<1>1. ExchangeSpec => [](ExchangeInv /\ TurnInv)
  BY ExchangeInitial, ExchangeStep, TurnInitial, TurnStep, PTL DEF ExchangeSpec
<1> QED
  BY <1>1, TurnGood, PTL
===============================================================================
