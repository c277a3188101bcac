------------------------------ MODULE StationProofs ------------------------------
(***************************************************************************)
(* Proofs about a station, for any agents, keys, catalogs, members and     *)
(* targets, and any number of activities: the type invariant of each role, *)
(* what a publisher and an integrator announce, what an indexer has        *)
(* accepted, trusts and finds, and, as long as activities do not run       *)
(* beside one another, what is seeded.                                     *)
(***************************************************************************)
EXTENDS Station, FiniteSetTheorems, TLAPS

-------------------------------------------------------------------------------
(* The publisher *)

Served == (facts \cap archives) \ Broken

\* What an activity carries across an await: a version it has read, or one that
\* is served already.
GoodOp(r, s) ==
  /\ r.step \in {"stop", "seed"} => r.version \in Versions \ Broken
  /\ r.step = "post" => r.version \in s /\ r.target \in Targets

OpsGood == \A o \in Ops : GoodOp(op[o], Served)

PublisherInv == PublisherTypeOK /\ OpsGood /\ AnnouncedIsServed

LEMMA PublisherIdleGood ==
  /\ PublisherIdle \in PublisherOp
  /\ \A st \in {"read", "check", "announce"}, k \in {"start", "tick", "request"} :
       [PublisherIdle EXCEPT !.step = st, !.kind = k] \in PublisherOp
<1>1. PublisherIdle \in PublisherOp
  BY PublisherAssumption DEF PublisherIdle, PublisherOp
<1> QED
  BY <1>1 DEF PublisherOp

\* One activity goes on.
LEMMA OpMoves ==
  ASSUME PublisherInv, NEW o \in Ops, NEW r \in PublisherOp, op' = [op EXCEPT ![o] = r],
         GoodOp(r, Served'), Served \subseteq Served'
  PROVE  op' \in [Ops -> PublisherOp] /\ OpsGood'
<1>1. op \in [Ops -> PublisherOp]
  BY DEF PublisherInv, PublisherTypeOK
<1>2. op' \in [Ops -> PublisherOp]
  BY <1>1
<1>3. \A p \in Ops : GoodOp(op'[p], Served')
  BY <1>1 DEF PublisherInv, OpsGood, GoodOp
<1> QED
  BY <1>2, <1>3 DEF OpsGood

\* ... and nothing else changes that the invariant is about.
LEMMA OnlyOpMoves ==
  ASSUME PublisherInv, NEW o \in Ops, NEW r \in PublisherOp, op' = [op EXCEPT ![o] = r],
         GoodOp(r, Served), role' = role, changes' = changes, phase' \in Phases,
         overlap' \in BOOLEAN, faults' = faults,
         UNCHANGED <<dir, current, live, ending, archives, facts, heard, lost>>
  PROVE  PublisherInv'
<1>1. Served' = Served
  BY DEF Served
<1>2. op' \in [Ops -> PublisherOp] /\ OpsGood'
  BY <1>1, OpMoves
<1>3. PublisherTypeOK'
  BY <1>2 DEF PublisherInv, PublisherTypeOK, ContextTypeOK
<1>4. AnnouncedIsServed'
  BY DEF PublisherInv, AnnouncedIsServed
<1> QED
  BY <1>2, <1>3, <1>4 DEF PublisherInv

LEMMA PublisherStep == PublisherInv /\ PublisherNext => PublisherInv'
<1> SUFFICES ASSUME PublisherInv, PublisherNext PROVE PublisherInv'
  OBVIOUS
<1>0. /\ role' = role /\ changes' = changes
      /\ Fault => faults' \in 0 .. MaxFaults
      /\ phase \in Phases /\ overlap \in BOOLEAN
      /\ \A o \in Ops : op[o] \in PublisherOp
  BY StationAssumption DEF PublisherNext, Fault, PublisherInv, PublisherTypeOK, ContextTypeOK
<1>1. ASSUME PublisherGone, dir' = dir, facts' = facts, faults' \in 0 .. MaxFaults PROVE PublisherInv'
  <2>1. PublisherTypeOK'
    BY <1>0, <1>1, PublisherIdleGood
       DEF PublisherGone, NoOps, Phases, PublisherInv, PublisherTypeOK, ContextTypeOK
  <2>2. OpsGood'
    BY <1>1 DEF PublisherGone, NoOps, OpsGood, GoodOp, PublisherIdle
  <2> QED
    BY <1>1, <2>1, <2>2 DEF PublisherInv, AnnouncedIsServed, PublisherGone
<1>2. ASSUME NEW v \in Versions, Edit(v) PROVE PublisherInv'
  <2>1. PublisherTypeOK'
    BY <1>0, <1>2 DEF Edit, memory, PublisherInv, PublisherTypeOK, ContextTypeOK
  <2> QED
    BY <1>2, <2>1 DEF Edit, memory, PublisherInv, OpsGood, Served, AnnouncedIsServed
<1>3. ASSUME NEW o \in Ops, PublisherStart(o) \/ PublisherTick(o) \/ PublisherRequest(o)
      PROVE  PublisherInv'
  <2>1. PICK st \in {"read", "check", "announce"}, k \in {"start", "tick", "request"} :
          op' = [op EXCEPT ![o] = [PublisherIdle EXCEPT !.step = st, !.kind = k]]
    BY <1>3 DEF PublisherStart, PublisherTick, PublisherRequest
  <2>2. [PublisherIdle EXCEPT !.step = st, !.kind = k] \in PublisherOp
    BY PublisherIdleGood
  <2>3. GoodOp([PublisherIdle EXCEPT !.step = st, !.kind = k], Served)
    BY DEF GoodOp, PublisherIdle
  <2>4. /\ phase' \in Phases /\ overlap' \in BOOLEAN /\ faults' = faults
        /\ UNCHANGED <<dir, current, live, ending, archives, facts, heard, lost>>
    BY <1>0, <1>3 DEF PublisherStart, PublisherTick, PublisherRequest, Phases
  <2> QED
    BY <1>0, <2>1, <2>2, <2>3, <2>4, OnlyOpMoves
<1>4. ASSUME NEW o \in Ops, Finish(o), overlap' \in BOOLEAN, faults' = faults,
             UNCHANGED <<dir, current, live, ending, archives, facts, heard, lost>>
      PROVE  PublisherInv'
  <2>1. GoodOp(PublisherIdle, Served)
    BY DEF GoodOp, PublisherIdle
  <2>2. phase' \in Phases
    BY <1>0, <1>4 DEF Finish, Phases
  <2> QED
    BY <1>0, <1>4, <2>1, <2>2, PublisherIdleGood, OnlyOpMoves DEF Finish
<1>5. ASSUME NEW o \in Ops, Fail(o), dir' = dir, facts' = facts, faults' \in 0 .. MaxFaults
      PROVE  PublisherInv'
  <2>1. CASE op[o].kind = "start"
    BY <1>1, <1>5, <2>1 DEF Fail
  <2>2. CASE op[o].kind # "start"
    <3>1. GoodOp(PublisherIdle, Served') /\ Served' = Served
      BY <1>5, <2>2 DEF GoodOp, PublisherIdle, Fail, Served
    <3>2. op' \in [Ops -> PublisherOp] /\ OpsGood'
      BY <1>5, <2>2, <3>1, PublisherIdleGood, OpMoves DEF Fail
    <3> QED
      BY <1>0, <1>5, <2>2, <3>2
         DEF Fail, PublisherInv, PublisherTypeOK, ContextTypeOK, AnnouncedIsServed
  <2> QED
    BY <2>1, <2>2
<1>6. ASSUME NEW o \in Ops, SeedFails(o) PROVE PublisherInv'
  BY <1>0, <1>5, <1>6 DEF SeedFails
<1>u. ASSUME NEW o \in Ops, Unstored(o) PROVE PublisherInv'
  <2>1. op[o].version \in Versions
    BY <1>u DEF Unstored, PublisherInv, OpsGood, GoodOp
  <2>2. /\ facts' = facts \/ facts' = facts \cup {op[o].version}
        /\ op' = [op EXCEPT ![o] = PublisherIdle] /\ faults' \in 0 .. MaxFaults
        /\ phase' \in Phases /\ lost' = TRUE
        /\ UNCHANGED <<dir, current, live, ending, archives, heard, overlap>>
    BY <1>0, <1>u DEF Unstored, Phases
  <2>3. Served \subseteq Served' /\ GoodOp(PublisherIdle, Served')
    BY <2>2 DEF Served, GoodOp, PublisherIdle
  <2>4. op' \in [Ops -> PublisherOp] /\ OpsGood'
    BY <2>2, <2>3, PublisherIdleGood, OpMoves
  <2>5. PublisherTypeOK'
    BY <1>0, <2>1, <2>2, <2>4 DEF PublisherInv, PublisherTypeOK, ContextTypeOK
  <2>6. AnnouncedIsServed'
    BY <2>2 DEF PublisherInv, AnnouncedIsServed
  <2> QED
    BY <2>4, <2>5, <2>6 DEF PublisherInv
<1>7. ASSUME NEW o \in Ops, Check(o) PROVE PublisherInv'
  <2>1. CASE Unchanged
    BY <1>0, <1>4, <1>7, <2>1 DEF Check
  <2>2. CASE ~Unchanged
    <3> DEFINE r == [op[o] EXCEPT !.step = "read"]
    <3>1. r \in PublisherOp /\ GoodOp(r, Served)
      BY <1>0 DEF PublisherOp, GoodOp
    <3>2. op' = [op EXCEPT ![o] = r]
      BY <1>7, <2>2 DEF Check
    <3>3. phase' \in Phases /\ overlap' \in BOOLEAN
      BY <1>0, <1>7, <2>2 DEF Check, Overlaps
    <3> QED
      BY <1>0, <1>7, <3>1, <3>2, <3>3, OnlyOpMoves DEF Check
  <2> QED
    BY <2>1, <2>2
<1>8. ASSUME NEW o \in Ops, ReadCatalog(o) PROVE PublisherInv'
  <2>1. CASE dir \in Broken
    BY <1>0, <1>5, <1>8, <2>1 DEF ReadCatalog, PublisherInv, PublisherTypeOK, ContextTypeOK
  <2>2. CASE dir \notin Broken
    <3> DEFINE st == IF current = None THEN "seed" ELSE "stop"
               s == IF current = None THEN None ELSE current.seeder
               r == [op[o] EXCEPT !.version = dir, !.step = st, !.seeder = s]
    <3>1. dir \in Versions /\ s \in Seeders \cup {None} /\ st \in {"seed", "stop"}
      BY DEF PublisherInv, PublisherTypeOK
    <3>2. op' = [op EXCEPT ![o] = r]
      BY <1>8, <2>2 DEF ReadCatalog
    <3>3. /\ phase' = phase /\ overlap' = overlap /\ faults' = faults
          /\ UNCHANGED <<dir, current, live, ending, archives, facts, heard, lost>>
      BY <1>8, <2>2 DEF ReadCatalog
    <3> HIDE DEF st, s
    <3>4. r \in PublisherOp
      BY <1>0, <3>1 DEF PublisherOp
    <3>5. GoodOp(r, Served)
      BY <1>0, <2>2, <3>1 DEF PublisherOp, GoodOp
    <3> QED
      BY <1>0, <3>2, <3>3, <3>4, <3>5, OnlyOpMoves
  <2> QED
    BY <2>1, <2>2
<1>9. ASSUME NEW o \in Ops, StopOld(o) PROVE PublisherInv'
  <2> DEFINE r == [op[o] EXCEPT !.step = "seed", !.seeder = None]
  <2>1. op[o].version \in Versions \ Broken
    BY <1>9 DEF StopOld, PublisherInv, OpsGood, GoodOp
  <2>2. r \in PublisherOp /\ GoodOp(r, Served)
    BY <1>0, <2>1 DEF PublisherOp, GoodOp
  <2>3. op' = [op EXCEPT ![o] = r] /\ Served' = Served
    BY <1>0, <1>9 DEF StopOld, Served, PublisherOp
  <2>4. op' \in [Ops -> PublisherOp] /\ OpsGood'
    BY <2>2, <2>3, OpMoves
  <2>5. PublisherTypeOK'
    BY <1>0, <1>9, <2>4 DEF StopOld, Keep, Stopped, PublisherInv, PublisherTypeOK, ContextTypeOK
  <2>6. AnnouncedIsServed'
    BY <1>9 DEF StopOld, PublisherInv, AnnouncedIsServed
  <2> QED
    BY <2>4, <2>5, <2>6 DEF PublisherInv
<1>10. ASSUME NEW o \in Ops, Seeded(o) PROVE PublisherInv'
  <2> DEFINE v == op[o].version
             r == [op[o] EXCEPT !.step = "announce", !.version = None]
  <2>1. v \in Versions \ Broken
    BY <1>10 DEF Seeded, PublisherInv, OpsGood, GoodOp
  <2>2. PICK s \in Seeders : /\ current' = [version |-> v, seeder |-> s]
                             /\ Keep(live \cup {s}) /\ ending' = ending
                             /\ facts' = facts \cup {v} /\ archives' = archives \cup {v}
                             /\ op' = [op EXCEPT ![o] = r]
    BY <1>10 DEF Seeded, Mirror
  <2>3. UNCHANGED <<dir, phase, heard, overlap, faults>>
    BY <1>10 DEF Seeded
  <2>4. r \in PublisherOp /\ GoodOp(r, Served')
    BY <1>0 DEF PublisherOp, GoodOp
  <2>5. Served \subseteq Served' /\ v \in Served'
    BY <2>1, <2>2 DEF Served
  <2>6. op' \in [Ops -> PublisherOp] /\ OpsGood'
    BY <2>2, <2>4, <2>5, OpMoves
  <2>7. PublisherTypeOK'
    <3>1. live' \subseteq Seeders /\ lost' \in BOOLEAN
      BY <2>2 DEF Keep, PublisherInv, PublisherTypeOK
    <3> QED
      BY <1>0, <2>1, <2>2, <2>3, <2>6, <3>1 DEF PublisherInv, PublisherTypeOK, ContextTypeOK
  <2>8. AnnouncedIsServed'
    BY <2>2, <2>3, <2>5 DEF PublisherInv, AnnouncedIsServed, Served
  <2> QED
    BY <2>6, <2>7, <2>8 DEF PublisherInv
<1>11. ASSUME NEW o \in Ops, PublisherAnnounce(o) PROVE PublisherInv'
  <2>1. CASE current = None \/ Targets = {}
    BY <1>0, <1>4, <1>11, <2>1 DEF PublisherAnnounce
  <2>2. CASE ~(current = None \/ Targets = {})
    <3> DEFINE r == [op[o] EXCEPT !.step = "post", !.version = current.version]
    <3>1. current.version \in Served /\ current.version \in Versions
      BY <2>2 DEF PublisherInv, PublisherTypeOK, AnnouncedIsServed, Served
    <3>2. 1 \in Targets
      BY <2>2, PublisherAssumption, FS_CardinalityType
    <3>3. op[o].target \in Targets
      BY <1>0, <3>2 DEF PublisherOp
    <3>4. r \in PublisherOp /\ GoodOp(r, Served)
      BY <1>0, <3>1, <3>3 DEF PublisherOp, GoodOp
    <3>5. op' = [op EXCEPT ![o] = r]
      BY <1>11, <2>2 DEF PublisherAnnounce
    <3> QED
      BY <1>0, <1>11, <2>2, <3>4, <3>5, OnlyOpMoves DEF PublisherAnnounce
  <2> QED
    BY <2>1, <2>2
<1>12. ASSUME NEW o \in Ops, Post(o) PROVE PublisherInv'
  <2>1. op[o].version \in Served /\ op[o].target \in Targets /\ op[o].version \in Versions
    BY <1>0, <1>12 DEF Post, PublisherInv, OpsGood, GoodOp, Served, PublisherTypeOK
  <2>2. PICK r \in PublisherOp : GoodOp(r, Served) /\ op' = [op EXCEPT ![o] = r]
    <3>1. CASE NextTarget(o) /\ op[o].target + 1 \in Targets
      <4> DEFINE t == op[o].target + 1
                 r == [op[o] EXCEPT !.target = t, !.attempt = 1]
      <4>1. t \in Targets /\ 1 \in 1 .. Retries + 1
        BY <3>1, PublisherAssumption
      <4>2. op' = [op EXCEPT ![o] = r]
        BY <1>0, <3>1 DEF NextTarget, PublisherOp
      <4> HIDE DEF t
      <4>3. r \in PublisherOp
        BY <1>0, <4>1 DEF PublisherOp
      <4>4. r.step = "post" /\ r.version = op[o].version /\ r.target = t
        BY <1>0, <1>12 DEF Post, PublisherOp
      <4>5. GoodOp(r, Served)
        BY <2>1, <4>1, <4>4, Zenon DEF GoodOp
      <4> QED
        BY <4>2, <4>3, <4>5
    <3>2. CASE NextTarget(o) /\ op[o].target + 1 \notin Targets
      BY <3>2, PublisherIdleGood DEF NextTarget, Finish, GoodOp, PublisherIdle
    <3>3. CASE MayRetry(o) /\ op' = [op EXCEPT ![o].attempt = @ + 1]
      <4> DEFINE n == op[o].attempt + 1
                 r == [op[o] EXCEPT !.attempt = n]
      <4>1. n \in 1 .. Retries + 1
        BY <1>0, <3>3, PublisherAssumption DEF MayRetry, PublisherOp
      <4>2. op' = [op EXCEPT ![o] = r]
        BY <3>3
      <4> HIDE DEF n
      <4>3. r \in PublisherOp
        BY <1>0, <4>1 DEF PublisherOp
      <4>4. r.step = "post" /\ r.version = op[o].version /\ r.target = op[o].target
        BY <1>0, <1>12 DEF Post, PublisherOp
      <4>5. GoodOp(r, Served)
        BY <2>1, <4>4, Zenon DEF GoodOp
      <4> QED
        BY <4>2, <4>3, <4>5
    <3> QED
      BY <1>12, <3>1, <3>2, <3>3 DEF Post
  <2>3. phase' \in Phases
    BY <1>0, <1>12 DEF Post, NextTarget, Finish, Phases
  <2>4. UNCHANGED <<dir, current, live, ending, archives, facts, lost, overlap, faults>>
    BY <1>12 DEF Post
  <2>5. Served' = Served
    BY <2>4 DEF Served
  <2>6. op' \in [Ops -> PublisherOp] /\ OpsGood'
    BY <2>2, <2>5, OpMoves
  <2>7. heard' \subseteq heard \cup {<<op[o].version, op[o].target>>}
    BY <1>12 DEF Post, Reaches
  <2>8. PublisherTypeOK'
    BY <1>0, <2>1, <2>3, <2>4, <2>6, <2>7 DEF PublisherInv, PublisherTypeOK, ContextTypeOK
  <2>9. AnnouncedIsServed'
    BY <2>1, <2>4, <2>7 DEF PublisherInv, AnnouncedIsServed, Served
  <2> QED
    BY <2>6, <2>8, <2>9 DEF PublisherInv
<1>13. CASE PublisherStop
  <2>1. PublisherTypeOK'
    BY <1>0, <1>13 DEF PublisherStop, Phases, StopOverlaps, PublisherInv, PublisherTypeOK, ContextTypeOK
  <2> QED
    BY <1>13, <2>1 DEF PublisherStop, PublisherInv, OpsGood, Served, AnnouncedIsServed
<1>14. CASE PublisherStopSeeder
  <2>1. PublisherTypeOK'
    BY <1>0, <1>14
       DEF PublisherStopSeeder, Phases, Keep, Stopped, PublisherInv, PublisherTypeOK, ContextTypeOK
  <2> QED
    BY <1>14, <2>1 DEF PublisherStopSeeder, PublisherInv, OpsGood, Served, AnnouncedIsServed
<1>15. CASE PublisherCloses
  <2>1. PublisherTypeOK'
    BY <1>0, <1>15
       DEF PublisherCloses, ServerCloses, memory, Phases, PublisherInv, PublisherTypeOK, ContextTypeOK
  <2> QED
    BY <1>15, <2>1 DEF PublisherCloses, memory, PublisherInv, OpsGood, Served, AnnouncedIsServed
<1>16. CASE PublisherExit \/ PublisherDies
  BY <1>0, <1>1, <1>16
     DEF PublisherExit, PublisherDies, PublisherInv, PublisherTypeOK, ContextTypeOK
<1> QED
  BY <1>2, <1>3, <1>6, <1>u, <1>7, <1>8, <1>9, <1>10, <1>11, <1>12, <1>13, <1>14, <1>15, <1>16
     DEF PublisherNext, Step

-------------------------------------------------------------------------------
(* The publisher's seeder *)

\* What an activity between two awaits expects of the state, when it is alone.
Handled(r, st) ==
  /\ r.step # "stop" => r.seeder = None
  /\ r.step = "stop" => st # None /\ r.seeder = st.seeder
  /\ r.step = "seed" => st = None

Ends == {"down", "stopping", "closing", "stopped"}
SeederOf(st) == IF st = None THEN {} ELSE {st.seeder}

\* The seeder of the state runs and, unless a LISTING_REF could not be stored, no other;
\* one activity at most is at work, none at the end; and only a start is under way
\* while the role starts.
Solo ==
  /\ (lost => faults > 0) /\ live = SeederOf(current)
  /\ \A o \in Ops : Handled(op[o], current)
  /\ \A o \in Ops : op[o].kind = "start" => phase = "starting"
  /\ \A o, p \in Ops : op[o].kind = "start" /\ op[p].kind = "start" => o = p
  /\ \A o, p \in Ops : Publishing(o) /\ Publishing(p) => o = p
  /\ phase = "down" => \A o \in Ops : op[o].step = "idle"
  /\ phase \in Ends => \A o \in Ops : ~Publishing(o)
  /\ phase = "stopping" => current # None /\ ending = current.seeder
  /\ phase # "stopping" => ending = None
  /\ phase \in Ends \ {"stopping"} => current = None

SoloInv == ~overlap => Solo

LEMMA SoloGone == PublisherGone => Solo'
<1> SUFFICES ASSUME PublisherGone PROVE Solo'
  OBVIOUS
<1>1. \A o \in Ops : op'[o] = PublisherIdle
  BY DEF PublisherGone, NoOps
<1>2. PublisherIdle.step = "idle" /\ PublisherIdle.kind = "none" /\ PublisherIdle.seeder = None
  BY DEF PublisherIdle
<1> QED
  BY <1>1, <1>2 DEF PublisherGone, Solo, SeederOf, Handled, Publishing, Work

\* One activity goes on, and the state stays.
LEMMA SoloMoves ==
  ASSUME PublisherTypeOK, Solo, phase' # "down", NEW o \in Ops, NEW r \in PublisherOp, op' = [op EXCEPT ![o] = r],
         UNCHANGED <<current, live, lost, ending>>, Handled(r, current),
         faults' = faults \/ faults' = faults + 1,
         r.step \in Work => phase' \notin Ends /\ \A p \in Ops \ {o} : ~Publishing(p),
         r.kind = "start" => op[o].kind = "start" \/ phase = "down",
         \/ phase' = phase /\ (r.kind = "start" => op[o].kind = "start")
         \/ phase' = "up" /\ op[o].kind = "start" /\ r.kind # "start"
         \/ phase = "down" /\ phase' = "starting"
  PROVE  Solo'
<1>1. \A p \in Ops : op'[p] = IF p = o THEN r ELSE op[p]
  BY DEF PublisherTypeOK
<1>2. live' = SeederOf(current') /\ (\A p \in Ops : Handled(op'[p], current'))
  BY <1>1 DEF Solo, Handled, SeederOf
<1>0. lost' => faults' > 0
  BY StationAssumption DEF Solo, PublisherTypeOK, ContextTypeOK
<1>3. \A p \in Ops : op'[p].kind = "start" => phase' = "starting"
  BY <1>1 DEF Solo
<1>4. \A p, q \in Ops : op'[p].kind = "start" /\ op'[q].kind = "start" => p = q
  BY <1>1 DEF Solo
<1>5. \A p \in Ops : op'[p].step \in Work => p = o \/ Publishing(p)
  BY <1>1 DEF Publishing
<1>6. \A p, q \in Ops : op'[p].step \in Work /\ op'[q].step \in Work => p = q
  BY <1>1, <1>5 DEF Solo, Publishing
<1>7. phase' \in Ends => \A p \in Ops : op'[p].step \notin Work
  BY <1>1, <1>5 DEF Solo, Publishing, Ends
<1>8. /\ phase' = "stopping" => current' # None /\ ending' = current'.seeder
      /\ phase' # "stopping" => ending' = None
      /\ phase' \in Ends \ {"stopping"} => current' = None
  BY DEF Solo, Ends
<1> QED
  BY <1>0, <1>2, <1>3, <1>4, <1>6, <1>7, <1>8 DEF Solo, Publishing

LEMMA FaultsCount == PublisherNext => faults' = faults \/ faults' = faults + 1
<1> SUFFICES ASSUME PublisherNext PROVE faults' = faults \/ faults' = faults + 1
  OBVIOUS
<1>1. ASSUME NEW o \in Ops, Step(o) PROVE faults' = faults
  BY <1>1 DEF Step, Check, ReadCatalog, StopOld, Seeded, PublisherAnnounce, Post
<1> QED
  BY <1>1 DEF PublisherNext, Edit, PublisherStart, PublisherTick, PublisherRequest, SeedFails,
              Unstored, PublisherStop, PublisherStopSeeder, PublisherCloses, PublisherExit,
              PublisherDies, Fault

LEMMA SoloStep == PublisherInv /\ SoloInv /\ PublisherNext => SoloInv'
<1> SUFFICES ASSUME PublisherInv, SoloInv, PublisherNext, ~overlap' PROVE Solo'
  BY DEF SoloInv
<1>0. /\ PublisherTypeOK /\ phase \in Phases /\ op \in [Ops -> PublisherOp]
      /\ \A o \in Ops : op[o] \in PublisherOp
      /\ faults \in Nat /\ (faults' = faults \/ faults' = faults + 1)
  BY FaultsCount, StationAssumption DEF PublisherInv, PublisherTypeOK, ContextTypeOK
<1>1. overlap' = overlap => Solo
  BY DEF SoloInv
<1>2. ASSUME NEW v \in Versions, Edit(v) PROVE Solo'
  BY <1>0, <1>1, <1>2 DEF Edit, memory, Solo, Handled, SeederOf, Publishing
<1>3. ASSUME NEW o \in Ops, PublisherStart(o) PROVE Solo'
  <2> DEFINE r == [PublisherIdle EXCEPT !.step = "read", !.kind = "start"]
  <2>1. r \in PublisherOp /\ r.step = "read" /\ r.kind = "start" /\ r.seeder = None
    BY PublisherIdleGood DEF PublisherIdle
  <2>2. Handled(r, current)
    BY <2>1 DEF Handled
  <2>3. \A p \in Ops : ~Publishing(p)
    BY <1>1, <1>3 DEF PublisherStart, Solo, Ends
  <2> HIDE DEF r
  <2>4. phase = "down" /\ phase' = "starting" /\ phase' \notin Ends
    BY <1>3 DEF PublisherStart, Ends
  <2>5. op' = [op EXCEPT ![o] = r] /\ UNCHANGED <<current, live, lost, ending>> /\ Solo
    BY <1>1, <1>3 DEF PublisherStart, r
  <2> QED
    BY <1>0, <2>1, <2>2, <2>3, <2>4, <2>5, SoloMoves
<1>4. ASSUME NEW o \in Ops, PublisherTick(o) \/ PublisherRequest(o) PROVE Solo'
  <2>1. PICK st \in {"check", "announce"}, k \in {"tick", "request"} :
          op' = [op EXCEPT ![o] = [PublisherIdle EXCEPT !.step = st, !.kind = k]]
    BY <1>4 DEF PublisherTick, PublisherRequest
  <2> DEFINE r == [PublisherIdle EXCEPT !.step = st, !.kind = k]
  <2>2. r \in PublisherOp /\ r.step = st /\ r.kind = k /\ r.seeder = None
    BY PublisherIdleGood DEF PublisherIdle
  <2>3. Handled(r, current)
    BY <2>2 DEF Handled
  <2> HIDE DEF r
  <2>4. UNCHANGED <<phase, current, live, lost, ending, overlap>> /\ phase # "down"
    BY <1>4 DEF PublisherTick, PublisherRequest
  <2> QED
    BY <1>0, <1>1, <2>1, <2>2, <2>3, <2>4, SoloMoves DEF Work, r
<1>5. ASSUME NEW o \in Ops, op[o].step # "idle", Finish(o), UNCHANGED <<current, live, lost, ending, overlap>>
      PROVE  Solo'
  <2>1. PublisherIdle.step = "idle" /\ PublisherIdle.kind = "none" /\ PublisherIdle.seeder = None
    BY DEF PublisherIdle
  <2> QED
    BY <1>0, <1>1, <1>5, <2>1, PublisherIdleGood, SoloMoves DEF Finish, Handled, Work, Solo
<1>6. ASSUME NEW o \in Ops, op[o].step # "idle", Fail(o) PROVE Solo'
  <2>1. CASE op[o].kind = "start"
    BY <1>6, <2>1, SoloGone DEF Fail
  <2>2. CASE op[o].kind # "start"
    BY <1>5, <1>6, <2>2 DEF Fail, Finish
  <2> QED
    BY <2>1, <2>2
<1>7. ASSUME NEW o \in Ops, Check(o) PROVE Solo'
  <2>1. CASE Unchanged
    BY <1>5, <1>7, <2>1 DEF Check
  <2>2. CASE ~Unchanged
    <3> DEFINE r == [op[o] EXCEPT !.step = "read"]
    <3>1. /\ r \in PublisherOp /\ r.step = "read" /\ r.kind = op[o].kind
          /\ r.seeder = op[o].seeder
      BY <1>0 DEF PublisherOp
    <3>2. overlap' = Overlaps(o, Work) /\ op' = [op EXCEPT ![o].step = "read"]
      BY <1>7, <2>2 DEF Check
    <3>3. ~overlap /\ phase \in {"down", "starting", "up"} /\ \A p \in Ops \ {o} : ~Publishing(p)
      BY <3>2 DEF Overlaps, Publishing
    <3>4. Solo /\ UNCHANGED <<phase, current, live, lost, ending>> /\ op[o].step = "check"
      BY <1>7, <2>2, <3>3 DEF Check, SoloInv
    <3>5. Handled(r, current)
      BY <3>1, <3>4 DEF Solo, Handled
    <3>6. phase # "down"
      BY <3>4 DEF Solo
    <3> QED
      BY <1>0, <3>1, <3>2, <3>3, <3>4, <3>5, <3>6, SoloMoves DEF Ends
  <2> QED
    BY <2>1, <2>2
<1>8. ASSUME NEW o \in Ops, ReadCatalog(o) PROVE Solo'
  <2>1. op[o].step = "read"
    BY <1>8 DEF ReadCatalog
  <2>2. CASE dir \in Broken
    BY <1>6, <1>8, <2>1, <2>2 DEF ReadCatalog
  <2>3. CASE dir \notin Broken
    <3> DEFINE st == IF current = None THEN "seed" ELSE "stop"
               s == IF current = None THEN None ELSE current.seeder
               r == [op[o] EXCEPT !.version = dir, !.step = st, !.seeder = s]
    <3>1. dir \in Versions /\ s \in Seeders \cup {None} /\ st \in {"seed", "stop"}
      BY <1>0 DEF PublisherTypeOK
    <3>2. op' = [op EXCEPT ![o] = r] /\ UNCHANGED <<phase, current, live, ending, lost, overlap>>
      BY <1>8, <2>3 DEF ReadCatalog
    <3>3. /\ st = "seed" => current = None /\ s = None
          /\ st = "stop" => current # None /\ s = current.seeder
      OBVIOUS
    <3> HIDE DEF st, s
    <3>4. r \in PublisherOp /\ r.step = st /\ r.seeder = s /\ r.kind = op[o].kind
      BY <1>0, <3>1 DEF PublisherOp
    <3>5. Handled(r, current)
      BY <3>1, <3>3, <3>4 DEF Handled
    <3>6. Solo /\ Publishing(o)
      BY <1>1, <2>1, <3>2 DEF Publishing, Work
    <3>7. phase \notin Ends /\ phase # "down" /\ \A p \in Ops \ {o} : ~Publishing(p)
      BY <3>6 DEF Solo, Ends
    <3> QED
      BY <1>0, <3>2, <3>4, <3>5, <3>6, <3>7, SoloMoves
  <2> QED
    BY <2>2, <2>3
<1>9. ASSUME NEW o \in Ops, StopOld(o) PROVE Solo'
  <2> DEFINE r == [op[o] EXCEPT !.step = "seed", !.seeder = None]
  <2>1. /\ op[o].step = "stop" /\ current' = None /\ UNCHANGED <<phase, ending, overlap>>
        /\ op' = [op EXCEPT ![o] = r] /\ Keep(Stopped(op[o].seeder))
    BY <1>9 DEF StopOld
  <2>2. Solo /\ Publishing(o) /\ Handled(op[o], current)
    BY <1>1, <2>1 DEF Publishing, Work, Solo
  <2>3. Stopped(op[o].seeder) = {}
    BY <2>1, <2>2 DEF Solo, Handled, SeederOf, Stopped
  <2>4. live' = {} /\ (lost' => lost)
    BY <2>1, <2>2, <2>3 DEF Keep, Solo
  <2>5. r.step = "seed" /\ r.seeder = None /\ r.kind = op[o].kind
    BY <1>0 DEF PublisherOp
  <2>6. \A p \in Ops : op'[p] = IF p = o THEN r ELSE op[p]
    BY <1>0, <2>1
  <2>7. \A p \in Ops \ {o} : ~Publishing(p)
    BY <2>2 DEF Solo
  <2> HIDE DEF r
  <2>8. \A p \in Ops : Handled(op'[p], current')
    BY <2>1, <2>2, <2>5, <2>6, <2>7 DEF Solo, Handled, Publishing, Work
  <2>9. phase \notin Ends
    BY <2>2 DEF Solo
  <2>10. \A p \in Ops : op'[p].kind = op[p].kind /\ (op'[p].step \in Work => p = o)
    BY <2>5, <2>6, <2>7 DEF Publishing
  <2>11. live' = SeederOf(current')
    BY <2>1, <2>4 DEF SeederOf
  <2> QED
    BY <1>0, <2>1, <2>2, <2>4, <2>8, <2>9, <2>10, <2>11 DEF Solo, Publishing, Ends
<1>10. ASSUME NEW o \in Ops, Seeded(o) PROVE Solo'
  <2> DEFINE v == op[o].version
             r == [op[o] EXCEPT !.step = "announce", !.version = None]
  <2>1. PICK s \in Seeders : /\ current' = [version |-> v, seeder |-> s]
                             /\ Keep(live \cup {s}) /\ op' = [op EXCEPT ![o] = r]
    BY <1>10 DEF Seeded
  <2>2. op[o].step = "seed" /\ UNCHANGED <<phase, ending, overlap>>
    BY <1>10 DEF Seeded
  <2>3. Solo /\ Publishing(o) /\ Handled(op[o], current)
    BY <1>1, <2>2 DEF Publishing, Work, Solo
  <2>4. live = {} /\ op[o].seeder = None
    BY <2>2, <2>3 DEF Solo, Handled, SeederOf
  <2>5. current' # None /\ current'.seeder = s
    <3>1. v \in Versions
      BY <2>2 DEF PublisherInv, OpsGood, GoodOp
    <3> QED
      BY <2>1, <3>1, PublisherAssumption
  <2>6. live' = {s} /\ (lost' => lost)
    BY <2>1, <2>3, <2>4, <2>5 DEF Keep, Kept, Solo
  <2>7. r.step = "announce" /\ r.seeder = None /\ r.kind = op[o].kind
    BY <1>0, <2>4 DEF PublisherOp
  <2>8. \A p \in Ops : op'[p] = IF p = o THEN r ELSE op[p]
    BY <1>0, <2>1
  <2>9. \A p \in Ops \ {o} : ~Publishing(p)
    BY <2>3 DEF Solo
  <2>10. \A p \in Ops : Handled(op'[p], current')
    BY <2>3, <2>7, <2>8, <2>9 DEF Solo, Handled, Publishing, Work
  <2>11. phase \notin Ends
    BY <2>3 DEF Solo
  <2> HIDE DEF r, v
  <2>12. \A p \in Ops : op'[p].kind = op[p].kind /\ op'[p].step \notin Work
    BY <2>7, <2>8, <2>9 DEF Publishing, Work
  <2>13. live' = SeederOf(current')
    BY <2>5, <2>6 DEF SeederOf
  <2> QED
    BY <1>0, <2>2, <2>3, <2>5, <2>6, <2>10, <2>11, <2>12, <2>13 DEF Solo, Publishing, Ends
<1>11. ASSUME NEW o \in Ops, PublisherAnnounce(o) PROVE Solo'
  <2>1. CASE current = None \/ Targets = {}
    BY <1>5, <1>11, <2>1 DEF PublisherAnnounce
  <2>2. CASE ~(current = None \/ Targets = {})
    <3> DEFINE r == [op[o] EXCEPT !.step = "post", !.version = current.version]
    <3>1. /\ op' = [op EXCEPT ![o] = r] /\ op[o].step = "announce"
          /\ UNCHANGED <<phase, current, live, ending, lost, overlap>>
      BY <1>11, <2>2 DEF PublisherAnnounce
    <3>2. current.version \in Versions
      BY <1>0, <2>2 DEF PublisherTypeOK
    <3>3. r \in PublisherOp /\ r.step = "post" /\ r.seeder = op[o].seeder /\ r.kind = op[o].kind
      BY <1>0, <3>2 DEF PublisherOp
    <3>4. Solo /\ Handled(r, current) /\ phase # "down"
      BY <1>1, <3>1, <3>3 DEF Solo, Handled
    <3> HIDE DEF r
    <3> QED
      BY <1>0, <3>1, <3>3, <3>4, SoloMoves DEF Work
  <2> QED
    BY <2>1, <2>2
<1>12. ASSUME NEW o \in Ops, Post(o) PROVE Solo'
  <2>1. op[o].step = "post" /\ UNCHANGED <<current, live, ending, lost, overlap>>
    BY <1>12 DEF Post
  <2>2. PublisherInv'
    BY PublisherStep
  <2>3. CASE Finish(o)
    BY <1>5, <2>1, <2>3
  <2>4. CASE ~Finish(o)
    <3> DEFINE r == op'[o]
    <3>1. \/ op' = [op EXCEPT ![o].target = @ + 1, ![o].attempt = 1]
          \/ op' = [op EXCEPT ![o].attempt = @ + 1]
      BY <1>12, <2>4 DEF Post, NextTarget
    <3>2. op' = [op EXCEPT ![o] = r] /\ phase' = phase
      BY <1>0, <1>12, <2>4, <3>1 DEF Post, NextTarget
    <3>3. r \in PublisherOp
      BY <2>2 DEF PublisherInv, PublisherTypeOK
    <3>4. r.step = "post" /\ r.seeder = op[o].seeder /\ r.kind = op[o].kind
      BY <1>0, <2>1, <3>1 DEF PublisherOp
    <3>5. Solo /\ Handled(r, current) /\ phase # "down"
      BY <1>1, <2>1, <3>4 DEF Solo, Handled
    <3> HIDE DEF r
    <3> QED
      BY <1>0, <2>1, <3>2, <3>3, <3>4, <3>5, SoloMoves DEF Work
  <2> QED
    BY <2>3, <2>4
<1>13. CASE PublisherStop
  <2>1. ~overlap /\ Solo /\ \A o \in Ops : ~Publishing(o)
    BY <1>13 DEF PublisherStop, StopOverlaps, SoloInv, Publishing
  <2>2. UNCHANGED <<current, live, op, lost>> /\ phase = "up"
    BY <1>13 DEF PublisherStop
  <2>3. CASE current = None
    BY <1>0, <1>13, <2>1, <2>2, <2>3 DEF PublisherStop, Solo, SeederOf, Handled, Publishing, Ends
  <2>4. CASE current # None
    BY <1>0, <1>13, <2>1, <2>2, <2>4 DEF PublisherStop, Solo, SeederOf, Handled, Publishing, Ends
  <2> QED
    BY <2>3, <2>4
<1>14. CASE PublisherStopSeeder
  <2>1. /\ phase = "stopping" /\ phase' = "closing" /\ current' = None /\ ending' = None
        /\ op' = op /\ overlap' = overlap /\ Keep(Stopped(ending))
    BY <1>14 DEF PublisherStopSeeder
  <2>2. Solo /\ \A o \in Ops : ~Publishing(o)
    BY <1>1, <2>1 DEF Solo, Ends
  <2>3. Stopped(ending) = {}
    BY <2>1, <2>2 DEF Solo, Stopped, SeederOf
  <2>4. live' = {} /\ (lost' => lost)
    BY <2>1, <2>2, <2>3 DEF Keep, Solo
  <2>5. \A o \in Ops : Handled(op[o], current')
    BY <2>1, <2>2 DEF Solo, Handled, Publishing, Work
  <2> QED
    BY <1>0, <2>1, <2>2, <2>4, <2>5 DEF Solo, SeederOf, Publishing, Ends
<1>15. CASE PublisherCloses
  BY <1>0, <1>1, <1>15 DEF PublisherCloses, ServerCloses, memory, Solo, SeederOf, Handled, Publishing, Ends
<1>16. CASE PublisherExit \/ PublisherDies
  BY <1>16, SoloGone DEF PublisherExit, PublisherDies
<1>17. ASSUME NEW o \in Ops, SeedFails(o) PROVE Solo'
  BY <1>6, <1>17 DEF SeedFails
<1>u. ASSUME NEW o \in Ops, Unstored(o) PROVE Solo'
  <2>1. /\ op[o].step = "seed" /\ op' = [op EXCEPT ![o] = PublisherIdle]
        /\ phase' = (IF op[o].kind = "start" THEN "closing" ELSE phase) /\ faults' = faults + 1
        /\ UNCHANGED <<current, live, ending, overlap>>
    BY <1>u DEF Unstored, Fault
  <2>2. Solo /\ Publishing(o) /\ Handled(op[o], current)
    BY <1>1, <2>1 DEF Publishing, Work, Solo
  <2>3. current = None /\ phase \notin Ends /\ ending = None
    BY <2>1, <2>2 DEF Solo, Handled, Ends
  <2>4. PublisherIdle.step = "idle" /\ PublisherIdle.kind = "none" /\ PublisherIdle.seeder = None
    BY DEF PublisherIdle
  <2>5. \A p \in Ops : op'[p] = IF p = o THEN PublisherIdle ELSE op[p]
    BY <1>0, <2>1
  <2>6. \A p \in Ops \ {o} : ~Publishing(p)
    BY <2>2 DEF Solo
  <2>7. \A p \in Ops : Handled(op'[p], current') /\ op'[p].step \notin Work
    BY <2>1, <2>2, <2>4, <2>5, <2>6 DEF Solo, Handled, Publishing, Work
  <2>8. \A p \in Ops : op'[p].kind = "start" => phase' = "starting"
    BY <2>1, <2>2, <2>4, <2>5 DEF Solo
  <2>9. \A p, q \in Ops : op'[p].kind = "start" /\ op'[q].kind = "start" => p = q
    BY <2>2, <2>4, <2>5 DEF Solo
  <2>10. phase' \notin {"down", "stopping"}
    BY <2>1, <2>3 DEF Ends
  <2> QED
    BY <1>0, <2>1, <2>2, <2>3, <2>7, <2>8, <2>9, <2>10 DEF Solo, Publishing
<1> QED
  BY <1>2, <1>3, <1>4, <1>u, <1>7, <1>8, <1>9, <1>10, <1>11, <1>12, <1>13, <1>14, <1>15, <1>16, <1>17
     DEF PublisherNext, Step

-------------------------------------------------------------------------------
(* The integrator *)

Mirrored == facts \cap topics

\* What an activity carries across an await: the topic it has stored and mirrored,
\* and the member it is at.
GoodRefresh(r, s) ==
  /\ r.step \in {"drop", "clear", "download", "read", "seed"} => r.topic \in s
  /\ r.step \in {"clear", "download", "read", "seed"} => r.member # None

RefreshesGood == \A o \in Ops : GoodRefresh(op[o], Mirrored)

IntegratorInv == IntegratorTypeOK /\ RefreshesGood /\ TopicServed

LEMMA SeederCounts ==
  /\ MaxSeeders \in Nat /\ 0 \in 0 .. MaxSeeders
  /\ NoSeeders \in [OfferHashes -> 0 .. MaxSeeders]
<1>1. Cardinality(Ops) \in Nat
  BY StationAssumption, FS_CardinalityType
<1> QED
  BY <1>1 DEF MaxSeeders, NoSeeders

LEMMA IntegratorIdleGood ==
  /\ IntegratorIdle \in IntegratorOp
  /\ \A k \in {"start", "tick", "request"} :
       [IntegratorIdle EXCEPT !.step = "load", !.kind = k] \in IntegratorOp
<1>1. IntegratorIdle \in IntegratorOp
  BY SeederCounts DEF IntegratorIdle, IntegratorOp, Topics
<1> QED
  BY <1>1 DEF IntegratorOp

LEMMA RefreshMoves ==
  ASSUME IntegratorInv, NEW o \in Ops, NEW r \in IntegratorOp, op' = [op EXCEPT ![o] = r],
         GoodRefresh(r, Mirrored'), Mirrored \subseteq Mirrored'
  PROVE  op' \in [Ops -> IntegratorOp] /\ RefreshesGood'
<1>1. op \in [Ops -> IntegratorOp]
  BY DEF IntegratorInv, IntegratorTypeOK
<1>2. op' \in [Ops -> IntegratorOp]
  BY <1>1
<1>3. \A p \in Ops : GoodRefresh(op'[p], Mirrored')
  BY <1>1 DEF IntegratorInv, RefreshesGood, GoodRefresh
<1> QED
  BY <1>2, <1>3 DEF RefreshesGood

LEMMA OnlyRefreshMoves ==
  ASSUME IntegratorInv, NEW o \in Ops, NEW r \in IntegratorOp, op' = [op EXCEPT ![o] = r],
         GoodRefresh(r, Mirrored), r.step = "announce" => result # None,
         role' = role, changes' = changes, phase' \in Phases,
         overlap' \in BOOLEAN, faults' \in 0 .. MaxFaults,
         copies' \in [OfferHashes -> {"none", "complete", "spoilt"}],
         seeders' \in [OfferHashes -> 0 .. MaxSeeders],
         disk' \in [OfferHashes -> {"none", "partial", "whole"}],
         UNCHANGED <<offer, result, topics, halting, facts, latest>>
  PROVE  IntegratorInv'
<1>1. Mirrored' = Mirrored
  BY DEF Mirrored
<1>2. op' \in [Ops -> IntegratorOp] /\ RefreshesGood'
  BY <1>1, RefreshMoves
<1>3. IntegratorTypeOK'
  BY <1>2 DEF IntegratorInv, IntegratorTypeOK, ContextTypeOK
<1>4. TopicServed'
  <2>1. \A p \in Ops : op'[p] = IF p = o THEN r ELSE op[p]
    BY DEF IntegratorInv, IntegratorTypeOK
  <2> QED
    BY <2>1 DEF IntegratorInv, TopicServed
<1> QED
  BY <1>2, <1>3, <1>4 DEF IntegratorInv

\* No activity goes on.
LEMMA NoRefreshMoves ==
  ASSUME IntegratorInv, role' = role, changes' \in 0 .. MaxChanges, phase' \in Phases,
         overlap' \in BOOLEAN, offer' \in [Members -> Offers \cup {None}],
         seeders' \in [OfferHashes -> 0 .. MaxSeeders], halting' \in [OfferHashes -> 0 .. MaxSeeders],
         UNCHANGED <<op, result, topics, copies, disk, facts, latest, faults>>
  PROVE  IntegratorInv'
<1>1. IntegratorTypeOK'
  BY DEF IntegratorInv, IntegratorTypeOK, ContextTypeOK
<1>2. RefreshesGood' /\ TopicServed'
  BY DEF IntegratorInv, RefreshesGood, Mirrored, TopicServed
<1> QED
  BY <1>1, <1>2 DEF IntegratorInv

LEMMA IntegratorStep == IntegratorInv /\ IntegratorNext => IntegratorInv'
<1> SUFFICES ASSUME IntegratorInv, IntegratorNext PROVE IntegratorInv'
  OBVIOUS
<1>0. /\ role' = role
      /\ Fault => faults' \in 0 .. MaxFaults
      /\ Changed => changes' \in 0 .. MaxChanges
      /\ phase \in Phases /\ overlap \in BOOLEAN /\ changes \in 0 .. MaxChanges
      /\ faults \in 0 .. MaxFaults /\ op \in [Ops -> IntegratorOp]
      /\ \A o \in Ops : op[o] \in IntegratorOp
      /\ offer \in [Members -> Offers \cup {None}]
      /\ seeders \in [OfferHashes -> 0 .. MaxSeeders] /\ halting \in [OfferHashes -> 0 .. MaxSeeders]
      /\ disk \in [OfferHashes -> {"none", "partial", "whole"}]
      /\ copies \in [OfferHashes -> {"none", "complete", "spoilt"}]
  BY StationAssumption
     DEF IntegratorNext, Fault, Changed, IntegratorInv, IntegratorTypeOK, ContextTypeOK
<1>1. ASSUME IntegratorForgets, offer' = offer, faults' \in 0 .. MaxFaults, changes' = changes,
             facts' \subseteq Topics
      PROVE  IntegratorInv'
  <2>1. IntegratorTypeOK'
    BY <1>0, <1>1, IntegratorIdleGood, SeederCounts
       DEF IntegratorForgets, AllIdle, NoArchives, Phases, IntegratorInv, IntegratorTypeOK, ContextTypeOK
  <2>2. RefreshesGood' /\ TopicServed'
    BY <1>1 DEF IntegratorForgets, AllIdle, RefreshesGood, GoodRefresh, IntegratorIdle, TopicServed
  <2> QED
    BY <2>1, <2>2 DEF IntegratorInv
<1>2. ASSUME NEW m \in Members, Change(m) PROVE IntegratorInv'
  BY <1>0, <1>2, NoRefreshMoves DEF Change, served, reseeding, history
<1>3. ASSUME NEW o \in Ops, IntegratorStart(o) \/ IntegratorTick(o) \/ IntegratorRequest(o)
      PROVE  IntegratorInv'
  <2>1. PICK k \in {"start", "tick", "request"} : Begin(o, k)
    BY <1>3 DEF IntegratorStart, IntegratorTick, IntegratorRequest
  <2>2. /\ op' = [op EXCEPT ![o] = [IntegratorIdle EXCEPT !.step = "load", !.kind = k]]
        /\ overlap' \in BOOLEAN
    BY <1>0, <2>1 DEF Begin, SetOp, Overlaps
  <2>3. /\ GoodRefresh([IntegratorIdle EXCEPT !.step = "load", !.kind = k], Mirrored)
        /\ [IntegratorIdle EXCEPT !.step = "load", !.kind = k].step = "load"
    BY DEF GoodRefresh, IntegratorIdle
  <2>4. phase' \in Phases /\ UNCHANGED <<offer, result, served, reseeding, halting, facts, latest, changes, faults>>
    BY <1>0, <1>3 DEF IntegratorStart, IntegratorTick, IntegratorRequest, Phases
  <2> QED
    BY <1>0, <2>2, <2>3, <2>4, IntegratorIdleGood, OnlyRefreshMoves DEF served, reseeding
<1>4. \A o \in Ops : op[o].member # None => HashOf(o) \in OfferHashes
  BY <1>0 DEF HashOf, IntegratorOp, Gatherable, OfferHashes
<1>5. \A o \in Ops : Skipped(o) \in IntegratorOp /\ Skipped(o).step = "drop"
  BY <1>0 DEF Skipped, IntegratorOp
<1>6. \A o \in Ops : op[o].step \in {"drop", "download", "read", "seed"} => GoodRefresh(Skipped(o), Mirrored)
  BY <1>0 DEF IntegratorInv, RefreshesGood, GoodRefresh, Skipped, IntegratorOp
<1>7. ASSUME NEW o \in Ops, Load(o) PROVE IntegratorInv'
  <2> DEFINE topic == Gathered
  <2>1. topic \in Topics /\ {g \in topic : g.listing.magnet} \in Topics
    BY DEF Gathered, Topics
  <2>2. facts' = facts \cup {topic} /\ topics' = topics \cup {topic} /\ latest' = [topic |-> topic]
    BY <1>7 DEF Load, MirrorTopic
  <2>3. UNCHANGED <<offer, phase, copies, disk, halting, overlap, changes, faults>>
    BY <1>7 DEF Load
  <2>4. Mirrored \subseteq Mirrored' /\ topic \in Mirrored'
    BY <2>2 DEF Mirrored
  <2>5. seeders' \in [OfferHashes -> 0 .. MaxSeeders]
    BY <1>0, <1>7, SeederCounts DEF Load
  <2>6. result' = result \/ result' = [topic |-> topic]
    BY <1>7 DEF Load
  <2>7. PICK r \in IntegratorOp :
          /\ op' = [op EXCEPT ![o] = r] /\ GoodRefresh(r, Mirrored')
          /\ r.step = "announce" => result' = [topic |-> topic]
    <3>1. CASE Reseed
      <4> DEFINE n == {g \in topic : g.listing.magnet}
                 r == [op[o] EXCEPT !.step = "drop", !.topic = topic, !.drop = seeders, !.todo = n]
      <4>1. op' = [op EXCEPT ![o] = r]
        BY <1>7, <3>1 DEF Load, SetOp
      <4>n. n \in Topics
        BY <2>1
      <4> HIDE DEF n, topic
      <4>2. r \in IntegratorOp
        BY <1>0, <2>1, <4>n DEF IntegratorOp
      <4>3. r.step = "drop" /\ r.topic = topic
        BY <1>0 DEF IntegratorOp
      <4> QED
        BY <2>4, <4>1, <4>2, <4>3 DEF GoodRefresh
    <3>2. CASE ~Reseed
      <4> DEFINE r == [op[o] EXCEPT !.step = "announce", !.topic = topic]
      <4>1. op' = [op EXCEPT ![o] = r] /\ result' = [topic |-> topic]
        BY <1>7, <3>2 DEF Load, SetOp
      <4> HIDE DEF topic
      <4>2. r \in IntegratorOp /\ r.step = "announce"
        BY <1>0, <2>1 DEF IntegratorOp
      <4> QED
        BY <4>1, <4>2 DEF GoodRefresh
    <3> QED
      BY <3>1, <3>2
  <2>8. op' \in [Ops -> IntegratorOp] /\ RefreshesGood'
    BY <2>4, <2>7, RefreshMoves
  <2> HIDE DEF topic
  <2>9. IntegratorTypeOK'
    BY <1>0, <2>1, <2>2, <2>3, <2>5, <2>6, <2>8 DEF IntegratorInv, IntegratorTypeOK, ContextTypeOK, Result
  <2>a. op'[o].step = "announce" => result' = [topic |-> topic]
    BY <1>0, <2>7
  <2>b. \A p \in Ops \ {o} : op'[p] = op[p]
    BY <1>0, <2>7
  <2>c. [topic |-> topic] # None
    BY <2>1, IntegratorAssumption
  <2>10. TopicServed'
    BY <1>0, <2>2, <2>4, <2>6, <2>a, <2>b, <2>c DEF IntegratorInv, TopicServed, Mirrored
  <2> QED
    BY <2>8, <2>9, <2>10 DEF IntegratorInv
<1>8. ASSUME NEW o \in Ops, Drop(o) PROVE IntegratorInv'
  <2>1. PICK h \in OfferHashes : op[o].drop[h] > 0 /\ SetOp(o, [op[o] EXCEPT !.drop[h] = @ - 1])
    BY <1>8 DEF Drop
  <2> DEFINE d == [op[o].drop EXCEPT ![h] = @ - 1]
             r == [op[o] EXCEPT !.drop = d]
  <2>2. d \in [OfferHashes -> 0 .. MaxSeeders]
    BY <1>0, <2>1, SeederCounts DEF IntegratorOp
  <2>3. op' = [op EXCEPT ![o] = r]
    BY <1>0, <2>1 DEF SetOp, IntegratorOp
  <2> HIDE DEF d
  <2>4. r \in IntegratorOp /\ r.step = "drop" /\ r.topic = op[o].topic
    BY <1>0, <1>8, <2>2 DEF IntegratorOp, Drop
  <2>5. GoodRefresh(r, Mirrored)
    BY <1>8, <2>4 DEF Drop, GoodRefresh, IntegratorInv, RefreshesGood
  <2> QED
    BY <1>0, <1>8, <2>3, <2>4, <2>5, OnlyRefreshMoves DEF Drop, served, reseeding, history
<1>9. ASSUME NEW o \in Ops, NextMember(o) PROVE IntegratorInv'
  <2>0. op[o].step = "drop"
    BY <1>9, Zenon DEF NextMember
  <2>1. op[o].topic \in Mirrored /\ op[o].topic \in Topics
    BY <1>0, <2>0 DEF IntegratorInv, RefreshesGood, GoodRefresh, IntegratorOp
  <2>2. CASE op[o].todo = {}
    <3> DEFINE r == [op[o] EXCEPT !.step = "announce"]
    <3>1. r \in IntegratorOp /\ r.step = "announce"
      BY <1>0 DEF IntegratorOp
    <3>2. op' = [op EXCEPT ![o] = r] /\ result' = [topic |-> op[o].topic]
      BY <1>9, <2>2 DEF NextMember, SetOp
    <3>3. UNCHANGED <<offer, phase, served, reseeding, halting, facts, history, changes, faults>>
      BY <1>9, Zenon DEF NextMember
    <3>4. Mirrored' = Mirrored
      BY <3>3 DEF Mirrored, served
    <3>5. op' \in [Ops -> IntegratorOp] /\ RefreshesGood'
      BY <3>1, <3>2, <3>4, RefreshMoves DEF GoodRefresh
    <3>6. IntegratorTypeOK'
      BY <1>0, <2>1, <3>2, <3>3, <3>5
         DEF served, reseeding, history, IntegratorInv, IntegratorTypeOK, ContextTypeOK, Result
    <3>a. result' # None
      BY <2>1, <3>2, IntegratorAssumption
    <3>7. TopicServed'
      BY <2>1, <3>2, <3>3, <3>a DEF served, TopicServed, Mirrored
    <3> QED
      BY <3>5, <3>6, <3>7 DEF IntegratorInv
  <2>3. CASE op[o].todo # {}
    <3>1. PICK g \in op[o].todo :
            SetOp(o, [op[o] EXCEPT !.step = "clear", !.member = g, !.todo = @ \ {g}])
      BY <1>9, <2>3, Zenon DEF NextMember
    <3>0. UNCHANGED <<offer, phase, result, served, reseeding, halting, facts, history, changes, faults>>
      BY <1>9, <2>3, Zenon DEF NextMember
    <3> DEFINE n == op[o].todo \ {g}
               r == [op[o] EXCEPT !.step = "clear", !.member = g, !.todo = n]
    <3>2. n \in Topics /\ g \in Gatherable
      BY <1>0 DEF IntegratorOp, Topics
    <3>3. op' = [op EXCEPT ![o] = r]
      BY <3>1 DEF SetOp
    <3> HIDE DEF n
    <3>4. /\ r \in IntegratorOp /\ r.step = "clear" /\ r.topic = op[o].topic /\ r.member = g
      BY <1>0, <3>2 DEF IntegratorOp
    <3>5. g # None
      BY <3>2, IntegratorAssumption
    <3>6. GoodRefresh(r, Mirrored)
      BY <2>1, <3>4, <3>5, Zenon DEF GoodRefresh
    <3> QED
      BY <1>0, <3>0, <3>3, <3>4, <3>6, OnlyRefreshMoves DEF served, reseeding, history
  <2> QED
    BY <2>2, <2>3
<1>10. ASSUME NEW o \in Ops, Clear(o) PROVE IntegratorInv'
  <2> DEFINE h == HashOf(o)
  <2>1. op[o].member # None /\ h \in OfferHashes
    BY <1>4, <1>10 DEF Clear, IntegratorInv, RefreshesGood, GoodRefresh
  <2>2. /\ disk' \in [OfferHashes -> {"none", "partial", "whole"}]
        /\ UNCHANGED <<offer, phase, result, served, seeders, halting, facts, history, changes, faults>>
    BY <1>0, <1>10, <2>1 DEF Clear
  <2>3. \A p \in Ops : /\ op'[p] \in IntegratorOp
                       /\ op'[p].topic = op[p].topic /\ op'[p].member = op[p].member
                       /\ op'[p].step = op[p].step \/ (op[p].step = "clear" /\ op'[p].step = "download")
    BY <1>0, <1>10, ZenonT(40) DEF Clear, IntegratorOp
  <2>4. op' \in [Ops -> IntegratorOp]
    BY <1>10, <2>3 DEF Clear
  <2>5. Mirrored' = Mirrored
    BY <2>2 DEF Mirrored, served
  <2>6. RefreshesGood'
    BY <2>3, <2>5 DEF IntegratorInv, RefreshesGood, GoodRefresh
  <2>7. IntegratorTypeOK'
    BY <1>0, <2>2, <2>4 DEF served, history, IntegratorInv, IntegratorTypeOK, ContextTypeOK
  <2> QED
    BY <1>0, <2>2, <2>3, <2>6, <2>7 DEF IntegratorInv, TopicServed, served
<1>11. ASSUME NEW o \in Ops, Download(o) PROVE IntegratorInv'
  <2> DEFINE l == op[o].member.listing
  <2>1. op[o].member # None /\ l.hash \in OfferHashes
    BY <1>4, <1>11 DEF Download, IntegratorInv, RefreshesGood, GoodRefresh, HashOf
  <2>2. disk' \in [OfferHashes -> {"none", "partial", "whole"}]
    BY <1>0, <1>11, <2>1 DEF Download
  <2>3. PICK r \in IntegratorOp :
          op' = [op EXCEPT ![o] = r] /\ GoodRefresh(r, Mirrored) /\ r.step # "announce"
    <3> DEFINE r == [op[o] EXCEPT !.step = "read"]
    <3>1. r \in IntegratorOp /\ r.step = "read" /\ r.topic = op[o].topic /\ r.member = op[o].member
      BY <1>0 DEF IntegratorOp
    <3>2. GoodRefresh(r, Mirrored)
      BY <1>11, <3>1 DEF Download, GoodRefresh, IntegratorInv, RefreshesGood
    <3>3. op' = [op EXCEPT ![o] = r] \/ op' = [op EXCEPT ![o] = Skipped(o)]
      BY <1>11 DEF Download, SetOp
    <3>4. GoodRefresh(Skipped(o), Mirrored)
      BY <1>6, <1>11 DEF Download
    <3> QED
      BY <1>5, <3>1, <3>2, <3>3, <3>4
  <2> QED
    BY <1>0, <1>11, <2>2, <2>3, OnlyRefreshMoves DEF Download, served, history
<1>12. ASSUME NEW o \in Ops, ReadBack(o) PROVE IntegratorInv'
  <2>1. op[o].member # None /\ HashOf(o) \in OfferHashes
    BY <1>4, <1>12 DEF ReadBack, IntegratorInv, RefreshesGood, GoodRefresh
  <2>2. copies' \in [OfferHashes -> {"none", "complete", "spoilt"}]
    BY <1>0, <1>12, <2>1 DEF ReadBack
  <2>3. PICK r \in IntegratorOp :
          op' = [op EXCEPT ![o] = r] /\ GoodRefresh(r, Mirrored) /\ r.step # "announce"
    <3> DEFINE r == [op[o] EXCEPT !.step = "seed"]
    <3>1. r \in IntegratorOp /\ r.step = "seed" /\ r.topic = op[o].topic /\ r.member = op[o].member
      BY <1>0 DEF IntegratorOp
    <3>2. GoodRefresh(r, Mirrored)
      BY <1>12, <3>1 DEF ReadBack, GoodRefresh, IntegratorInv, RefreshesGood
    <3>3. op' = [op EXCEPT ![o] = r] \/ op' = [op EXCEPT ![o] = Skipped(o)]
      BY <1>12 DEF ReadBack, SetOp
    <3>4. GoodRefresh(Skipped(o), Mirrored)
      BY <1>6, <1>12 DEF ReadBack
    <3> QED
      BY <1>5, <3>1, <3>2, <3>3, <3>4
  <2> QED
    BY <1>0, <1>12, <2>2, <2>3, OnlyRefreshMoves DEF ReadBack, reseeding, history
<1>13. ASSUME NEW o \in Ops, Seed(o) PROVE IntegratorInv'
  <2>1. op[o].member # None /\ HashOf(o) \in OfferHashes
    BY <1>4, <1>13 DEF Seed, IntegratorInv, RefreshesGood, GoodRefresh
  <2>2. seeders' \in [OfferHashes -> 0 .. MaxSeeders]
    BY <1>0, <1>13, <2>1, SeederCounts DEF Seed
  <2>3. op' = [op EXCEPT ![o] = Skipped(o)] /\ GoodRefresh(Skipped(o), Mirrored)
    BY <1>6, <1>13 DEF Seed, SetOp
  <2> QED
    BY <1>0, <1>5, <1>13, <2>2, <2>3, OnlyRefreshMoves DEF Seed, served, history
<1>14. ASSUME NEW o \in Ops, Fails(o) PROVE IntegratorInv'
  <2>1. op[o].member # None /\ HashOf(o) \in OfferHashes
    BY <1>4, <1>14 DEF Fails, IntegratorInv, RefreshesGood, GoodRefresh
  <2>2. disk' \in [OfferHashes -> {"none", "partial", "whole"}]
    BY <1>0, <1>14, <2>1 DEF Fails
  <2>3. op' = [op EXCEPT ![o] = Skipped(o)] /\ GoodRefresh(Skipped(o), Mirrored)
    BY <1>6, <1>14 DEF Fails, SetOp
  <2> QED
    BY <1>0, <1>5, <1>14, <2>2, <2>3, OnlyRefreshMoves DEF Fails, served, history
<1>15. ASSUME NEW o \in Ops, IntegratorAnnounce(o) PROVE IntegratorInv'
  <2>1. /\ op' = [op EXCEPT ![o] = IntegratorIdle] /\ GoodRefresh(IntegratorIdle, Mirrored)
        /\ IntegratorIdle.step = "idle"
    BY <1>15 DEF IntegratorAnnounce, SetOp, GoodRefresh, IntegratorIdle
  <2>2. phase' \in Phases
    BY <1>0, <1>15 DEF IntegratorAnnounce, Phases
  <2> QED
    BY <1>0, <1>15, <2>1, <2>2, IntegratorIdleGood, OnlyRefreshMoves
       DEF IntegratorAnnounce, served, reseeding
<1>16. CASE IntegratorStop
  <2>1. phase' \in Phases /\ overlap' \in BOOLEAN /\ seeders' \in [OfferHashes -> 0 .. MaxSeeders]
    BY <1>0, <1>16, SeederCounts DEF IntegratorStop, StopOverlaps, Phases
  <2> QED
    BY <1>0, <1>16, <2>1, NoRefreshMoves DEF IntegratorStop, served
<1>17. CASE IntegratorStopSeeder
  <2>1. halting' \in [OfferHashes -> 0 .. MaxSeeders]
    <3>1. CASE halting = NoSeeders
      BY <1>0, <1>17, <3>1 DEF IntegratorStopSeeder
    <3>2. CASE halting # NoSeeders
      <4>1. PICK h \in OfferHashes : halting[h] > 0 /\ halting' = [halting EXCEPT ![h] = @ - 1]
        BY <1>17, <3>2 DEF IntegratorStopSeeder
      <4> QED
        BY <1>0, <4>1, SeederCounts
    <3> QED
      BY <3>1, <3>2
  <2>2. phase' \in Phases
    BY <1>0, <1>17 DEF IntegratorStopSeeder, Phases
  <2> QED
    BY <1>0, <1>17, <2>1, <2>2, NoRefreshMoves DEF IntegratorStopSeeder, served, reseeding, history
<1>18. CASE IntegratorCloses
  BY <1>0, <1>18, NoRefreshMoves DEF IntegratorCloses, ServerCloses, Phases, served, reseeding, history
<1>19. CASE IntegratorExit \/ IntegratorDies
  BY <1>0, <1>1, <1>19
     DEF IntegratorExit, IntegratorDies, IntegratorGone, IntegratorInv, IntegratorTypeOK
<1>20. ASSUME NEW o \in Ops, LoadFails(o) PROVE IntegratorInv'
  <2> DEFINE topic == Gathered
  <2>1. topic \in Topics
    BY DEF Gathered, Topics
  <2>2. /\ op[o].step = "load" /\ faults' \in 0 .. MaxFaults /\ UNCHANGED <<offer, changes>>
        /\ facts' = facts \/ facts' = facts \cup {topic}
    BY <1>0, <1>20 DEF LoadFails
  <2>3. facts' \subseteq Topics
    BY <2>1, <2>2 DEF IntegratorInv, IntegratorTypeOK
  <2>4. CASE op[o].kind = "start"
    BY <1>1, <1>20, <2>2, <2>3, <2>4 DEF LoadFails
  <2>5. CASE op[o].kind # "start"
    <3>1. /\ op' = [op EXCEPT ![o] = IntegratorIdle]
          /\ UNCHANGED <<phase, result, served, reseeding, halting, history>>
      BY <1>20, <2>5 DEF LoadFails, SetOp
    <3>2. Mirrored \subseteq Mirrored' /\ GoodRefresh(IntegratorIdle, Mirrored')
      BY <2>2, <3>1 DEF Mirrored, served, GoodRefresh, IntegratorIdle
    <3>3. op' \in [Ops -> IntegratorOp] /\ RefreshesGood'
      BY <3>1, <3>2, IntegratorIdleGood, RefreshMoves
    <3>4. IntegratorTypeOK'
      BY <1>0, <2>2, <2>3, <3>1, <3>3
         DEF served, reseeding, history, IntegratorInv, IntegratorTypeOK, ContextTypeOK
    <3>5. \A p \in Ops : op'[p] = IF p = o THEN IntegratorIdle ELSE op[p]
      BY <1>0, <3>1
    <3>6. TopicServed'
      BY <1>0, <2>2, <3>1, <3>5 DEF served, IntegratorInv, TopicServed, IntegratorIdle
    <3> QED
      BY <3>3, <3>4, <3>6 DEF IntegratorInv
  <2> QED
    BY <2>4, <2>5
<1> QED
  BY <1>20, <1>2, <1>3, <1>7, <1>8, <1>9, <1>10, <1>11, <1>12, <1>13, <1>14, <1>15, <1>16, <1>17,
     <1>18, <1>19 DEF IntegratorNext

-------------------------------------------------------------------------------
(* The integrator's refreshes *)

Busy == RefreshWork \ {"load"}

\* What an activity between two awaits has gathered and not yet reseeded, when it is
\* alone, and what it expects of the directory it is about to read or to seed.
Carried(r, d, lt) ==
  /\ ~r.disturbed
  /\ r.step \in Busy => /\ Reseed /\ lt = [topic |-> r.topic] /\ r.todo \subseteq r.topic
                        /\ r.member # None => r.member \in r.topic \ r.todo
  /\ r.step \notin Busy => r.todo = {}
  /\ r.step \notin Busy \ {"drop"} => r.member = None
  /\ r.step \in {"read", "seed"} => d[r.member.listing.hash] = "whole"

OneEach(t) == \A g1, g2 \in t : g1.member = g2.member => g1 = g2

Doubled(h) ==
  /\ latest # None
  /\ \E g1, g2 \in latest.topic :
       g1.member # g2.member /\ g1.listing.hash = h /\ g2.listing.hash = h

\* A seeder on the list belongs to a member of the topic that has been dealt with,
\* and is alone in a whole directory unless another member has its catalog.
Accounts(h) ==
  seeders[h] > 0 =>
    /\ Doubled(h) \/ (seeders[h] = 1 /\ disk[h] = "whole")
    /\ latest # None
    /\ \E g \in latest.topic :
         g.listing.hash = h /\ \A o \in Ops : g \notin op[o].todo /\ g # op[o].member

SoloRefresh ==
  /\ \A o \in Ops : Carried(op[o], disk, latest)
  /\ \A o \in Ops : op[o].kind = "start" => phase = "starting"
  /\ \A o, p \in Ops : op[o].kind = "start" /\ op[p].kind = "start" => o = p
  /\ \A o, p \in Ops : Refreshing(o) /\ Refreshing(p) => o = p
  /\ phase \in Ends => seeders = NoSeeders /\ \A o \in Ops : ~Refreshing(o)
  /\ phase # "stopping" => halting = NoSeeders
  /\ \A h \in OfferHashes : copies[h] # "spoilt"
  /\ (\A o \in Ops : op[o].step \notin Busy) => result = latest
  /\ latest # None => OneEach(latest.topic)
  /\ ~Reseed => seeders = NoSeeders
  /\ \A h \in OfferHashes : Accounts(h)

SoloRefreshInv == ~overlap => SoloRefresh

LEMMA AloneGone == IntegratorForgets => SoloRefresh'
<1> SUFFICES ASSUME IntegratorForgets PROVE SoloRefresh'
  OBVIOUS
<1>1. \A o \in Ops : op'[o] = IntegratorIdle
  BY DEF IntegratorForgets, AllIdle
<1>2. /\ IntegratorIdle.step = "idle" /\ IntegratorIdle.kind = "none" /\ IntegratorIdle.member = None
      /\ IntegratorIdle.todo = {} /\ ~IntegratorIdle.disturbed
  BY DEF IntegratorIdle
<1>3. \A o \in Ops : Carried(op'[o], disk', latest')
  BY <1>1, <1>2 DEF Carried, Busy, RefreshWork
<1>4. \A h \in OfferHashes : seeders'[h] = 0 /\ copies'[h] # "spoilt"
  BY DEF IntegratorForgets, NoSeeders, NoArchives
<1>5. \A h \in OfferHashes : Accounts(h)'
  BY <1>4 DEF Accounts
<1> QED
  BY <1>1, <1>2, <1>3, <1>4, <1>5 DEF IntegratorForgets, SoloRefresh, Refreshing, RefreshWork

\* One activity goes on.
LEMMA AloneMoves ==
  ASSUME IntegratorTypeOK, SoloRefresh, NEW o \in Ops, NEW r \in IntegratorOp,
         op' = [op EXCEPT ![o] = r], halting' = halting, Carried(r, disk', latest'),
         Refreshing(o) \/ UNCHANGED <<disk, latest>>,
         r.step \in RefreshWork =>
           \/ Refreshing(o) /\ phase' = phase
           \/ phase' \notin Ends /\ \A p \in Ops \ {o} : ~Refreshing(p),
         \/ phase' = phase /\ (r.kind = "start" => op[o].kind = "start")
         \/ phase' = "up" /\ op[o].kind = "start" /\ r.kind # "start"
         \/ phase = "down" /\ phase' = "starting",
         \A h \in OfferHashes : copies'[h] # "spoilt",
         phase' \in Ends => seeders' = NoSeeders,
         \/ result' = result /\ latest' = latest /\ (op[o].step \in Busy => r.step \in Busy)
         \/ result' = latest' \/ r.step \in Busy,
         latest' # None => OneEach(latest'.topic),
         ~Reseed => seeders' = NoSeeders,
         \A h \in OfferHashes : Accounts(h)'
  PROVE  SoloRefresh'
<1>1. \A p \in Ops : op'[p] = IF p = o THEN r ELSE op[p]
  BY DEF IntegratorTypeOK
<1>2. ASSUME NEW p \in Ops PROVE Carried(op'[p], disk', latest')
  <2>1. CASE p = o
    BY <1>1, <2>1
  <2>2. CASE p # o
    <3>1. op'[p] = op[p] /\ Carried(op[p], disk, latest)
      BY <1>1, <2>2 DEF SoloRefresh
    <3>2. CASE Refreshing(o)
      <4>1. ~Refreshing(p)
        BY <2>2, <3>2 DEF SoloRefresh
      <4> QED
        BY <3>1, <4>1 DEF Carried, Refreshing, Busy, RefreshWork
    <3> QED
      BY <3>1, <3>2
  <2> QED
    BY <2>1, <2>2
<1>3. \A p \in Ops : op'[p].kind = "start" => phase' = "starting"
  BY <1>1 DEF SoloRefresh
<1>4. \A p, q \in Ops : op'[p].kind = "start" /\ op'[q].kind = "start" => p = q
  BY <1>1 DEF SoloRefresh
<1>5. \A p \in Ops : op'[p].step \in RefreshWork => p = o \/ Refreshing(p)
  BY <1>1 DEF Refreshing
<1>6. \A p, q \in Ops : op'[p].step \in RefreshWork /\ op'[q].step \in RefreshWork => p = q
  BY <1>1, <1>5 DEF SoloRefresh, Refreshing
<1>7. phase' \in Ends => \A p \in Ops : op'[p].step \notin RefreshWork
  BY <1>1, <1>5 DEF SoloRefresh, Refreshing, Ends
<1>8. phase' # "stopping" => halting' = NoSeeders
  BY DEF SoloRefresh
<1>9. (\A p \in Ops : op'[p].step \notin Busy) => result' = latest'
  <2>1. op'[o] = r
    BY <1>1
  <2>2. ASSUME \A p \in Ops : op'[p].step \notin Busy, result' = result, latest' = latest,
               op[o].step \in Busy => r.step \in Busy
        PROVE  result' = latest'
    <3>1. \A p \in Ops : op[p].step \notin Busy
      BY <1>1, <2>1, <2>2
    <3> QED
      BY <2>2, <3>1 DEF SoloRefresh
  <2> QED
    BY <2>1, <2>2
<1> QED
  BY <1>2, <1>3, <1>4, <1>6, <1>7, <1>8, <1>9 DEF SoloRefresh, Refreshing

\* A seeder stays accounted for when the activity goes on with what it has to do,
\* and touches no directory but that of the member it is at.
LEMMA AccountsKept ==
  ASSUME IntegratorTypeOK, SoloRefresh, NEW o \in Ops, NEW r, op' = [op EXCEPT ![o] = r],
         latest' = latest, r.todo \subseteq op[o].todo,
         r.member \in {None, op[o].member} \cup op[o].todo,
         NEW h \in OfferHashes, seeders'[h] = seeders[h],
         \/ disk'[h] = disk[h]
         \/ op[o].member # None /\ op[o].step \in Busy /\ h = HashOf(o)
  PROVE  Accounts(h)'
<1> SUFFICES ASSUME seeders[h] > 0 PROVE Accounts(h)'
  BY DEF Accounts
<1>1. PICK g \in latest.topic :
        g.listing.hash = h /\ \A p \in Ops : g \notin op[p].todo /\ g # op[p].member
  BY DEF SoloRefresh, Accounts
<1>2. latest # None /\ OneEach(latest.topic) /\ g \in Gatherable
  BY DEF SoloRefresh, Accounts, IntegratorTypeOK, Result, Topics
<1>3. g # None
  BY <1>2, IntegratorAssumption
<1>4. \A p \in Ops : op'[p] = IF p = o THEN r ELSE op[p]
  BY DEF IntegratorTypeOK
<1>5. \A p \in Ops : g \notin op'[p].todo /\ g # op'[p].member
  BY <1>1, <1>3, <1>4
<1>6. Doubled(h) \/ (seeders[h] = 1 /\ disk[h] = "whole")
  BY DEF SoloRefresh, Accounts
<1>7. Doubled(h) \/ (seeders'[h] = 1 /\ disk'[h] = "whole")
  <2>1. CASE op[o].member # None /\ op[o].step \in Busy /\ h = HashOf(o)
    <3>1. op[o].member \in latest.topic
      BY <2>1 DEF SoloRefresh, Carried
    <3>2. g.member # op[o].member.member
      BY <1>1, <1>2, <3>1 DEF OneEach
    <3> QED
      BY <1>1, <1>2, <2>1, <3>1, <3>2 DEF Doubled, HashOf
  <2> QED
    BY <1>6, <2>1
<1>8. Doubled(h)' = Doubled(h)
  BY DEF Doubled
<1> QED
  BY <1>1, <1>2, <1>5, <1>7, <1>8 DEF Accounts

LEMMA AloneStep == IntegratorInv /\ SoloRefreshInv /\ IntegratorNext => SoloRefreshInv'
<1> SUFFICES ASSUME IntegratorInv, SoloRefreshInv, IntegratorNext, ~overlap' PROVE SoloRefresh'
  BY DEF SoloRefreshInv
<1>0. /\ IntegratorTypeOK /\ phase \in Phases /\ op \in [Ops -> IntegratorOp]
      /\ \A o \in Ops : op[o] \in IntegratorOp
      /\ seeders \in [OfferHashes -> 0 .. MaxSeeders] /\ halting \in [OfferHashes -> 0 .. MaxSeeders]
      /\ disk \in [OfferHashes -> {"none", "partial", "whole"}]
      /\ copies \in [OfferHashes -> {"none", "complete", "spoilt"}]
      /\ offer \in [Members -> Offers \cup {None}]
  BY DEF IntegratorInv, IntegratorTypeOK, ContextTypeOK
<1>1. overlap' = overlap => SoloRefresh
  BY DEF SoloRefreshInv
<1>2. \A h \in OfferHashes : NoSeeders[h] = 0
  BY DEF NoSeeders
<1>3. ASSUME NEW m \in Members, Change(m) PROVE SoloRefresh'
  BY <1>1, <1>3 DEF Change, served, reseeding, history, SoloRefresh, Refreshing, Accounts, Doubled
<1>4. ASSUME NEW o \in Ops, NEW k \in {"start", "tick", "request"}, Begin(o, k),
             UNCHANGED <<result, served, reseeding, halting, latest>>,
             \/ phase' = phase /\ k # "start" /\ phase # "down"
             \/ phase = "down" /\ phase' = "starting"
      PROVE  SoloRefresh'
  <2> DEFINE r == [IntegratorIdle EXCEPT !.step = "load", !.kind = k]
  <2>1. /\ r \in IntegratorOp /\ r.step = "load" /\ r.kind = k /\ r.member = None /\ r.todo = {}
        /\ ~r.disturbed
    BY IntegratorIdleGood DEF IntegratorIdle
  <2>2. op' = [op EXCEPT ![o] = r] /\ overlap' = Overlaps(o, RefreshWork)
    BY <1>4 DEF Begin, SetOp
  <2> HIDE DEF r
  <2>3. ~overlap /\ phase \in {"down", "starting", "up"} /\ \A p \in Ops \ {o} : ~Refreshing(p)
    BY <2>2 DEF Overlaps, Refreshing
  <2>4. SoloRefresh /\ phase' \notin Ends
    BY <1>4, <2>3 DEF SoloRefreshInv, Ends
  <2>5. Carried(r, disk', latest')
    BY <2>1 DEF Carried, Busy, RefreshWork
  <2>6. \A h \in OfferHashes : Accounts(h)'
    BY <1>0, <1>4, <2>1, <2>2, <2>4, AccountsKept DEF reseeding
  <2>7. UNCHANGED <<result, copies, seeders, disk, halting, latest>>
    BY <1>4 DEF served, reseeding
  <2>8. ~Reseed => seeders' = NoSeeders
    BY <2>4, <2>7 DEF SoloRefresh
  <2>9. /\ latest' # None => OneEach(latest'.topic)
        /\ \A h \in OfferHashes : copies'[h] # "spoilt"
    BY <2>4, <2>7 DEF SoloRefresh
  <2>10. r.step \in RefreshWork /\ op[o].step \notin Busy
    BY <1>4, <2>1 DEF Begin, RefreshWork, Busy
  <2> QED
    BY <1>0, <1>4, <2>1, <2>2, <2>3, <2>4, <2>5, <2>6, <2>7, <2>8, <2>9, <2>10, AloneMoves
<1>5. ASSUME NEW o \in Ops, IntegratorStart(o) \/ IntegratorTick(o) \/ IntegratorRequest(o)
      PROVE  SoloRefresh'
  <2>1. PICK k \in {"start", "tick", "request"} :
          /\ Begin(o, k)
          /\ \/ phase' = phase /\ k # "start" /\ phase # "down"
             \/ phase = "down" /\ phase' = "starting"
    BY <1>5 DEF IntegratorStart, IntegratorTick, IntegratorRequest
  <2>2. UNCHANGED <<result, served, reseeding, halting, latest>>
    BY <1>5 DEF IntegratorStart, IntegratorTick, IntegratorRequest
  <2> QED
    BY <1>4, <2>1, <2>2
\* Steps of an activity at work that stays at work.
<1>6. ASSUME NEW o \in Ops, NEW r \in IntegratorOp, op' = [op EXCEPT ![o] = r],
             Refreshing(o), r.step \in Busy, r.kind = op[o].kind,
             Carried(r, disk', latest), UNCHANGED <<phase, halting, latest, overlap>>,
             \A h \in OfferHashes : copies'[h] = copies[h] \/ copies'[h] # "spoilt",
             ~Reseed => seeders' = seeders, \A h \in OfferHashes : Accounts(h)'
      PROVE  SoloRefresh'
  <2>1. SoloRefresh /\ phase \notin Ends
    BY <1>1, <1>6 DEF SoloRefresh
  <2>2. /\ \A h \in OfferHashes : copies'[h] # "spoilt"
        /\ latest' # None => OneEach(latest'.topic)
        /\ ~Reseed => seeders' = NoSeeders
    BY <1>6, <2>1 DEF SoloRefresh
  <2>3. r.step \in RefreshWork
    BY <1>6 DEF Busy
  <2> QED
    BY <1>0, <1>6, <2>1, <2>2, <2>3, AloneMoves
\* ... and that changes no seeder.
<1>7. ASSUME NEW o \in Ops, NEW r \in IntegratorOp, op' = [op EXCEPT ![o] = r],
             op[o].step \in Busy, r.step \in Busy, r.kind = op[o].kind,
             Carried(r, disk', latest), UNCHANGED <<phase, halting, latest, overlap, seeders>>,
             \A h \in OfferHashes : copies'[h] = copies[h] \/ copies'[h] # "spoilt",
             r.todo \subseteq op[o].todo, r.member \in {None, op[o].member} \cup op[o].todo,
             \/ disk' = disk
             \/ op[o].member # None /\ \A h \in OfferHashes \ {HashOf(o)} : disk'[h] = disk[h]
      PROVE  SoloRefresh'
  <2>1. SoloRefresh
    BY <1>1, <1>7
  <2>2. \A h \in OfferHashes : Accounts(h)'
    BY <1>0, <1>7, <2>1, AccountsKept
  <2> QED
    BY <1>6, <1>7, <2>2 DEF Refreshing, Busy
<1>8. ASSUME NEW o \in Ops, op[o].step \in {"download", "read", "seed"}, SoloRefresh
      PROVE  /\ Skipped(o) \in IntegratorOp /\ Skipped(o).step = "drop" /\ Skipped(o).kind = op[o].kind
             /\ Skipped(o).todo = op[o].todo /\ Skipped(o).member = None
             /\ Carried(Skipped(o), disk', latest)
             /\ op[o].member # None /\ op[o].member \in latest.topic /\ op[o].member \notin op[o].todo
             /\ Reseed /\ latest # None /\ HashOf(o) \in OfferHashes /\ op[o].step \in Busy
  <2>1. Carried(op[o], disk, latest) /\ op[o].member # None /\ op[o].step \in Busy
    BY <1>8 DEF SoloRefresh, IntegratorInv, RefreshesGood, GoodRefresh, Busy, RefreshWork
  <2>2. /\ Skipped(o) \in IntegratorOp /\ Skipped(o).step = "drop" /\ Skipped(o).kind = op[o].kind
        /\ Skipped(o).todo = op[o].todo /\ Skipped(o).member = None
        /\ Skipped(o).topic = op[o].topic /\ ~Skipped(o).disturbed
    BY <1>0 DEF Skipped, IntegratorOp
  <2>3. /\ op[o].member \in latest.topic /\ op[o].member \notin op[o].todo /\ Reseed
        /\ latest = [topic |-> op[o].topic] /\ op[o].todo \subseteq op[o].topic
    BY <2>1 DEF Carried
  <2>4. Carried(Skipped(o), disk', latest)
    BY <2>2, <2>3 DEF Carried, Busy, RefreshWork
  <2>5. latest # None
    BY <1>0, <2>3, IntegratorAssumption DEF IntegratorOp
  <2>6. HashOf(o) \in OfferHashes
    BY <1>0, <2>1 DEF HashOf, IntegratorOp, Gatherable, OfferHashes
  <2> QED
    BY <2>1, <2>2, <2>3, <2>4, <2>5, <2>6
<1>9. ASSUME NEW o \in Ops, Load(o) PROVE SoloRefresh'
  <2> DEFINE topic == Gathered
  <2>1. topic \in Topics /\ {g \in topic : g.listing.magnet} \in Topics /\ OneEach(topic)
    BY DEF Gathered, Topics, OneEach, Gatherable
  <2>2. /\ latest' = [topic |-> topic] /\ op[o].step = "load"
        /\ UNCHANGED <<phase, copies, disk, halting, overlap>>
    BY <1>9 DEF Load
  <2>3. SoloRefresh /\ Refreshing(o) /\ phase \notin Ends
    BY <1>1, <2>2 DEF Refreshing, RefreshWork, SoloRefresh
  <2>4. op[o].todo = {} /\ op[o].member = None /\ ~op[o].disturbed
    BY <2>2, <2>3 DEF SoloRefresh, Carried, Busy
  <2>5. latest' # None => OneEach(latest'.topic)
    BY <2>1, <2>2
  <2>6. seeders' = NoSeeders /\ (Reseed \/ result' = latest')
    BY <1>9, <2>2, <2>3 DEF Load, SoloRefresh
  <2>7. \A h \in OfferHashes : Accounts(h)'
    BY <1>2, <2>6 DEF Accounts
  <2>8. \A h \in OfferHashes : copies'[h] # "spoilt"
    BY <2>2, <2>3 DEF SoloRefresh
  <2>9. CASE Reseed
    <3> DEFINE n == {g \in topic : g.listing.magnet}
               r == [op[o] EXCEPT !.step = "drop", !.topic = topic, !.drop = seeders, !.todo = n]
    <3>1. op' = [op EXCEPT ![o] = r]
      BY <1>9, <2>9 DEF Load, SetOp
    <3>2. n \in Topics /\ n \subseteq topic
      BY <2>1
    <3> HIDE DEF n, topic
    <3>3. /\ r \in IntegratorOp /\ r.step = "drop" /\ r.topic = topic /\ r.todo = n
          /\ r.member = None /\ r.kind = op[o].kind /\ ~r.disturbed
      BY <1>0, <2>1, <2>4, <3>2 DEF IntegratorOp
    <3>4. Carried(r, disk', latest')
      BY <2>2, <2>9, <3>2, <3>3 DEF Carried, Busy, RefreshWork
    <3>5. r.step \in RefreshWork /\ r.step \in Busy
      BY <3>3 DEF RefreshWork, Busy
    <3> HIDE DEF r
    <3> QED
      BY <1>0, <2>2, <2>3, <2>5, <2>6, <2>7, <2>8, <3>1, <3>3, <3>4, <3>5, AloneMoves
  <2>10. CASE ~Reseed
    <3> DEFINE r == [op[o] EXCEPT !.step = "announce", !.topic = topic]
    <3>1. op' = [op EXCEPT ![o] = r]
      BY <1>9, <2>10 DEF Load, SetOp
    <3> HIDE DEF topic
    <3>2. /\ r \in IntegratorOp /\ r.step = "announce" /\ r.todo = {}
          /\ r.member = None /\ r.kind = op[o].kind /\ ~r.disturbed
      BY <1>0, <2>1, <2>4 DEF IntegratorOp
    <3>3. Carried(r, disk', latest') /\ r.step \notin RefreshWork
      BY <3>2 DEF Carried, Busy, RefreshWork
    <3> HIDE DEF r
    <3> QED
      BY <1>0, <2>2, <2>3, <2>5, <2>6, <2>7, <2>8, <2>10, <3>1, <3>2, <3>3, AloneMoves
  <2> QED
    BY <2>9, <2>10
<1>10. ASSUME NEW o \in Ops, Drop(o) PROVE SoloRefresh'
  <2>1. PICK h \in OfferHashes : op[o].drop[h] > 0 /\ SetOp(o, [op[o] EXCEPT !.drop[h] = @ - 1])
    BY <1>10 DEF Drop
  <2> DEFINE d == [op[o].drop EXCEPT ![h] = @ - 1]
             r == [op[o] EXCEPT !.drop = d]
  <2>2. d \in [OfferHashes -> 0 .. MaxSeeders]
    BY <1>0, <2>1, SeederCounts DEF IntegratorOp
  <2>3. op' = [op EXCEPT ![o] = r]
    BY <1>0, <2>1 DEF SetOp, IntegratorOp
  <2>4. op[o].step = "drop" /\ UNCHANGED <<phase, copies, seeders, disk, halting, latest, overlap>>
    BY <1>10 DEF Drop, served, reseeding, history
  <2> HIDE DEF d
  <2>5. /\ r \in IntegratorOp /\ r.step = "drop" /\ r.topic = op[o].topic /\ r.todo = op[o].todo
        /\ r.member = op[o].member /\ r.disturbed = op[o].disturbed /\ r.kind = op[o].kind
    BY <1>0, <2>2, <2>4 DEF IntegratorOp
  <2>6. Carried(op[o], disk, latest)
    BY <1>1, <2>4 DEF SoloRefresh
  <2>7. Carried(r, disk', latest)
    BY <2>4, <2>5, <2>6, Zenon DEF Carried
  <2> HIDE DEF r
  <2> QED
    BY <1>7, <2>3, <2>4, <2>5, <2>7 DEF Busy, RefreshWork
<1>11. ASSUME NEW o \in Ops, NextMember(o) PROVE SoloRefresh'
  <2>1. op[o].step = "drop" /\ UNCHANGED <<phase, copies, seeders, disk, halting, latest, overlap>>
    <3>1. /\ op[o].step = "drop"
          /\ UNCHANGED <<offer, phase, served, reseeding, halting, facts, history, changes, faults>>
      BY <1>11, Zenon DEF NextMember
    <3> QED
      BY <3>1 DEF served, reseeding, history
  <2>2. SoloRefresh /\ Carried(op[o], disk, latest) /\ Refreshing(o)
    BY <1>1, <2>1 DEF SoloRefresh, Refreshing, RefreshWork
  <2>3. /\ latest = [topic |-> op[o].topic] /\ op[o].todo \subseteq op[o].topic /\ Reseed
        /\ op[o].member = None /\ ~op[o].disturbed
    BY <2>1, <2>2 DEF Carried, Busy, RefreshWork
  <2>4. CASE op[o].todo = {}
    <3> DEFINE r == [op[o] EXCEPT !.step = "announce"]
    <3>1. op' = [op EXCEPT ![o] = r] /\ result' = latest
      BY <1>11, <2>3, <2>4 DEF NextMember, SetOp
    <3>2. /\ r \in IntegratorOp /\ r.step = "announce" /\ r.todo = {} /\ r.kind = op[o].kind
          /\ r.member = None /\ ~r.disturbed
      BY <1>0, <2>3, <2>4 DEF IntegratorOp
    <3> HIDE DEF r
    <3>3. Carried(r, disk', latest') /\ r.step \notin RefreshWork
      BY <3>2 DEF Carried, Busy, RefreshWork
    <3>4. \A h \in OfferHashes : Accounts(h)'
      BY <1>0, <2>1, <2>2, <2>4, <3>1, <3>2, AccountsKept
    <3>5. /\ \A h \in OfferHashes : copies'[h] # "spoilt"
          /\ latest' # None => OneEach(latest'.topic)
          /\ ~Reseed => seeders' = NoSeeders
          /\ phase' \in Ends => seeders' = NoSeeders
      BY <2>1, <2>2 DEF SoloRefresh
    <3> QED
      BY <1>0, <2>1, <2>2, <3>1, <3>2, <3>3, <3>4, <3>5, AloneMoves
  <2>5. CASE op[o].todo # {}
    <3>1. PICK g \in op[o].todo :
            SetOp(o, [op[o] EXCEPT !.step = "clear", !.member = g, !.todo = @ \ {g}])
      BY <1>11, <2>5, Zenon DEF NextMember
    <3> DEFINE n == op[o].todo \ {g}
               r == [op[o] EXCEPT !.step = "clear", !.member = g, !.todo = n]
    <3>2. n \in Topics /\ g \in Gatherable /\ n \subseteq op[o].todo /\ g \notin n
      BY <1>0 DEF IntegratorOp, Topics
    <3>3. op' = [op EXCEPT ![o] = r]
      BY <3>1 DEF SetOp
    <3> HIDE DEF n
    <3>4. /\ r \in IntegratorOp /\ r.step = "clear" /\ r.topic = op[o].topic /\ r.member = g
          /\ r.todo = n /\ r.kind = op[o].kind /\ ~r.disturbed
      BY <1>0, <2>3, <3>2 DEF IntegratorOp
    <3> HIDE DEF r
    <3>5. Carried(r, disk', latest)
      BY <2>3, <3>2, <3>4 DEF Carried, Busy, RefreshWork
    <3>6. r.todo \subseteq op[o].todo /\ r.member \in {None, op[o].member} \cup op[o].todo
      BY <3>2, <3>4
    <3> QED
      BY <1>7, <2>1, <3>3, <3>4, <3>5, <3>6 DEF Busy, RefreshWork
  <2> QED
    BY <2>4, <2>5
<1>12. ASSUME NEW o \in Ops, Clear(o) PROVE SoloRefresh'
  <2>1. op[o].step = "clear" /\ UNCHANGED <<phase, copies, seeders, halting, latest, overlap>>
    BY <1>12 DEF Clear, served, history
  <2>2. SoloRefresh /\ Carried(op[o], disk, latest) /\ Refreshing(o) /\ op[o].member # None
    BY <1>1, <2>1 DEF SoloRefresh, Refreshing, RefreshWork, IntegratorInv, RefreshesGood, GoodRefresh
  <2> DEFINE r == [op[o] EXCEPT !.step = "download"]
  <2>3. /\ r \in IntegratorOp /\ r.step = "download" /\ r.topic = op[o].topic /\ r.todo = op[o].todo
        /\ r.member = op[o].member /\ r.disturbed = op[o].disturbed /\ r.kind = op[o].kind
    BY <1>0 DEF IntegratorOp
  <2>4. \A p \in Ops \ {o} : ~Shares(p, HashOf(o))
    BY <2>2 DEF SoloRefresh, Refreshing, RefreshWork, Shares
  <2>5. op' = [op EXCEPT ![o] = r]
    BY <1>0, <1>12, <2>4 DEF Clear
  <2>6. \A h \in OfferHashes \ {HashOf(o)} : disk'[h] = disk[h]
    BY <1>0, <1>12 DEF Clear
  <2> HIDE DEF r
  <2>7. Carried(r, disk', latest)
    BY <2>1, <2>2, <2>3 DEF Carried, Busy, RefreshWork
  <2> QED
    BY <1>7, <2>1, <2>2, <2>3, <2>5, <2>6, <2>7 DEF Busy, RefreshWork
<1>13. ASSUME NEW o \in Ops, Download(o) PROVE SoloRefresh'
  <2>1. op[o].step = "download" /\ UNCHANGED <<phase, copies, seeders, halting, latest, overlap>>
    BY <1>13 DEF Download, served, history
  <2>2. SoloRefresh /\ Carried(op[o], disk, latest)
    BY <1>1, <2>1 DEF SoloRefresh
  <2>3. \A h \in OfferHashes \ {HashOf(o)} : disk'[h] = disk[h]
    BY <1>0, <1>13 DEF Download, HashOf
  <2>4. CASE op' = [op EXCEPT ![o] = Skipped(o)]
    BY <1>7, <1>8, <2>1, <2>2, <2>3, <2>4 DEF Busy, RefreshWork
  <2>5. CASE HashMatches(op[o].member.listing) /\ op' = [op EXCEPT ![o] = [op[o] EXCEPT !.step = "read"]]
                /\ op' # [op EXCEPT ![o] = Skipped(o)]
    <3> DEFINE r == [op[o] EXCEPT !.step = "read"]
    <3>1. /\ r \in IntegratorOp /\ r.step = "read" /\ r.topic = op[o].topic /\ r.todo = op[o].todo
          /\ r.member = op[o].member /\ r.disturbed = op[o].disturbed /\ r.kind = op[o].kind
      BY <1>0 DEF IntegratorOp
    <3>2. disk' = [disk EXCEPT ![HashOf(o)] = "whole"]
      BY <1>13, <2>5 DEF Download, HashMatches, HashOf, SetOp
    <3>3. disk'[r.member.listing.hash] = "whole"
      BY <1>0, <1>8, <2>1, <2>2, <3>1, <3>2 DEF HashOf
    <3> HIDE DEF r
    <3>4. Carried(r, disk', latest)
      BY <1>8, <2>1, <2>2, <3>1, <3>3 DEF Carried, Busy, RefreshWork
    <3> QED
      BY <1>7, <1>8, <2>1, <2>2, <2>3, <2>5, <3>1, <3>4 DEF Busy, RefreshWork, r
  <2> QED
    BY <1>13, <2>4, <2>5 DEF Download, SetOp
<1>14. ASSUME NEW o \in Ops, ReadBack(o) PROVE SoloRefresh'
  <2>1. op[o].step = "read" /\ UNCHANGED <<phase, seeders, disk, halting, latest, overlap>>
    BY <1>14 DEF ReadBack, reseeding, history
  <2>2. SoloRefresh /\ Carried(op[o], disk, latest)
    BY <1>1, <2>1 DEF SoloRefresh
  <2>3. disk[HashOf(o)] = "whole"
    BY <2>1, <2>2 DEF Carried, HashOf
  <2> DEFINE r == [op[o] EXCEPT !.step = "seed"]
  <2>4. copies' = [copies EXCEPT ![HashOf(o)] = "complete"] /\ op' = [op EXCEPT ![o] = r]
    BY <1>14, <2>3 DEF ReadBack, SetOp
  <2>5. /\ r \in IntegratorOp /\ r.step = "seed" /\ r.topic = op[o].topic /\ r.todo = op[o].todo
        /\ r.member = op[o].member /\ r.disturbed = op[o].disturbed /\ r.kind = op[o].kind
    BY <1>0 DEF IntegratorOp
  <2> HIDE DEF r
  <2>6. Carried(r, disk', latest)
    BY <2>1, <2>2, <2>5 DEF Carried, Busy, RefreshWork
  <2>7. \A h \in OfferHashes : copies'[h] = copies[h] \/ copies'[h] # "spoilt"
    BY <1>0, <2>4
  <2> QED
    BY <1>7, <1>8, <2>1, <2>2, <2>4, <2>5, <2>6, <2>7 DEF Busy, RefreshWork
<1>15. ASSUME NEW o \in Ops, Seed(o) PROVE SoloRefresh'
  <2>1. /\ op[o].step = "seed" /\ UNCHANGED <<phase, copies, disk, halting, latest, overlap>>
        /\ op' = [op EXCEPT ![o] = Skipped(o)]
    BY <1>15 DEF Seed, served, history, SetOp
  <2>2. SoloRefresh /\ Carried(op[o], disk, latest)
    BY <1>1, <2>1 DEF SoloRefresh
  <2> DEFINE g == op[o].member
  <2>2a. PICK k \in OfferHashes : k = HashOf(o)
    BY <1>8, <2>1, <2>2
  <2>3. disk[k] = "whole" /\ seeders' = [seeders EXCEPT ![k] = @ + 1]
    BY <1>15, <2>1, <2>2, <2>2a DEF Carried, HashOf, Seed
  <2>4. /\ g # None /\ g \in latest.topic /\ g \notin op[o].todo /\ latest # None
        /\ k \in OfferHashes /\ g.listing.hash = k
    BY <1>8, <2>1, <2>2, <2>2a DEF HashOf
  <2>4a. seeders'[k] = seeders[k] + 1 /\ disk'[k] = "whole" /\ latest' = latest
    BY <1>0, <2>1, <2>3, <2>4
  <2>5. \A p \in Ops : op'[p] = IF p = o THEN Skipped(o) ELSE op[p]
    BY <1>0, <2>1
  <2>6. \A p \in Ops \ {o} : op[p].todo = {} /\ op[p].member = None
    <3>1. \A p \in Ops \ {o} : ~Refreshing(p)
      BY <2>1, <2>2 DEF SoloRefresh, Refreshing, RefreshWork
    <3> QED
      BY <2>2, <3>1 DEF SoloRefresh, Carried, Refreshing, Busy
  <2>7. \A p \in Ops : g \notin op'[p].todo /\ g # op'[p].member
    BY <1>8, <2>1, <2>2, <2>4, <2>5, <2>6
  <2>8. Doubled(k)' = Doubled(k)
    BY <2>1 DEF Doubled
  <2>9. Doubled(k) \/ seeders[k] = 0
    <3>1. ASSUME seeders[k] > 0 PROVE Doubled(k)
      <4>1. PICK f \in latest.topic : f.listing.hash = k /\ f # g
        BY <2>2, <2>4, <3>1 DEF SoloRefresh, Accounts
      <4>2. f.member # g.member
        BY <2>2, <2>4, <4>1 DEF SoloRefresh, OneEach
      <4> QED
        BY <2>4, <4>1, <4>2 DEF Doubled
    <3> QED
      BY <1>0, <2>4, <3>1, SeederCounts
  <2>10. Accounts(k)'
    <3>1. Doubled(k)' \/ (seeders'[k] = 1 /\ disk'[k] = "whole")
      BY <2>4a, <2>8, <2>9
    <3> QED
      BY <2>4, <2>4a, <2>7, <3>1 DEF Accounts
  <2>11. ASSUME NEW h \in OfferHashes, h # k PROVE Accounts(h)'
    <3>1. seeders'[h] = seeders[h]
      BY <1>0, <2>3, <2>11
    <3> QED
      BY <1>0, <1>8, <2>1, <2>2, <3>1, AccountsKept
  <2>12. \A h \in OfferHashes : Accounts(h)'
    BY <2>10, <2>11
  <2> QED
    BY <1>6, <1>8, <2>1, <2>2, <2>12 DEF Refreshing, Busy, RefreshWork
<1>16. ASSUME NEW o \in Ops, Fails(o) PROVE SoloRefresh'
  <2>1. /\ op[o].step \in {"download", "seed"} /\ op' = [op EXCEPT ![o] = Skipped(o)]
        /\ UNCHANGED <<phase, copies, seeders, halting, latest, overlap>>
    BY <1>16 DEF Fails, served, history, SetOp
  <2>2. \A h \in OfferHashes \ {HashOf(o)} : disk'[h] = disk[h]
    BY <1>0, <1>16 DEF Fails
  <2> QED
    BY <1>1, <1>7, <1>8, <2>1, <2>2 DEF Busy, RefreshWork
<1>17. ASSUME NEW o \in Ops, IntegratorAnnounce(o) PROVE SoloRefresh'
  <2>1. /\ op[o].step = "announce" /\ op' = [op EXCEPT ![o] = IntegratorIdle]
        /\ phase' = IF op[o].kind = "start" THEN "up" ELSE phase
        /\ UNCHANGED <<result, copies, seeders, disk, halting, latest, overlap>>
    BY <1>17 DEF IntegratorAnnounce, served, reseeding, SetOp
  <2>2. SoloRefresh /\ ~Refreshing(o) /\ op[o].step \notin Busy
    BY <1>1, <2>1 DEF Refreshing, Busy, RefreshWork
  <2>3. /\ IntegratorIdle.step = "idle" /\ IntegratorIdle.kind = "none"
        /\ IntegratorIdle.member = None /\ IntegratorIdle.todo = {} /\ ~IntegratorIdle.disturbed
    BY DEF IntegratorIdle
  <2>4. Carried(IntegratorIdle, disk', latest') /\ IntegratorIdle.step \notin RefreshWork
    BY <2>3 DEF Carried, Busy, RefreshWork
  <2>5. \A h \in OfferHashes : Accounts(h)'
    BY <1>0, <2>1, <2>2, <2>3, AccountsKept
  <2>6. /\ \A h \in OfferHashes : copies'[h] # "spoilt"
        /\ latest' # None => OneEach(latest'.topic)
        /\ ~Reseed => seeders' = NoSeeders
        /\ phase' \in Ends => seeders' = NoSeeders
    BY <2>1, <2>2 DEF SoloRefresh, Ends
  <2> QED
    BY <1>0, <2>1, <2>2, <2>3, <2>4, <2>5, <2>6, IntegratorIdleGood, AloneMoves
<1>18. CASE IntegratorStop
  <2>1. ~overlap /\ \A o \in Ops : ~Refreshing(o)
    BY <1>18 DEF IntegratorStop, StopOverlaps, Refreshing
  <2>2. SoloRefresh
    BY <2>1 DEF SoloRefreshInv
  <2>3. \A h \in OfferHashes : Accounts(h)'
    BY <1>2, <1>18 DEF IntegratorStop, Accounts
  <2> QED
    BY <1>18, <2>1, <2>2, <2>3 DEF IntegratorStop, served, SoloRefresh, Refreshing, Ends
<1>19. CASE IntegratorStopSeeder \/ IntegratorCloses
  <2>1. /\ UNCHANGED <<result, served, reseeding, op, history>>
        /\ phase \in Ends /\ phase' \in {"stopping", "closing", "stopped"}
        /\ phase' # "stopping" => halting' = NoSeeders \/ (halting' = halting /\ phase # "stopping")
    BY <1>19 DEF IntegratorStopSeeder, IntegratorCloses, ServerCloses, Ends
  <2>2. SoloRefresh
    BY <1>1, <2>1 DEF history
  <2> QED
    BY <2>1, <2>2
       DEF SoloRefresh, Refreshing, Ends, Accounts, Doubled, served, reseeding, history
<1>20. CASE IntegratorExit \/ IntegratorDies
  BY <1>20, AloneGone DEF IntegratorExit, IntegratorDies, IntegratorGone
<1>21. ASSUME NEW o \in Ops, LoadFails(o) PROVE SoloRefresh'
  <2>1. CASE op[o].kind = "start"
    BY <1>21, <2>1, AloneGone DEF LoadFails
  <2>2. CASE op[o].kind # "start"
    <3>1. /\ op[o].step = "load" /\ op' = [op EXCEPT ![o] = IntegratorIdle]
          /\ UNCHANGED <<phase, result, copies, seeders, disk, halting, latest, overlap>>
      BY <1>21, <2>2 DEF LoadFails, served, reseeding, history, SetOp
    <3>2. SoloRefresh /\ op[o].step \notin Busy
      BY <1>1, <3>1 DEF Busy
    <3>3. /\ IntegratorIdle.step = "idle" /\ IntegratorIdle.kind = "none"
          /\ IntegratorIdle.member = None /\ IntegratorIdle.todo = {} /\ ~IntegratorIdle.disturbed
      BY DEF IntegratorIdle
    <3>4. Carried(IntegratorIdle, disk', latest') /\ IntegratorIdle.step \notin RefreshWork
      BY <3>3 DEF Carried, Busy, RefreshWork
    <3>5. \A h \in OfferHashes : Accounts(h)'
      BY <1>0, <3>1, <3>2, <3>3, AccountsKept
    <3>6. /\ \A h \in OfferHashes : copies'[h] # "spoilt"
          /\ latest' # None => OneEach(latest'.topic)
          /\ ~Reseed => seeders' = NoSeeders
          /\ phase' \in Ends => seeders' = NoSeeders
      BY <3>1, <3>2 DEF SoloRefresh, Ends
    <3> QED
      BY <1>0, <3>1, <3>2, <3>3, <3>4, <3>5, <3>6, IntegratorIdleGood, AloneMoves
  <2> QED
    BY <2>1, <2>2
<1> QED
  BY <1>21, <1>3, <1>5, <1>9, <1>10, <1>11, <1>12, <1>13, <1>14, <1>15, <1>16, <1>17, <1>18, <1>19, <1>20
     DEF IntegratorNext

-------------------------------------------------------------------------------
(* The indexer *)

\* A listing in memory or in the state file has its fact file, and memory keeps
\* what the state file holds.
ListedStored ==
  /\ phase = "up" => \A l \in Listings : index.listed[l] # None => facts[l] = index.listed[l]
  /\ file # Torn => \A l \in Listings : file.listed[l] # None => facts[l] = file.listed[l]
  /\ phase = "up" /\ file # Torn =>
       \A l \in Listings : file.listed[l] # None => index.listed[l] = file.listed[l]

IndexerInv == IndexerTypeOK /\ ListedStored /\ SavedStays

LEMMA StateFacts ==
  /\ Empty \in StateData /\ Torn \notin StateData
  /\ \A l \in Listings : Empty.listed[l] = None
<1>1. Empty \in StateData
  <2> DEFINE cards == (UNION {Manifest[h] : h \in Hashes}) \cup {None}
             tags == (Tags \ {Malformed}) \cup {NoTags, Unknown}
  <2>1. None \in cards /\ Unknown \in tags
    OBVIOUS
  <2>2. StateData = [listed : [Listings -> Envelope \cup {None}], card : [Hashes -> cards],
                     tags : [Hashes -> tags]]
    BY DEF StateData
  <2> HIDE DEF cards, tags
  <2> QED
    BY <2>1, <2>2 DEF Empty
<1>2. Torn \notin StateData
  <2>1. \A s \in StateData : "listed" \in DOMAIN s
    BY DEF StateData
  <2>2. "listed" \notin DOMAIN Torn
    BY DEF Torn
  <2> QED
    BY <2>1, <2>2
<1> QED
  BY <1>1, <1>2 DEF Empty

LEMMA AnnouncementFacts ==
  ASSUME NEW m \in Announcements
  PROVE  /\ m.file \in Envelope /\ m.file # None /\ m.file.listing \in Listings
         /\ m.file.listing.hash \in Hashes
         /\ Wrapped(m) => m.agent \in Agents /\ m.key \in Keys
  BY ListingsAssumption DEF Envelope, Wrapped

LEMMA RingFacts ==
  ASSUME IndexerTypeOK
  PROVE  /\ ReloadedRing \in [Agents -> Keys \cup {None}]
         /\ \A m \in Announcements : PinnedRing(m) \in [Agents -> Keys \cup {None}]
<1>1. ReloadedRing \in [Agents -> Keys \cup {None}]
  BY DEF IndexerTypeOK, ReloadedRing, Trust
<1> QED
  BY <1>1, AnnouncementFacts DEF PinnedRing

LEMMA EnvelopeFacts == \A n \in Envelope : n.listing \in Listings /\ n # None
  BY ListingsAssumption DEF Envelope

\* What an admitted announcement makes of the state.
LEMMA UpdatedFacts ==
  ASSUME IndexerTypeOK, NEW m \in Announcements, Admitted(m)
  PROVE  /\ WithListing(m) \in StateData /\ Updated(m) \in StateData
         /\ WithListing(m).listed = [index.listed EXCEPT ![m.file.listing] = m.file]
         /\ Updated(m).listed = [index.listed EXCEPT ![m.file.listing] = m.file]
<1>1. index \in StateData
  BY DEF IndexerTypeOK
<1>2. /\ WithListing(m) \in StateData
      /\ WithListing(m).listed = [index.listed EXCEPT ![m.file.listing] = m.file]
  BY <1>1, AnnouncementFacts DEF WithListing, StateData
<1>3. CASE Wrapped(m)
  <2> DEFINE j == m.card.json
             h == m.card.hash
             s == WithListing(m)
  <2>1. h \in Hashes /\ j \in Manifest[h] /\ j[2] # Malformed
    BY <1>3, AnnouncementFacts DEF Admitted, Verifies, CardVerifies
  <2>2. j \in UNION {Manifest[x] : x \in Hashes} /\ j[2] \in Tags \ {Malformed}
    BY <2>1, ListingsAssumption
  <2>3. Updated(m) = [s EXCEPT !.card[h] = j, !.tags[h] = j[2]]
    BY <1>3 DEF Updated, WithCard
  <2> DEFINE t == j[2]
  <2> HIDE DEF j, h, s, t
  <2>4. \A x \in StateData : LET y == [x EXCEPT !.card[h] = j, !.tags[h] = t] IN
                             y \in StateData /\ y.listed = x.listed
    BY <2>1, <2>2 DEF StateData, t
  <2> QED
    BY <1>2, <2>3, <2>4, ZenonT(40) DEF s, t
<1>4. CASE ~Wrapped(m)
  BY <1>2, <1>4 DEF Updated, WithCard
<1> QED
  BY <1>2, <1>3, <1>4

\* A request ends in one of these ways as far as listings are concerned.
LEMMA ListingsKept ==
  ASSUME IndexerInv, UNCHANGED <<facts, file, saved>>, phase' # "up"
  PROVE  ListedStored' /\ SavedStays'
  BY DEF IndexerInv, ListedStored, SavedStays

LEMMA IndexerStep == IndexerInv /\ IndexerNext => IndexerInv'
<1> SUFFICES ASSUME IndexerInv, IndexerNext PROVE IndexerInv'
  OBVIOUS
<1>0. /\ role' = role /\ op' = op /\ overlap' = overlap
      /\ Fault => faults' \in 0 .. MaxFaults
      /\ Changed => changes' \in 0 .. MaxChanges
      /\ phase \in Phases /\ overlap \in BOOLEAN /\ changes \in 0 .. MaxChanges
      /\ faults \in 0 .. MaxFaults /\ role = "indexer" /\ op = NoRequests
      /\ ring \in [Agents -> Keys \cup {None}] /\ indexRing \in [Agents -> Keys \cup {None}]
      /\ keyFiles \in [Agents -> Keys \cup {None, Torn}]
      /\ peerFiles \in [Agents -> Keys \cup {None, Torn}]
      /\ facts \in [Listings -> Envelope \cup {None}]
      /\ index \in StateData /\ file \in StateData \cup {Torn}
      /\ stored \subseteq Hashes /\ accepted \subseteq Envelope /\ saved \subseteq Envelope
      /\ rekeyed \subseteq Agents /\ renewed \subseteq Agents
      /\ IndexerTypeOK
  BY StationAssumption
     DEF IndexerNext, Fault, Changed, IndexerInv, IndexerTypeOK, ContextTypeOK
<1>1. IndexerGone => /\ phase' = "down" /\ phase' \in Phases /\ index' \in StateData
                     /\ ring' \in [Agents -> Keys \cup {None}]
                     /\ indexRing' \in [Agents -> Keys \cup {None}]
  BY StateFacts DEF IndexerGone, NoKeys, Phases
<1>2. CASE IndexerStart
  <2>1. LoadedRing \in [Agents -> Keys \cup {None}]
    BY <1>0, <1>2 DEF IndexerStart, LoadedRing
  <2>2. /\ ring' \in [Agents -> Keys \cup {None}] /\ indexRing' = ring'
        /\ keyFiles' \in [Agents -> Keys \cup {None, Torn}] /\ phase' = "up" /\ phase' \in Phases
        /\ index' = (IF file = Torn THEN Empty ELSE file)
        /\ UNCHANGED <<peerFiles, rekeyed, facts, file, stored, answers, changes, faults>>
        /\ renewed' \subseteq Agents
    BY <1>0, <1>2, <2>1, ListingsAssumption DEF IndexerStart, Phases
  <2>3. index' \in StateData
    BY <1>0, <2>2, StateFacts
  <2>4. IndexerTypeOK'
    BY <1>0, <2>2, <2>3 DEF answers, IndexerTypeOK, ContextTypeOK
  <2>5. ListedStored'
    BY <2>2, StateFacts DEF IndexerInv, ListedStored
  <2>6. SavedStays'
    BY <2>2 DEF answers, IndexerInv, SavedStays
  <2> QED
    BY <2>4, <2>5, <2>6 DEF IndexerInv
<1>3. CASE IndexerStop
  <2>1. IndexerTypeOK'
    BY <1>0, <1>1, <1>3 DEF IndexerStop, answers, IndexerTypeOK, ContextTypeOK
  <2> QED
    BY <1>1, <1>3, <2>1, ListingsKept DEF IndexerStop, answers, IndexerInv
<1>4. ASSUME NEW a \in Agents, NEW k \in Keys, Provision(a, k) PROVE IndexerInv'
  <2>1. /\ keyFiles' \in [Agents -> Keys \cup {None, Torn}]
        /\ peerFiles' \in [Agents -> Keys \cup {None, Torn}] /\ rekeyed' \subseteq Agents
    BY <1>0, <1>4 DEF Provision
  <2>2. IndexerTypeOK'
    BY <1>0, <1>4, <2>1 DEF Provision, catalogs, answers, IndexerTypeOK, ContextTypeOK
  <2> QED
    BY <1>4, <2>2 DEF Provision, catalogs, answers, IndexerInv, ListedStored, SavedStays
<1>5. ASSUME NEW m \in Announcements, Receive(m) PROVE IndexerInv'
  <2> DEFINE l == m.file.listing
  <2>1. l \in Listings /\ m.file \in Envelope /\ m.file # None
    BY AnnouncementFacts
  <2>2. Admitted(m) => /\ Updated(m) \in StateData
                       /\ Updated(m).listed = [index.listed EXCEPT ![l] = m.file]
    BY <1>0, UpdatedFacts
  <2>3. index' \in StateData /\ file' \in StateData \cup {Torn}
    BY <1>0, <1>5, <2>2 DEF Receive, Persists
  <2>4. /\ facts' \in [Listings -> Envelope \cup {None}]
        /\ saved' \subseteq Envelope /\ accepted' \subseteq Envelope
    BY <1>0, <1>5, <2>1 DEF Receive
  <2>5. /\ ring' \in [Agents -> Keys \cup {None}] /\ indexRing' \in [Agents -> Keys \cup {None}]
        /\ peerFiles' \in [Agents -> Keys \cup {None, Torn}]
    BY <1>0, <1>5, RingFacts, AnnouncementFacts DEF Receive, Pin
  <2>6. IndexerTypeOK'
    BY <1>0, <1>5, <2>3, <2>4, <2>5 DEF Receive, IndexerTypeOK, ContextTypeOK
  <2>7. index.listed \in [Listings -> Envelope \cup {None}]
    BY <1>0 DEF StateData
  <2>8. CASE Admitted(m)
    <3>1. index'.listed = [index.listed EXCEPT ![l] = m.file] /\ phase = "up" /\ phase' = "up"
      BY <1>5, <2>2, <2>8 DEF Receive
    <3>2. index.listed[l] \in {None, m.file}
      BY <2>8 DEF Admitted, Existing
    <3>3. facts'[l] = m.file /\ \A x \in Listings \ {l} : facts'[x] = facts[x]
      BY <1>0, <1>5, <2>1, <2>8, <3>1, <3>2 DEF Receive, PutObject, Existing, IndexerInv, ListedStored
    <3>4. index'.listed[l] = m.file /\ \A x \in Listings \ {l} : index'.listed[x] = index.listed[x]
      BY <2>1, <2>7, <3>1
    <3>5. file' = index' \/ (file' = file /\ index.listed[l] = m.file)
      BY <1>5, <2>8, <3>2 DEF Receive, Persists, Existing
    <3>6. ListedStored'
      BY <3>1, <3>3, <3>4, <3>5 DEF IndexerInv, ListedStored
    <3>7. \A n \in saved : n.listing \in Listings /\ n # None /\ (n.listing # l \/ n = m.file)
      BY <1>0, <3>1, <3>2, EnvelopeFacts DEF IndexerInv, SavedStays
    <3>8. saved' = saved \/ (saved' = saved \cup {m.file} /\ file' = index')
      BY <1>5 DEF Receive
    <3>9. SavedStays'
      <4> SUFFICES ASSUME NEW n \in saved' PROVE
                     /\ facts'[n.listing] = n /\ file' # Torn
                     /\ file'.listed[n.listing] = n
                     /\ index'.listed[n.listing] = n
        BY DEF SavedStays
      <4>1. file' = index' => file' # Torn
        BY <2>3, StateFacts
      <4>2. CASE n = m.file /\ n \notin saved
        BY <3>3, <3>4, <3>8, <4>1, <4>2
      <4>3. CASE n \in saved
        <5>1. n.listing \in Listings
          BY <3>7, <4>3
        <5>2. /\ facts[n.listing] = n /\ file # Torn
              /\ file.listed[n.listing] = n /\ index.listed[n.listing] = n
          BY <3>1, <4>3 DEF IndexerInv, SavedStays
        <5> QED
          BY <3>3, <3>4, <3>5, <3>7, <4>1, <4>3, <5>1, <5>2
      <4> QED
        BY <3>8, <4>2, <4>3
    <3> QED
      BY <2>6, <3>6, <3>9 DEF IndexerInv
  <2>9. CASE ~Admitted(m)
    <3>1. UNCHANGED <<phase, facts, index, file, saved>>
      BY <1>5, <2>9 DEF Receive, PutObject, Persists
    <3> QED
      BY <2>6, <3>1 DEF IndexerInv, ListedStored, SavedStays
  <2> QED
    BY <2>8, <2>9
<1>6. ASSUME NEW m \in Announcements, ReceiveUnsaved(m) PROVE IndexerInv'
  <2> DEFINE l == m.file.listing
  <2>1. l \in Listings /\ m.file \in Envelope /\ m.file # None
    BY AnnouncementFacts
  <2>2. Admitted(m) /\ index.listed[l] \in {None, m.file} /\ phase = "up" /\ phase' = "up"
    BY <1>6 DEF ReceiveUnsaved, Persists, Admitted, Existing
  <2>3. /\ WithListing(m) \in StateData /\ Updated(m) \in StateData
        /\ WithListing(m).listed = [index.listed EXCEPT ![l] = m.file]
        /\ Updated(m).listed = [index.listed EXCEPT ![l] = m.file]
    BY <1>0, <2>2, UpdatedFacts
  <2>4. /\ index' \in StateData /\ index'.listed = [index.listed EXCEPT ![l] = m.file]
        /\ \/ file' = Torn /\ saved' = {}
           \/ file' = file /\ saved' = saved
           \/ file' = WithListing(m) /\ saved' = saved
    BY <1>6, <2>3, StateFacts DEF ReceiveUnsaved
  <2>5. file' \in StateData \cup {Torn} /\ saved' \subseteq Envelope
    BY <1>0, <2>3, <2>4
  <2>6. facts' \in [Listings -> Envelope \cup {None}]
    BY <1>0, <1>6, <2>1 DEF ReceiveUnsaved
  <2>7. /\ ring' \in [Agents -> Keys \cup {None}] /\ indexRing' \in [Agents -> Keys \cup {None}]
        /\ peerFiles' \in [Agents -> Keys \cup {None, Torn}]
    BY <1>0, <1>6, RingFacts, AnnouncementFacts DEF ReceiveUnsaved, Pin
  <2>8. IndexerTypeOK'
    BY <1>0, <1>6, <2>4, <2>5, <2>6, <2>7 DEF ReceiveUnsaved, IndexerTypeOK, ContextTypeOK
  <2>9. index.listed \in [Listings -> Envelope \cup {None}]
    BY <1>0 DEF StateData
  <2>10. facts'[l] = m.file /\ \A x \in Listings \ {l} : facts'[x] = facts[x]
    BY <1>0, <1>6, <2>1, <2>2 DEF ReceiveUnsaved, PutObject, Existing, IndexerInv, ListedStored
  <2>11. index'.listed[l] = m.file /\ \A x \in Listings \ {l} : index'.listed[x] = index.listed[x]
    BY <2>1, <2>4, <2>9
  <2>12. WithListing(m).listed[l] = m.file
         /\ \A x \in Listings \ {l} : WithListing(m).listed[x] = index.listed[x]
    BY <2>1, <2>3, <2>9
  <2>13. file # Torn => file.listed[l] \in {None, m.file}
    BY <2>1, <2>2 DEF IndexerInv, ListedStored
  <2>14. ListedStored'
    BY <2>2, <2>4, <2>10, <2>11, <2>12, <2>13 DEF IndexerInv, ListedStored
  <2>15. SavedStays'
    <3> SUFFICES ASSUME NEW n \in saved', file' # Torn, saved' = saved
                 PROVE /\ facts'[n.listing] = n
                       /\ file'.listed[n.listing] = n
                       /\ index'.listed[n.listing] = n
      BY <2>3, <2>4, StateFacts DEF IndexerInv, SavedStays
    <3>1. n.listing \in Listings /\ n # None
      BY <1>0, EnvelopeFacts
    <3>2. /\ facts[n.listing] = n /\ file.listed[n.listing] = n
          /\ index.listed[n.listing] = n
      BY <2>2 DEF IndexerInv, SavedStays
    <3> QED
      BY <2>2, <2>4, <2>10, <2>11, <2>12, <3>1, <3>2
  <2> QED
    BY <2>8, <2>14, <2>15 DEF IndexerInv
<1>7. ASSUME NEW m \in Announcements, ReceiveDies(m) PROVE IndexerInv'
  <2> DEFINE l == m.file.listing
  <2>1. l \in Listings /\ m.file \in Envelope /\ m.file # None
    BY AnnouncementFacts
  <2>2. phase = "up" /\ IndexerGone /\ UNCHANGED <<stored, renewed, accepted, changes>> /\ faults' \in 0 .. MaxFaults
    BY <1>0, <1>7 DEF ReceiveDies
  <2>3. /\ keyFiles' \in [Agents -> Keys \cup {None, Torn}]
        /\ peerFiles' \in [Agents -> Keys \cup {None, Torn}] /\ rekeyed' \subseteq Agents
    BY <1>0, <1>7, AnnouncementFacts DEF ReceiveDies
  <2>4. \/ UNCHANGED <<facts, file, saved>>
        \/ /\ PutObject(m) /\ facts' = [facts EXCEPT ![l] = m.file]
           /\ \/ UNCHANGED <<file, saved>>
              \/ file' = WithListing(m) /\ saved' = saved
              \/ file' = Torn /\ saved' = {}
        \/ file' = Torn /\ saved' = {} /\ facts' = facts
    BY <1>7 DEF ReceiveDies
  <2>5. CASE UNCHANGED <<facts, file, saved>>
    <3>1. IndexerTypeOK'
      BY <1>0, <1>1, <2>2, <2>3, <2>5 DEF IndexerTypeOK, ContextTypeOK
    <3> QED
      BY <1>1, <2>2, <2>5, <3>1, ListingsKept DEF IndexerInv
  <2>6. CASE file' = Torn /\ saved' = {} /\ facts' \in [Listings -> Envelope \cup {None}]
    <3>1. IndexerTypeOK'
      BY <1>0, <1>1, <2>2, <2>3, <2>6 DEF IndexerTypeOK, ContextTypeOK
    <3> QED
      BY <1>1, <2>2, <2>6, <3>1 DEF IndexerInv, ListedStored, SavedStays
  <2>7. CASE /\ PutObject(m) /\ facts' = [facts EXCEPT ![l] = m.file] /\ saved' = saved
             /\ file' = file \/ file' = WithListing(m)
    <3>1. Admitted(m) /\ index.listed[l] = None
      BY <2>7 DEF PutObject, Existing
    <3>2. /\ WithListing(m) \in StateData
          /\ WithListing(m).listed = [index.listed EXCEPT ![l] = m.file]
      BY <1>0, <3>1, UpdatedFacts
    <3>3. index.listed \in [Listings -> Envelope \cup {None}]
      BY <1>0 DEF StateData
    <3>4. WithListing(m).listed[l] = m.file
          /\ \A x \in Listings \ {l} : WithListing(m).listed[x] = index.listed[x]
      BY <2>1, <3>2, <3>3
    <3>5. facts'[l] = m.file /\ \A x \in Listings \ {l} : facts'[x] = facts[x]
      BY <1>0, <2>1, <2>7
    <3>6. facts' \in [Listings -> Envelope \cup {None}]
      BY <1>0, <2>1, <2>7
    <3>7. IndexerTypeOK'
      BY <1>0, <1>1, <2>2, <2>3, <2>7, <3>2, <3>6 DEF IndexerTypeOK, ContextTypeOK
    <3>8. file # Torn => file.listed[l] = None
      BY <2>1, <2>2, <3>1 DEF IndexerInv, ListedStored
    <3>9. ListedStored'
      BY <1>1, <2>2, <2>7, <3>4, <3>5, <3>8 DEF IndexerInv, ListedStored
    <3>10. SavedStays'
      <4> SUFFICES ASSUME NEW n \in saved
                   PROVE /\ facts'[n.listing] = n /\ file' # Torn
                         /\ file'.listed[n.listing] = n
        BY <1>1, <2>2, <2>7 DEF SavedStays
      <4>1. n.listing \in Listings /\ n # None
        BY <1>0, EnvelopeFacts
      <4>2. /\ facts[n.listing] = n /\ file # Torn
            /\ file.listed[n.listing] = n /\ index.listed[n.listing] = n
        BY <2>2 DEF IndexerInv, SavedStays
      <4>3. n.listing # l
        BY <3>1, <4>1, <4>2
      <4> QED
        BY <2>7, <3>2, <3>4, <3>5, <4>1, <4>2, <4>3, StateFacts
    <3> QED
      BY <3>7, <3>9, <3>10 DEF IndexerInv
  <2>8. [facts EXCEPT ![l] = m.file] \in [Listings -> Envelope \cup {None}]
    BY <1>0, <2>1
  <2> QED
    BY <1>0, <2>4, <2>5, <2>6, <2>7, <2>8
<1>8. ASSUME NEW h \in Hashes, ReceiveArchive(h) PROVE IndexerInv'
  <2>0. PICK extra \in SUBSET Unlisted : \E t \in ExtractedTags(h, extra) :
          index' = [index EXCEPT !.tags[h] = t] /\ file' = index'
    BY <1>8 DEF ReceiveArchive
  <2>1. PICK t \in ExtractedTags(h, extra) :
          index' = [index EXCEPT !.tags[h] = t] /\ file' = index'
    BY <2>0
  <2>2. t \in (Tags \ {Malformed}) \cup {NoTags, Unknown}
    BY <2>1, ListingsAssumption DEF ExtractedTags, ArchivedTags
  <2>3. index' \in StateData /\ index'.listed = index.listed
    BY <1>0, <2>1, <2>2 DEF StateData
  <2>4. /\ phase = "up" /\ stored' \subseteq Hashes
        /\ UNCHANGED <<phase, keys, facts, answers, changes, faults>>
    BY <1>0, <1>8 DEF ReceiveArchive
  <2>5. IndexerTypeOK'
    BY <1>0, <2>1, <2>3, <2>4 DEF keys, answers, IndexerTypeOK, ContextTypeOK
  <2>6. file' # Torn /\ file'.listed = index.listed
    BY <2>1, <2>3, StateFacts
  <2>7. ListedStored' /\ SavedStays'
    BY <2>3, <2>4, <2>6 DEF answers, IndexerInv, ListedStored, SavedStays
  <2> QED
    BY <2>5, <2>7 DEF IndexerInv
<1>9. ASSUME NEW h \in Hashes, ReceiveArchiveDies(h) PROVE IndexerInv'
  <2>1. /\ IndexerGone /\ stored' \subseteq Hashes /\ faults' \in 0 .. MaxFaults
        /\ UNCHANGED <<keyFiles, peerFiles, rekeyed, renewed, facts, accepted, changes>>
        /\ (file' = file /\ saved' = saved) \/ (file' = Torn /\ saved' = {})
    BY <1>0, <1>9 DEF ReceiveArchiveDies
  <2>2. IndexerTypeOK'
    BY <1>0, <1>1, <2>1 DEF IndexerTypeOK, ContextTypeOK
  <2>3. ListedStored' /\ SavedStays'
    BY <1>1, <2>1 DEF IndexerInv, ListedStored, SavedStays
  <2> QED
    BY <2>2, <2>3 DEF IndexerInv
<1> QED
  BY <1>2, <1>3, <1>4, <1>5, <1>6, <1>7, <1>8, <1>9 DEF IndexerNext

-------------------------------------------------------------------------------
(* The indexer's search *)

\* What a state says of catalogs: cards are in the manifest, and tags come with the
\* card they are of, or with an archive.
CardsAgree(s, archived) ==
  \A h \in Hashes :
    /\ s.card[h] # None => s.card[h] \in Manifest[h]
    /\ s.tags[h] \notin {Unknown, NoTags} =>
         \/ s.card[h] # None /\ s.tags[h] = s.card[h][2]
         \/ h \in archived /\ s.tags[h] \in {j[2] : j \in Manifest[h]} \cup Unlisted

CardsInv == CardsAgree(index, stored) /\ (file # Torn => CardsAgree(file, stored))

LEMMA CardsKept ==
  ASSUME IndexerTypeOK, CardsAgree(index, stored), NEW m \in Announcements, Admitted(m)
  PROVE  CardsAgree(WithListing(m), stored) /\ CardsAgree(Updated(m), stored)
<1>1. index \in StateData
  BY DEF IndexerTypeOK
<1>2. WithListing(m).card = index.card /\ WithListing(m).tags = index.tags /\ WithListing(m) \in StateData
  BY <1>1, AnnouncementFacts DEF WithListing, StateData
<1>3. CardsAgree(WithListing(m), stored)
  BY <1>2 DEF CardsAgree
<1>4. CASE Wrapped(m)
  <2> DEFINE j == m.card.json
             k == m.card.hash
             t == j[2]
             s == WithListing(m)
  <2>1. k \in Hashes /\ j \in Manifest[k] /\ j # None
    BY <1>4, AnnouncementFacts, ListingsAssumption DEF Admitted, Verifies, CardVerifies
  <2>2. Updated(m) = [s EXCEPT !.card[k] = j, !.tags[k] = t]
    BY <1>4 DEF Updated, WithCard
  <2>3. s \in StateData
    BY <1>2
  <2> HIDE DEF j, k, s, t
  <2>4. \A h \in Hashes : /\ Updated(m).card[h] = IF h = k THEN j ELSE s.card[h]
                          /\ Updated(m).tags[h] = IF h = k THEN t ELSE s.tags[h]
    BY <2>1, <2>2, <2>3 DEF StateData
  <2> USE DEF j, k, s, t
  <2> QED
    BY <1>3, <2>1, <2>4 DEF CardsAgree
<1>5. CASE ~Wrapped(m)
  BY <1>3, <1>5 DEF Updated, WithCard
<1> QED
  BY <1>3, <1>4, <1>5

LEMMA CardsStep == IndexerInv /\ CardsInv /\ IndexerNext => CardsInv'
<1> SUFFICES ASSUME IndexerInv, CardsInv, IndexerNext PROVE CardsInv'
  OBVIOUS
<1>0. IndexerTypeOK /\ index \in StateData
  BY DEF IndexerInv, IndexerTypeOK
<1>1. CardsAgree(Empty, stored')
  BY DEF Empty, CardsAgree
<1>2. CASE IndexerStart
  BY <1>1, <1>2 DEF IndexerStart, CardsInv
<1>3. CASE IndexerStop
  BY <1>1, <1>3 DEF IndexerStop, IndexerGone, CardsInv
<1>4. ASSUME NEW a \in Agents, NEW k \in Keys, Provision(a, k) PROVE CardsInv'
  BY <1>4 DEF Provision, catalogs, CardsInv
<1>5. ASSUME NEW m \in Announcements, Receive(m) PROVE CardsInv'
  <2>1. stored' = stored
    BY <1>5 DEF Receive
  <2>2. index' = IF Admitted(m) THEN Updated(m) ELSE index
    BY <1>5 DEF Receive
  <2>3. file' = IF Persists(m) THEN Updated(m) ELSE file
    BY <1>5 DEF Receive
  <2>4. Persists(m) => Admitted(m)
    BY DEF Persists
  <2>5. Admitted(m) => CardsAgree(Updated(m), stored)
    BY <1>0, CardsKept DEF CardsInv
  <2> QED
    BY <2>1, <2>2, <2>3, <2>4, <2>5, Zenon DEF CardsInv
<1>6. ASSUME NEW m \in Announcements, ReceiveUnsaved(m) PROVE CardsInv'
  <2>1. Admitted(m) /\ stored' = stored
    BY <1>6 DEF ReceiveUnsaved, Persists
  <2>2. CardsAgree(WithListing(m), stored) /\ CardsAgree(Updated(m), stored)
    BY <1>0, <2>1, CardsKept DEF CardsInv
  <2>3. index' \in {WithListing(m), Updated(m)} /\ file' \in {file, Torn, WithListing(m)}
    BY <1>6 DEF ReceiveUnsaved
  <2> QED
    BY <2>1, <2>2, <2>3, Zenon DEF CardsInv
<1>7. ASSUME NEW m \in Announcements, ReceiveDies(m) PROVE CardsInv'
  <2>1. index' = Empty /\ stored' = stored
    BY <1>7 DEF ReceiveDies, IndexerGone
  <2>2. file' \in {file, Torn} \/ (Admitted(m) /\ file' = WithListing(m))
    BY <1>7 DEF ReceiveDies, PutObject
  <2>3. Admitted(m) => CardsAgree(WithListing(m), stored)
    BY <1>0, CardsKept DEF CardsInv
  <2> QED
    BY <1>1, <2>1, <2>2, <2>3, Zenon DEF CardsInv
<1>8. ASSUME NEW h \in Hashes, ReceiveArchive(h) PROVE CardsInv'
  <2>1. PICK extra \in SUBSET Unlisted : \E t \in ExtractedTags(h, extra) :
          index' = [index EXCEPT !.tags[h] = t] /\ file' = index'
    BY <1>8 DEF ReceiveArchive
  <2>2. PICK t \in ExtractedTags(h, extra) : index' = [index EXCEPT !.tags[h] = t] /\ file' = index'
    BY <2>1
  <2>3. index'.card = index.card /\ \A x \in Hashes : index'.tags[x] = IF x = h THEN t ELSE index.tags[x]
    BY <1>0, <2>2 DEF StateData
  <2>4. stored' = stored \cup {h}
    BY <1>8 DEF ReceiveArchive
  <2>a. t # NoTags => t \in {j[2] : j \in Manifest[h]} \cup Unlisted
    BY <2>2 DEF ExtractedTags, ArchivedTags
  <2>5. CardsAgree(index', stored')
    BY <2>3, <2>4, <2>a DEF CardsInv, CardsAgree
  <2> QED
    BY <2>2, <2>5 DEF CardsInv
<1>9. ASSUME NEW h \in Hashes, ReceiveArchiveDies(h) PROVE CardsInv'
  <2>1. index' = Empty /\ stored' = stored \cup {h} /\ file' \in {file, Torn}
    BY <1>9 DEF ReceiveArchiveDies, IndexerGone
  <2>2. file' # Torn => CardsAgree(file', stored')
    BY <2>1 DEF CardsInv, CardsAgree
  <2> QED
    BY <1>1, <2>1, <2>2 DEF CardsInv
<1> QED
  BY <1>2, <1>3, <1>4, <1>5, <1>6, <1>7, <1>8, <1>9 DEF IndexerNext

-------------------------------------------------------------------------------
(* The indexer's keys *)

\* The key openStore trusts an agent with.
DiskKey(seeds, imports, a) == IF seeds[a] # None THEN seeds[a] ELSE imports[a]
SavedKey(a) == DiskKey(keyFiles, peerFiles, a)

\* Of agents whose files were left alone: memory and files trust the same key, and
\* what was stored was signed with it; and memory keeps trusting the key when the
\* files are changed while the process runs.
KeysKept ==
  /\ \A a \in Agents \ rekeyed : keyFiles[a] # Torn /\ peerFiles[a] # Torn
  /\ phase = "up" => \A a \in Agents \ rekeyed : ring[a] = SavedKey(a)
  /\ \A l \in Listings : facts[l] # None /\ facts[l].signer \notin rekeyed =>
       SavedKey(facts[l].signer) = facts[l].key
  /\ phase = "up" => \A l \in Listings : facts[l] # None /\ facts[l].signer \notin renewed =>
       ring[facts[l].signer] = facts[l].key
  /\ phase = "up" => \A a \in Agents : indexRing[a] # None => indexRing[a] = ring[a]

\* The imports after a request's checks.
PinnedFiles(m) ==
  IF Wrapped(m) /\ Verifies(m) THEN [peerFiles EXCEPT ![m.agent] = m.key] ELSE peerFiles

\* A reload and a pin replace no key that is trusted, and what memory trusts after
\* them the files do.
LEMMA PinsKeep ==
  ASSUME IndexerTypeOK, KeysKept, phase = "up", NEW m \in Announcements
  PROVE  /\ \A a \in Agents : ring[a] # None => PinnedRing(m)[a] = ring[a]
         /\ \A a \in Agents \ rekeyed :
              /\ PinnedFiles(m)[a] # Torn
              /\ PinnedRing(m)[a] = DiskKey(keyFiles, PinnedFiles(m), a)
              /\ SavedKey(a) # None => DiskKey(keyFiles, PinnedFiles(m), a) = SavedKey(a)
         /\ Verifies(m) => PinnedRing(m)[m.file.signer] = m.file.key
<1>1. /\ ring \in [Agents -> Keys \cup {None}] /\ None \notin Keys /\ Torn \notin Keys /\ Torn # None
      /\ keyFiles \in [Agents -> Keys \cup {None, Torn}]
      /\ peerFiles \in [Agents -> Keys \cup {None, Torn}]
  BY ListingsAssumption DEF IndexerTypeOK
<1>2. \A a \in Agents : ReloadedRing[a] = IF ring[a] # None THEN ring[a]
                                         ELSE Trust(Trust(ring, a, keyFiles[a]), a, peerFiles[a])[a]
  BY <1>1 DEF ReloadedRing, Trust
<1>3. \A a \in Agents \ rekeyed : ReloadedRing[a] = SavedKey(a)
  <2> TAKE a \in Agents \ rekeyed
  <2>1. ring[a] = SavedKey(a) /\ keyFiles[a] # Torn /\ peerFiles[a] # Torn
    BY DEF KeysKept
  <2>2. CASE ring[a] # None
    BY <1>2, <2>1, <2>2
  <2>3. CASE ring[a] = None
    <3>1. keyFiles[a] = None /\ peerFiles[a] = None
      BY <2>1, <2>3 DEF SavedKey, DiskKey
    <3> QED
      BY <1>1, <1>2, <2>1, <2>3, <3>1 DEF Trust
  <2> QED
    BY <2>2, <2>3
<1>4. ReloadedRing \in [Agents -> Keys \cup {None}]
  BY RingFacts
<1>5. CASE Wrapped(m) /\ Verifies(m)
  <2>1. m.agent \in Agents /\ m.key \in Keys /\ ReloadedRing[m.agent] \in {None, m.key}
    BY <1>5, AnnouncementFacts DEF Verifies, FirstUse
  <2>2. PinnedRing(m) = [ReloadedRing EXCEPT ![m.agent] = m.key]
    BY <1>5 DEF PinnedRing
  <2>3. \A a \in Agents : /\ PinnedRing(m)[a] = IF a = m.agent THEN m.key ELSE ReloadedRing[a]
                         /\ PinnedFiles(m)[a] = IF a = m.agent THEN m.key ELSE peerFiles[a]
    BY <1>1, <1>4, <1>5, <2>1, <2>2 DEF PinnedFiles
  <2>4. \A a \in Agents : ring[a] # None => PinnedRing(m)[a] = ring[a]
    BY <1>2, <2>1, <2>3
  <2>5. ASSUME NEW a \in Agents \ rekeyed
        PROVE  /\ PinnedFiles(m)[a] # Torn
               /\ PinnedRing(m)[a] = DiskKey(keyFiles, PinnedFiles(m), a)
               /\ SavedKey(a) # None => DiskKey(keyFiles, PinnedFiles(m), a) = SavedKey(a)
    BY <1>1, <1>3, <2>1, <2>3 DEF KeysKept, SavedKey, DiskKey
  <2>6. PinnedRing(m)[m.file.signer] = m.file.key
    BY <1>5, <2>2 DEF Verifies, Resolves
  <2> QED
    BY <2>4, <2>5, <2>6
<1>6. CASE ~(Wrapped(m) /\ Verifies(m))
  <2>1. PinnedRing(m) = ReloadedRing /\ PinnedFiles(m) = peerFiles
    BY <1>6 DEF PinnedRing, PinnedFiles
  <2>2. Verifies(m) => PinnedRing(m)[m.file.signer] = m.file.key
    BY <1>6, <2>1 DEF Verifies, Resolves
  <2> QED
    BY <1>2, <1>3, <2>1, <2>2 DEF KeysKept, SavedKey
<1> QED
  BY <1>5, <1>6

LEMMA KeysStep == IndexerInv /\ KeysKept /\ IndexerNext => KeysKept'
<1> SUFFICES ASSUME IndexerInv, KeysKept, IndexerNext PROVE KeysKept'
  OBVIOUS
<1>0. /\ IndexerTypeOK /\ None \notin Keys /\ SelfKey \in Keys /\ Torn \notin Keys \cup {None}
      /\ Self \in Agents
      /\ keyFiles \in [Agents -> Keys \cup {None, Torn}]
      /\ peerFiles \in [Agents -> Keys \cup {None, Torn}] /\ ring \in [Agents -> Keys \cup {None}]
      /\ indexRing \in [Agents -> Keys \cup {None}]
      /\ facts \in [Listings -> Envelope \cup {None}]
  BY ListingsAssumption DEF IndexerInv, IndexerTypeOK
<1>1. \A l \in Listings : facts[l] # None => facts[l].signer \in Agents /\ facts[l].key # None
  BY <1>0 DEF Envelope
\* The files and the facts stay, and the process does not serve.
<1>2. ASSUME UNCHANGED <<keyFiles, peerFiles, facts, rekeyed>>, phase' # "up" PROVE KeysKept'
  BY <1>2 DEF KeysKept, SavedKey
<1>3. CASE IndexerStart
  <2>1. /\ LoadedRing[Self] \in {None, SelfKey} /\ UNCHANGED <<peerFiles, rekeyed, facts>>
        /\ renewed' = rekeyed
        /\ keyFiles' = [keyFiles EXCEPT ![Self] = SelfKey]
        /\ ring' = [LoadedRing EXCEPT ![Self] = SelfKey] /\ indexRing' = ring'
    BY <1>3 DEF IndexerStart
  <2>2. \A a \in Agents \ rekeyed : LoadedRing[a] = SavedKey(a)
    BY DEF LoadedRing, SavedKey, DiskKey, KeysKept
  <2>3. \A a \in Agents : /\ keyFiles'[a] = IF a = Self THEN SelfKey ELSE keyFiles[a]
                          /\ ring'[a] = IF a = Self THEN SelfKey ELSE LoadedRing[a]
    BY <1>0, <2>1 DEF LoadedRing
  <2>4. \A a \in Agents \ rekeyed : /\ DiskKey(keyFiles', peerFiles', a) = ring'[a]
                                    /\ SavedKey(a) # None => ring'[a] = SavedKey(a)
    BY <1>0, <2>1, <2>2, <2>3 DEF SavedKey, DiskKey
  <2>5. \A a \in Agents \ rekeyed : keyFiles'[a] # Torn /\ peerFiles'[a] # Torn
    BY <1>0, <2>1, <2>3 DEF KeysKept
  <2>6. \A l \in Listings : facts[l] # None /\ facts[l].signer \notin rekeyed =>
          DiskKey(keyFiles', peerFiles', facts[l].signer) = facts[l].key
    BY <1>1, <2>4 DEF KeysKept
  <2>7. \A l \in Listings : facts[l] # None /\ facts[l].signer \notin rekeyed =>
          ring'[facts[l].signer] = facts[l].key
    BY <1>1, <2>4, <2>6
  <2> QED
    BY <2>1, <2>4, <2>5, <2>6, <2>7 DEF KeysKept, SavedKey
<1>4. CASE IndexerStop
  BY <1>2, <1>4 DEF IndexerStop, IndexerGone
<1>5. ASSUME NEW a \in Agents, NEW k \in Keys, Provision(a, k) PROVE KeysKept'
  <2>1. /\ rekeyed' = rekeyed \cup {a} /\ UNCHANGED <<phase, ring, indexRing, facts, renewed>>
        /\ \A b \in Agents \ {a} : keyFiles'[b] = keyFiles[b] /\ peerFiles'[b] = peerFiles[b]
    BY <1>0, <1>5 DEF Provision, catalogs
  <2>2. \A b \in Agents \ rekeyed' : DiskKey(keyFiles', peerFiles', b) = SavedKey(b)
    BY <2>1 DEF DiskKey, SavedKey
  <2>3. \A l \in Listings : facts[l] # None /\ facts[l].signer \notin rekeyed' =>
          DiskKey(keyFiles', peerFiles', facts[l].signer) = facts[l].key
    BY <1>1, <2>1, <2>2 DEF KeysKept
  <2> QED
    BY <2>1, <2>2, <2>3 DEF KeysKept, SavedKey
\* After a request's checks, with the imports written.
<1>6. ASSUME NEW m \in Announcements, phase = "up", UNCHANGED <<keyFiles, rekeyed, renewed>>,
             peerFiles' = PinnedFiles(m),
             facts' = facts \/ (Verifies(m) /\ facts' = [facts EXCEPT ![m.file.listing] = m.file]),
             phase' = "up" => /\ ring' = PinnedRing(m)
                              /\ \A a \in Agents : indexRing'[a] # None =>
                                   indexRing'[a] \in {indexRing[a], ring'[a]}
      PROVE  KeysKept'
  <2>1. /\ \A a \in Agents : ring[a] # None => PinnedRing(m)[a] = ring[a]
        /\ \A a \in Agents \ rekeyed :
             /\ PinnedFiles(m)[a] # Torn
             /\ PinnedRing(m)[a] = DiskKey(keyFiles, PinnedFiles(m), a)
             /\ SavedKey(a) # None => DiskKey(keyFiles, PinnedFiles(m), a) = SavedKey(a)
        /\ Verifies(m) => PinnedRing(m)[m.file.signer] = m.file.key
    BY <1>0, <1>6, PinsKeep
  <2>2. \A l \in Listings : facts[l] # None /\ facts[l].signer \notin rekeyed =>
          DiskKey(keyFiles, PinnedFiles(m), facts[l].signer) = facts[l].key
    BY <1>1, <2>1 DEF KeysKept
  <2>3. \A l \in Listings : facts'[l] # None /\ facts'[l].signer \notin rekeyed =>
          DiskKey(keyFiles, PinnedFiles(m), facts'[l].signer) = facts'[l].key
    <3>1. CASE facts' = facts
      BY <2>2, <3>1
    <3>2. CASE Verifies(m) /\ facts' = [facts EXCEPT ![m.file.listing] = m.file]
      <4>1. m.file.signer \in Agents /\ m.file.listing \in Listings
        BY AnnouncementFacts DEF Envelope
      <4>2. \A l \in Listings : facts'[l] = IF l = m.file.listing THEN m.file ELSE facts[l]
        BY <1>0, <3>2, <4>1
      <4> QED
        BY <2>1, <2>2, <3>2, <4>1, <4>2
    <3> QED
      BY <1>6, <3>1, <3>2
  <2>4. phase' = "up" => \A a \in Agents : indexRing'[a] # None => indexRing'[a] = ring'[a]
    BY <1>6, <2>1 DEF KeysKept
  <2>5. \A a \in Agents \ rekeyed : keyFiles[a] # Torn
    BY DEF KeysKept
  <2>6. ASSUME NEW l \in Listings, facts'[l] # None, facts'[l].signer \notin renewed
        PROVE  PinnedRing(m)[facts'[l].signer] = facts'[l].key
    <3>1. CASE facts'[l] = facts[l]
      <4>1. ring[facts[l].signer] = facts[l].key
        BY <1>6, <2>6, <3>1 DEF KeysKept
      <4> QED
        BY <1>1, <2>1, <2>6, <3>1, <4>1
    <3>2. CASE facts'[l] # facts[l]
      <4>1. m.file.listing \in Listings
        BY AnnouncementFacts
      <4>2. Verifies(m) /\ facts'[l] = m.file
        BY <1>0, <1>6, <3>2, <4>1
      <4> QED
        BY <2>1, <4>2
    <3> QED
      BY <3>1, <3>2
  <2> QED
    BY <1>6, <2>1, <2>3, <2>4, <2>5, <2>6 DEF KeysKept, SavedKey
<1>7. ASSUME NEW m \in Announcements, Pin(m), ring' = PinnedRing(m)
      PROVE  /\ peerFiles' = PinnedFiles(m)
             /\ \A a \in Agents : indexRing'[a] # None => indexRing'[a] \in {indexRing[a], ring'[a]}
  <2>1. CASE Wrapped(m) /\ Verifies(m)
    <3>1. ReloadedRing \in [Agents -> Keys \cup {None}] /\ m.agent \in Agents
      BY <1>0, <2>1, RingFacts, AnnouncementFacts
    <3>2. \A a \in Agents : /\ indexRing'[a] = IF a = m.agent THEN m.key ELSE indexRing[a]
                            /\ ring'[a] = IF a = m.agent THEN m.key ELSE ReloadedRing[a]
      BY <1>0, <1>7, <2>1, <3>1 DEF Pin, PinnedRing
    <3> QED
      BY <1>7, <2>1, <3>2 DEF Pin, PinnedFiles
  <2>2. CASE ~(Wrapped(m) /\ Verifies(m))
    BY <1>7, <2>2 DEF Pin, PinnedFiles
  <2> QED
    BY <2>1, <2>2
<1>8. ASSUME NEW m \in Announcements, Receive(m) \/ ReceiveUnsaved(m) PROVE KeysKept'
  <2>1. /\ phase = "up" /\ UNCHANGED <<keyFiles, rekeyed, renewed>> /\ Pin(m) /\ ring' = PinnedRing(m)
        /\ facts' = IF PutObject(m) THEN [facts EXCEPT ![m.file.listing] = m.file] ELSE facts
    BY <1>8 DEF Receive, ReceiveUnsaved
  <2>2. PutObject(m) => Verifies(m)
    BY DEF PutObject, Admitted
  <2> QED
    BY <1>6, <1>7, <2>1, <2>2
<1>9. ASSUME NEW m \in Announcements, ReceiveDies(m) PROVE KeysKept'
  <2>1. phase = "up" /\ phase' = "down" /\ renewed' = renewed
    BY <1>9 DEF ReceiveDies, IndexerGone
  <2>2. CASE \E a \in Agents :
               /\ \/ keyFiles' = [keyFiles EXCEPT ![a] = Torn] /\ UNCHANGED peerFiles
                  \/ peerFiles' = [peerFiles EXCEPT ![a] = Torn] /\ UNCHANGED keyFiles
               /\ rekeyed' = rekeyed \cup {a} /\ UNCHANGED facts
    <3>1. PICK a \in Agents :
            /\ rekeyed' = rekeyed \cup {a} /\ UNCHANGED facts
            /\ \A b \in Agents \ {a} : keyFiles'[b] = keyFiles[b] /\ peerFiles'[b] = peerFiles[b]
      BY <1>0, <2>2
    <3>2. \A b \in Agents \ rekeyed' : DiskKey(keyFiles', peerFiles', b) = SavedKey(b)
      BY <3>1 DEF DiskKey, SavedKey
    <3>3. \A l \in Listings : facts[l] # None /\ facts[l].signer \notin rekeyed' =>
            DiskKey(keyFiles', peerFiles', facts[l].signer) = facts[l].key
      BY <1>1, <3>1, <3>2 DEF KeysKept
    <3> QED
      BY <2>1, <3>1, <3>2, <3>3 DEF KeysKept, SavedKey
  <2>3. CASE /\ UNCHANGED <<keyFiles, rekeyed, renewed>> /\ peerFiles' = PinnedFiles(m)
             /\ \/ facts' = facts
                \/ PutObject(m) /\ facts' = [facts EXCEPT ![m.file.listing] = m.file]
    BY <1>6, <2>1, <2>3 DEF PutObject, Admitted
  <2> QED
    BY <1>9, <2>1, <2>2, <2>3 DEF ReceiveDies, PinnedFiles
<1>10. ASSUME NEW h \in Hashes, ReceiveArchive(h) PROVE KeysKept'
  BY <1>10 DEF ReceiveArchive, keys, KeysKept, SavedKey
<1>11. ASSUME NEW h \in Hashes, ReceiveArchiveDies(h) PROVE KeysKept'
  BY <1>2, <1>11 DEF ReceiveArchiveDies, IndexerGone
<1> QED
  BY <1>3, <1>4, <1>5, <1>8, <1>9, <1>10, <1>11 DEF IndexerNext

-------------------------------------------------------------------------------
(* The station *)

\* The role that runs keeps its invariant; of the others there is nothing.
StationInv ==
  /\ role \in Roles
  /\ IF role = "publisher" THEN PublisherInv ELSE PublisherFresh
  /\ IF role = "integrator" THEN IntegratorInv ELSE IntegratorFresh
  /\ IF role = "indexer" THEN IndexerInv ELSE saved = {} /\ index = Empty

LEMMA StationInitial == StationInit => StationInv
<1>0. ASSUME PublisherInit \/ IntegratorInit \/ IndexerInit PROVE ContextTypeOK
  <2>1. 0 \in 0 .. MaxChanges /\ 0 \in 0 .. MaxFaults
    BY StationAssumption
  <2> QED
    BY <1>0, <2>1 DEF PublisherInit, IntegratorInit, IndexerInit, ContextTypeOK, Roles, Phases
<1>1. ASSUME PublisherInit PROVE PublisherInv
  <2>1. PublisherTypeOK
    BY <1>0, <1>1, PublisherIdleGood DEF PublisherInit, PublisherFresh, NoOps, PublisherTypeOK
  <2>2. OpsGood
    BY <1>1 DEF PublisherInit, NoOps, OpsGood, GoodOp, PublisherIdle
  <2> QED
    BY <1>1, <2>1, <2>2 DEF PublisherInit, PublisherFresh, PublisherInv, AnnouncedIsServed
<1>2. ASSUME IntegratorInit PROVE IntegratorInv
  <2>1. IntegratorTypeOK
    BY <1>0, <1>2, IntegratorIdleGood, SeederCounts
       DEF IntegratorInit, IntegratorFresh, AllIdle, NoArchives, EmptyDisk, IntegratorTypeOK
  <2> QED
    BY <1>2, <2>1 DEF IntegratorInit, IntegratorFresh, AllIdle, IntegratorInv, RefreshesGood,
                      GoodRefresh, IntegratorIdle, TopicServed
<1>3. ASSUME IndexerInit PROVE IndexerInv
  <2>1. IndexerTypeOK
    BY <1>0, <1>3, StateFacts
       DEF IndexerInit, IndexerEmpty, IndexerFresh, NoKeys, IndexerTypeOK
  <2> QED
    BY <1>3, <2>1, StateFacts
       DEF IndexerInit, IndexerEmpty, IndexerFresh, IndexerInv, ListedStored, SavedStays
<1> QED
  BY <1>1, <1>2, <1>3
     DEF StationInit, StationInv, Roles, IndexerUnused, IndexerEmpty, IndexerFresh, PublisherUnused,
         IntegratorUnused, PublisherInit, IntegratorInit, IndexerInit

LEMMA StationStep == StationInv /\ [StationNext]_stationVars => StationInv'
<1> SUFFICES ASSUME StationInv, [StationNext]_stationVars PROVE StationInv'
  OBVIOUS
<1>1. CASE PublisherNext /\ UNCHANGED <<indexerState, topicState>>
  <2>1. role = "publisher" /\ role' = role
    BY <1>1 DEF PublisherNext
  <2>2. PublisherInv'
    BY <1>1, <2>1, PublisherStep DEF StationInv
  <2> QED
    BY <1>1, <2>1, <2>2 DEF StationInv, indexerState, answers, topicState, served, reseeding, IntegratorFresh
<1>2. CASE IntegratorNext /\ UNCHANGED <<indexerState, catalogState>>
  <2>1. role = "integrator" /\ role' = role
    BY <1>2 DEF IntegratorNext
  <2>2. IntegratorInv'
    BY <1>2, <2>1, IntegratorStep DEF StationInv
  <2> QED
    BY <1>2, <2>1, <2>2 DEF StationInv, indexerState, answers, catalogState, PublisherFresh
<1>3. CASE IndexerNext /\ UNCHANGED <<catalogState, topicState>>
  <2>1. role = "indexer" /\ role' = role
    BY <1>3 DEF IndexerNext
  <2>2. IndexerInv'
    BY <1>3, <2>1, IndexerStep DEF StationInv
  <2> QED
    BY <1>3, <2>1, <2>2
       DEF StationInv, catalogState, topicState, served, reseeding, PublisherFresh, IntegratorFresh
<1>4. CASE UNCHANGED stationVars
  <2> USE DEF stationVars, indexerState, answers, catalogState, topicState, served, reseeding, keys
  <2>1. PublisherInv => PublisherInv'
    BY <1>4 DEF PublisherInv, PublisherTypeOK, ContextTypeOK, OpsGood, Served, AnnouncedIsServed
  <2>2. IntegratorInv => IntegratorInv'
    BY <1>4 DEF IntegratorInv, IntegratorTypeOK, ContextTypeOK, RefreshesGood, Mirrored, TopicServed
  <2>3. IndexerInv => IndexerInv'
    BY <1>4 DEF IndexerInv, IndexerTypeOK, ContextTypeOK, ListedStored, SavedStays
  <2> QED
    BY <1>4, <2>1, <2>2, <2>3 DEF StationInv, PublisherFresh, IntegratorFresh
<1> QED
  BY <1>1, <1>2, <1>3, <1>4 DEF StationNext

\* Whichever role the station runs, its inductive invariant holds in every state it
\* reaches (publisher.ts:52-304, integrator.ts:71-398, server.ts:101-354, state.ts:27-118).
THEOREM StationInvariant == StationSpec => []StationInv
  BY StationInitial, StationStep, PTL DEF StationSpec

\* StationTypeOK: the state of the role that runs has its type.
THEOREM StationTypeCorrect == StationSpec => []StationTypeOK
<1>1. StationInv => StationTypeOK
  BY DEF StationInv, StationTypeOK, Roles, PublisherInv, IntegratorInv, IndexerInv
<1> QED
  BY <1>1, StationInvariant, PTL

\* AnnouncedIsServed: whatever version an indexer has heard of, or is listed, has its
\* LISTING_REF stored and its archive on the mirror, for any number of ticks and
\* requests that interleave (publisher.ts:52-53, 88-109, 265-304).
THEOREM AnnouncedIsServedAlways == StationSpec => []AnnouncedIsServed
<1>1. StationInv => AnnouncedIsServed
  BY DEF StationInv, PublisherInv, AnnouncedIsServed, PublisherFresh
<1> QED
  BY <1>1, StationInvariant, PTL

\* TopicServed: the topic an integrator announces is stored and on the mirror, and there
\* is one whenever it comes to announce, for any number of refreshes that interleave
\* and fail (integrator.ts:71-129, 210-228).
THEOREM TopicServedAlways == StationSpec => []TopicServed
<1>1. StationInv => TopicServed
  BY DEF StationInv, IntegratorInv, TopicServed, IntegratorFresh
<1> QED
  BY <1>1, StationInvariant, PTL

\* SavedStays: a listing that was in the state file when an indexer answered "accepted"
\* is in the fact file, in the state file and in memory as it was accepted, until a
\* write of the state file is cut off, across deaths, failed writes, conflicting
\* announcements and restarts (server.ts:101-211, state.ts:47-101).
THEOREM SavedStaysAlways == StationSpec => []SavedStays
<1>1. StationInv => SavedStays
  BY DEF StationInv, IndexerInv, SavedStays
<1> QED
  BY <1>1, StationInvariant, PTL

\* What the role that runs keeps besides.
RoleInv ==
  /\ role = "publisher" => SoloInv
  /\ role = "integrator" => SoloRefreshInv
  /\ role = "indexer" => CardsInv /\ KeysKept

LEMMA RoleInitial == StationInit => RoleInv
<1>1. ASSUME PublisherInit PROVE SoloInv
  <2>1. PublisherIdle.step = "idle" /\ PublisherIdle.kind = "none" /\ PublisherIdle.seeder = None
    BY DEF PublisherIdle
  <2> QED
    BY <1>1, <2>1 DEF PublisherInit, PublisherFresh, NoOps, SoloInv, Solo, SeederOf, Handled,
                      Publishing, Work
<1>2. ASSUME IntegratorInit PROVE SoloRefreshInv
  <2>1. /\ IntegratorIdle.step = "idle" /\ IntegratorIdle.kind = "none"
        /\ IntegratorIdle.member = None /\ IntegratorIdle.todo = {} /\ ~IntegratorIdle.disturbed
    BY DEF IntegratorIdle
  <2>2. \A o \in Ops : op[o] = IntegratorIdle
    BY <1>2 DEF IntegratorInit, AllIdle
  <2>3. \A o \in Ops : Carried(op[o], disk, latest)
    BY <2>1, <2>2 DEF Carried, Busy, RefreshWork
  <2>4. \A h \in OfferHashes : seeders[h] = 0 /\ copies[h] # "spoilt"
    BY <1>2 DEF IntegratorInit, IntegratorFresh, NoSeeders, NoArchives
  <2>5. \A h \in OfferHashes : Accounts(h)
    BY <2>4 DEF Accounts
  <2> QED
    BY <1>2, <2>1, <2>2, <2>3, <2>4, <2>5
       DEF IntegratorInit, IntegratorFresh, SoloRefreshInv, SoloRefresh, Refreshing, RefreshWork
<1>3. ASSUME IndexerInit PROVE CardsInv /\ KeysKept
  <2>1. CardsAgree(Empty, stored)
    BY DEF Empty, CardsAgree
  <2>2. index = Empty /\ file = Empty
    BY <1>3 DEF IndexerInit, IndexerEmpty, IndexerFresh
  <2>3. KeysKept
    BY <1>3, ListingsAssumption DEF IndexerInit, IndexerEmpty, NoKeys, KeysKept
  <2> QED
    BY <2>1, <2>2, <2>3 DEF CardsInv
<1> QED
  BY <1>1, <1>2, <1>3 DEF StationInit, RoleInv, PublisherInit, IntegratorInit, IndexerInit

LEMMA RoleStep == StationInv /\ RoleInv /\ [StationNext]_stationVars => RoleInv'
<1> SUFFICES ASSUME StationInv, RoleInv, [StationNext]_stationVars PROVE RoleInv'
  OBVIOUS
<1>1. CASE PublisherNext
  BY <1>1, SoloStep DEF PublisherNext, StationInv, RoleInv
<1>2. CASE IntegratorNext
  BY <1>2, AloneStep DEF IntegratorNext, StationInv, RoleInv
<1>3. CASE IndexerNext
  BY <1>3, CardsStep, KeysStep DEF IndexerNext, StationInv, RoleInv
<1>4. CASE UNCHANGED stationVars
  <2> USE DEF stationVars, indexerState, answers, catalogState, topicState, served, reseeding, keys
  <2>1. SoloInv => SoloInv'
    BY <1>4 DEF SoloInv, Solo, SeederOf, Handled, Publishing
  <2>2. SoloRefreshInv => SoloRefreshInv'
    BY <1>4 DEF SoloRefreshInv, SoloRefresh, Carried, Refreshing, Accounts, Doubled
  <2>3. CardsInv => CardsInv'
    BY <1>4 DEF CardsInv
  <2>4. KeysKept => KeysKept'
    BY <1>4 DEF KeysKept, SavedKey
  <2> QED
    BY <1>4, <2>1, <2>2, <2>3, <2>4 DEF RoleInv
<1> QED
  BY <1>1, <1>2, <1>3, <1>4 DEF StationNext

LEMMA RoleInvariant == StationSpec => []RoleInv
  BY StationInvariant, RoleInitial, RoleStep, PTL DEF StationSpec

\* OneSeeder: as long as no publish runs beside another or beside stop(), there is at
\* most one live seeder within reach, a stopped publisher has none, and one runs on out
\* of reach only if a LISTING_REF could not be stored (publisher.ts:74-79, 97, 288-304).
THEOREM OneSeederAlways == StationSpec => []OneSeeder
<1>1. StationInv /\ RoleInv => OneSeeder
  <2> SUFFICES ASSUME StationInv, RoleInv, ~overlap
               PROVE  /\ Cardinality(live) <= 1 /\ (lost => faults > 0)
                      /\ phase \in {"closing", "stopped"} => live = {}
    BY DEF OneSeeder
  <2>1. CASE role = "publisher"
    <3>1. Solo
      BY <2>1 DEF RoleInv, SoloInv
    <3>2. live = {} \/ live = {current.seeder}
      BY <3>1 DEF Solo, SeederOf
    <3>3. Cardinality(live) = 0 \/ Cardinality(live) = 1
      BY <3>2, FS_EmptySet, FS_Singleton, Zenon
    <3> QED
      BY <3>1, <3>3 DEF Solo, SeederOf, Ends
  <2>2. CASE role # "publisher"
    BY <2>2, FS_EmptySet DEF StationInv, PublisherFresh
  <2> QED
    BY <2>1, <2>2
<1> QED
  BY <1>1, StationInvariant, RoleInvariant, PTL

\* RefreshesAlone: as long as no refresh runs beside another or beside stop(), a seeder
\* seeds a whole directory alone unless two members have one catalog, no archive is
\* spoilt, the topic is the one loaded last, and a stopped integrator seeds nothing
\* (integrator.ts:132-207, 379-398).
THEOREM RefreshesAloneAlways == StationSpec => []RefreshesAlone
<1>1. StationInv /\ RoleInv => RefreshesAlone
  <2> SUFFICES ASSUME StationInv, RoleInv, ~overlap PROVE RefreshesAlone
    BY DEF RefreshesAlone
  <2>1. CASE role = "integrator"
    <3>1. SoloRefresh
      BY <2>1 DEF RoleInv, SoloRefreshInv
    <3>2. \A h \in OfferHashes : Doubled(h) => Shared(h)
      BY StationAssumption DEF Doubled, Shared
    <3> QED
      BY <3>1, <3>2 DEF Accounts, RefreshesAlone, SoloRefresh, Refreshing, Busy, Ends
  <2>2. CASE role # "integrator"
    <3>1. \A h \in OfferHashes : seeders[h] = 0 /\ copies[h] # "spoilt"
      BY <2>2 DEF StationInv, IntegratorFresh, NoSeeders, NoArchives
    <3> QED
      BY <2>2, <3>1 DEF StationInv, IntegratorFresh, RefreshesAlone
  <2> QED
    BY <2>1, <2>2
<1> QED
  BY <1>1, StationInvariant, RoleInvariant, PTL

\* SearchMatchesCard: a card shown is covered by the catalog hash; the tags a search
\* answers with are those of the card or, once an archive was received, those of a
\* catalog.json in it, which the hash need not cover; for any announcements, retries
\* and deaths (server.ts:215-253, 302-316).
THEOREM SearchMatchesCardAlways == StationSpec => []SearchMatchesCard
<1>1. StationInv /\ RoleInv => SearchMatchesCard
  <2>1. StationInv /\ RoleInv => CardsAgree(index, stored)
    BY DEF StationInv, RoleInv, CardsInv, CardsAgree, Empty
  <2> QED
    BY <2>1 DEF SearchMatchesCard, CardsAgree
<1> QED
  BY <1>1, StationInvariant, RoleInvariant, PTL

\* FactsVerify: a stored listing verifies with the key its signer is trusted with now,
\* whatever is announced and written into key files while the process runs, except for
\* the agents whose files were changed or cut off before its last start
\* (server.ts:147-168, trust-ring.ts:28-64).
THEOREM FactsVerifyAlways == StationSpec => []FactsVerify
<1>1. StationInv /\ RoleInv => FactsVerify
  <2> SUFFICES ASSUME IndexerInv, KeysKept, phase = "up"
               PROVE  /\ \A l \in Listings : facts[l] # None /\ facts[l].signer \notin renewed =>
                           Resolves(ring, facts[l])
                      /\ \A a \in Agents : indexRing[a] # None => indexRing[a] = ring[a]
    BY DEF FactsVerify, StationInv, RoleInv
  <2>1. \A l \in Listings : facts[l] # None => facts[l].signer \in Agents
    BY DEF IndexerInv, IndexerTypeOK, Envelope
  <2> QED
    BY <2>1 DEF KeysKept, Resolves
<1> QED
  BY <1>1, StationInvariant, RoleInvariant, PTL

===============================================================================
