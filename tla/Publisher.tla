-------------------------------- MODULE Publisher --------------------------------
(***************************************************************************)
(* apps/station, role publisher: one catalog directory, read, seeded over  *)
(* BitTorrent, signed into a LISTING_REF, stored, mirrored over HTTP and   *)
(* announced; and a timer that publishes again when the directory changed. *)
(* Nothing keeps two activities apart: a tick, a request and the stop of   *)
(* the station interleave at every await.                                  *)
(*                                                                         *)
(* A catalog version stands for its files, its hash, its LISTING_REF and   *)
(* its archive.                                                            *)
(***************************************************************************)
EXTENDS StationContext

CONSTANTS
  Versions,   \* versions of the catalog directory
  Broken,     \* those without a valid catalog.json
  Targets,    \* announce_to, 1 .. n
  Retries     \* announce_retries

Seeders == 1 .. Cardinality(Ops) + 2

ASSUME PublisherAssumption ==
  /\ Broken \subseteq Versions /\ None \notin Versions
  /\ None \notin [version : Versions, seeder : Seeders]
  /\ IsFiniteSet(Targets) /\ Targets = 1 .. Cardinality(Targets) /\ Retries \in Nat

VARIABLES
  dir,        \* catalog_dir
  current,      \* this.state: the version listed and its seeder
  live,       \* seeders that run
  ending,    \* the seeder stop() waits for
  archives,   \* versions on the HTTP mirror
  heard,      \* history: <<version, target>> received by an indexer since the start
  lost        \* history: a live seeder is referred to by nothing

memory == <<current, live, ending, archives, op, heard, lost, overlap>>
publisherState == <<dir, phase, memory, facts, faults>>
publisherVars == <<publisherState, role, changes>>

PublisherIdle == [step |-> "idle", kind |-> "none", version |-> None, seeder |-> None,
                  target |-> 1, attempt |-> 1]
PublisherOp ==
  [step : {"idle", "check", "read", "stop", "seed", "announce", "post"},
   kind : {"none", "start", "tick", "request"},
   version : Versions \cup {None}, seeder : Seeders \cup {None},
   target : Targets \cup {1}, attempt : 1 .. Retries + 1]

PublisherTypeOK ==
  /\ ContextTypeOK /\ role = "publisher" /\ dir \in Versions
  /\ current \in [version : Versions, seeder : Seeders] \cup {None}
  /\ live \subseteq Seeders /\ ending \in Seeders \cup {None}
  /\ archives \subseteq Versions /\ facts \subseteq Versions
  /\ op \in [Ops -> PublisherOp] /\ heard \subseteq Versions \X Targets
  /\ lost \in BOOLEAN

NoOps == [o \in Ops |-> PublisherIdle]

\* Nothing in memory.
PublisherFresh ==
  /\ current = None /\ live = {} /\ ending = None /\ archives = {}
  /\ heard = {} /\ lost = FALSE

PublisherInit ==
  /\ role = "publisher" /\ phase = "down" /\ op = NoOps /\ overlap = FALSE
  /\ facts = {} /\ changes = 0 /\ faults = 0
  /\ dir \in Versions /\ PublisherFresh

\* The process is gone, with all it held in memory.
PublisherGone ==
  /\ phase' = "down" /\ op' = NoOps /\ overlap' = FALSE
  /\ current' = None /\ live' = {} /\ ending' = None /\ archives' = {}
  /\ heard' = {} /\ lost' = FALSE

Work == {"read", "stop", "seed"}
Publishing(o) == op[o].step \in Work
Kept(st, ops, h) ==
  {ops[o].seeder : o \in Ops} \cup {h} \cup (IF st = None THEN {} ELSE {st.seeder})

\* The live seeders after a step; one that nothing refers to any more is lost.
Keep(running) ==
  LET kept == Kept(current', op', ending') IN
  /\ live' = running \cap kept
  /\ lost' = (lost \/ ~(running \subseteq kept))

\* Mutant: the old seeder keeps seeding.
StoppedNot(s) == live

Stopped(s) == live \ {s}

\* The directory changes.
Edit(v) ==
  /\ v # dir /\ dir' = v
  /\ UNCHANGED <<phase, memory, facts, faults>>

-------------------------------------------------------------------------------
(* publish and announce *)

\* The end of an activity: start() has succeeded.
Finish(o) ==
  /\ op' = [op EXCEPT ![o] = PublisherIdle]
  /\ phase' = IF op[o].kind = "start" THEN "up" ELSE phase

\* A publish fails: a tick only logs it, start() closes the server and fails.
Fail(o) ==
  IF op[o].kind = "start" THEN PublisherGone
  ELSE /\ op' = [op EXCEPT ![o] = PublisherIdle]
       /\ UNCHANGED <<phase, current, live, ending, archives, heard, lost, overlap>>

\* start(): the server listens, then the first publish; ticks come afterwards.
PublisherStart(o) ==
  /\ phase = "down" /\ phase' = "starting"
  /\ op' = [op EXCEPT ![o] = [PublisherIdle EXCEPT !.step = "read", !.kind = "start"]]
  /\ UNCHANGED <<dir, current, live, ending, archives, facts, heard, lost, overlap, faults>>

\* The interval fires whether or not the tick before has ended.
PublisherTick(o) ==
  /\ phase = "up" /\ op[o].step = "idle"
  /\ op' = [op EXCEPT ![o] = [PublisherIdle EXCEPT !.step = "check", !.kind = "tick"]]
  /\ UNCHANGED <<dir, phase, current, live, ending, archives, facts, heard, lost, overlap, faults>>

\* Mutant: what is listed is compared no further.
UnchangedAlways == current # None

\* What is listed is what the directory holds.
Unchanged == current # None /\ current.version = dir

\* watchTick after the directory is read.
Check(o) ==
  /\ op[o].step = "check"
  /\ IF Unchanged
     THEN Finish(o) /\ UNCHANGED overlap
     ELSE /\ op' = [op EXCEPT ![o].step = "read"] /\ UNCHANGED phase
          /\ overlap' = Overlaps(o, Work)
  /\ UNCHANGED <<dir, current, live, ending, archives, facts, heard, lost, faults>>

\* publish, after it has read the directory, again, up to the await of the seeder
\* of the state, or to that of the new seeder when there is no state.
ReadCatalog(o) ==
  /\ op[o].step = "read" /\ UNCHANGED <<dir, facts, faults>>
  /\ IF dir \in Broken THEN Fail(o)
     ELSE /\ op' = [op EXCEPT ![o] =
               [@ EXCEPT !.version = dir,
                         !.step = IF current = None THEN "seed" ELSE "stop",
                         !.seeder = IF current = None THEN None ELSE current.seeder]]
          /\ UNCHANGED <<phase, current, live, ending, archives, heard, lost, overlap>>

\* The old seeder is stopped, and the state dropped, whatever it is by now.
StopOld(o) ==
  /\ op[o].step = "stop"
  /\ current' = None /\ UNCHANGED ending
  /\ op' = [op EXCEPT ![o].step = "seed", ![o].seeder = None]
  /\ Keep(Stopped(op[o].seeder))
  /\ UNCHANGED <<dir, phase, archives, facts, heard, overlap, faults>>

\* Mutant: only the current version is mirrored.
MirrorCurrent(v) == archives' = {v}

\* archives.set: every version published by this process stays on the mirror.
Mirror(v) == archives' = archives \cup {v}

\* The new seeder serves what the directory held when it looked; the LISTING_REF of
\* the version that was read is signed and stored, and the state replaced, in one step.
Seeded(o) ==
  /\ op[o].step = "seed"
  /\ LET v == op[o].version
         free == Seeders \ (live \cup Kept(current, op, ending)) IN
     \E s \in free :
       /\ \A y \in free : s <= y
       /\ facts' = facts \cup {v}
       /\ current' = [version |-> v, seeder |-> s] /\ Mirror(v) /\ UNCHANGED ending
       /\ op' = [op EXCEPT ![o] = [@ EXCEPT !.step = "announce", !.version = None]]
       /\ Keep(live \cup {s})
  /\ UNCHANGED <<dir, phase, heard, overlap, faults>>

SeedFails(o) ==
  /\ op[o].step = "seed"
  /\ Fault
  /\ Fail(o)
  /\ UNCHANGED <<dir, facts>>

\* putObject throws, before or after the fact is there: the seeder that was started
\* runs on, and nothing refers to it; it keeps the process even if start() fails.
Unstored(o) ==
  /\ op[o].step = "seed"
  /\ Fault
  /\ op' = [op EXCEPT ![o] = PublisherIdle] /\ lost' = TRUE
  /\ phase' = IF op[o].kind = "start" THEN "closing" ELSE phase
  /\ facts' \in {facts, facts \cup {op[o].version}}
  /\ UNCHANGED <<dir, current, live, ending, archives, heard, overlap>>

\* POST /announce, served from the start of the server to its close.
PublisherRequest(o) ==
  /\ phase \in {"starting", "up", "stopping"} /\ op[o].step = "idle"
  /\ op' = [op EXCEPT ![o] = [PublisherIdle EXCEPT !.step = "announce", !.kind = "request"]]
  /\ UNCHANGED <<dir, phase, current, live, ending, archives, facts, heard, lost, overlap, faults>>

\* announce: the listing of the moment, to one target after the other.
PublisherAnnounce(o) ==
  /\ op[o].step = "announce"
  /\ IF current = None \/ Targets = {} THEN Finish(o)
     ELSE /\ op' = [op EXCEPT ![o] = [@ EXCEPT !.step = "post", !.version = current.version]]
          /\ UNCHANGED phase
  /\ UNCHANGED <<dir, current, live, ending, archives, facts, heard, lost, overlap, faults>>

NextTarget(o) ==
  IF op[o].target + 1 \in Targets
  THEN /\ op' = [op EXCEPT ![o].target = @ + 1, ![o].attempt = 1]
       /\ UNCHANGED phase
  ELSE Finish(o)

\* Mutant: one attempt too many.
MayRetryOnce(o) == op[o].attempt <= Retries + 1

MayRetry(o) == op[o].attempt <= Retries

Reaches(o) == heard' = heard \cup {<<op[o].version, op[o].target>>}

\* One attempt: accepted; or refused, lost, or timed out, with or without being
\* received; after the last attempt the target is given up.
Post(o) ==
  /\ op[o].step = "post"
  /\ \/ Reaches(o) /\ NextTarget(o)
     \/ /\ Reaches(o) \/ UNCHANGED heard
        /\ IF MayRetry(o)
           THEN op' = [op EXCEPT ![o].attempt = @ + 1] /\ UNCHANGED phase
           ELSE NextTarget(o)
  /\ UNCHANGED <<dir, current, live, ending, archives, facts, lost, overlap, faults>>

-------------------------------------------------------------------------------
(* The end *)

\* stop(): no further tick; the seeder of the moment is stopped ...
PublisherStop ==
  /\ phase = "up"
  /\ IF current = None THEN phase' = "closing" /\ UNCHANGED ending
     ELSE phase' = "stopping" /\ ending' = current.seeder
  /\ overlap' = StopOverlaps(Work)
  /\ UNCHANGED <<dir, current, live, archives, op, facts, heard, lost, faults>>

\* ... the state dropped, ...
PublisherStopSeeder ==
  /\ phase = "stopping" /\ phase' = "closing"
  /\ current' = None /\ ending' = None /\ UNCHANGED op
  /\ Keep(Stopped(ending))
  /\ UNCHANGED <<dir, archives, facts, heard, overlap, faults>>

\* ... and the server closed, once the requests it serves are answered.
PublisherCloses ==
  /\ ServerCloses
  /\ UNCHANGED <<dir, memory, facts, faults>>

\* The process ends when nothing of it is under way any more: a live seeder keeps it.
PublisherExit ==
  /\ phase = "stopped" /\ op = NoOps /\ live = {} /\ ~lost
  /\ PublisherGone
  /\ UNCHANGED <<dir, facts, faults>>

\* The process dies.
PublisherDies ==
  /\ phase # "down"
  /\ Fault
  /\ PublisherGone
  /\ UNCHANGED <<dir, facts>>

Step(o) ==
  \/ Check(o) \/ ReadCatalog(o) \/ StopOld(o) \/ Seeded(o) \/ PublisherAnnounce(o) \/ Post(o)

PublisherNext ==
  /\ role = "publisher" /\ UNCHANGED <<role, changes>>
  /\ \/ \E v \in Versions : Edit(v)
     \/ \E o \in Ops : \/ PublisherStart(o) \/ PublisherTick(o) \/ PublisherRequest(o)
                       \/ SeedFails(o) \/ Unstored(o) \/ Step(o)
     \/ PublisherStop \/ PublisherStopSeeder \/ PublisherCloses \/ PublisherExit \/ PublisherDies

\* The interval keeps firing, whatever else is under way (strong fairness, since the
\* bound on Ops may leave it no room for a while), and what is awaited settles.
PublisherFairness ==
  /\ SF_publisherState(role = "publisher" /\ \E o \in Ops : PublisherTick(o))
  /\ \A o \in Ops : WF_publisherState(role = "publisher" /\ Step(o))
  /\ WF_publisherState(role = "publisher" /\ PublisherStopSeeder)
  /\ WF_publisherState(role = "publisher" /\ PublisherCloses)

PublisherSpec == PublisherInit /\ [][PublisherNext]_publisherVars /\ PublisherFairness

-------------------------------------------------------------------------------
(* Properties *)

\* Whatever version an indexer has heard of, or is listed, has its LISTING_REF
\* stored and its archive on the mirror, however publishes, announcements and
\* retries interleave (publisher.ts:52-53, 88-109).
AnnouncedIsServed ==
  \A v \in {h[1] : h \in heard} \cup (IF current = None THEN {} ELSE {current.version}) :
    v \in facts \cap archives /\ v \notin Broken

\* As long as no publish runs beside another or beside stop(), the publisher has at
\* most one live seeder, and none once it is stopped; and one runs on out of its reach
\* only if a LISTING_REF could not be stored (publisher.ts:74-79, 97, 288-304).
OneSeeder ==
  ~overlap =>
    /\ Cardinality(live) <= 1
    /\ lost => faults > 0
    /\ phase \in {"closing", "stopped"} /\ (\A o \in Ops : ~Publishing(o)) => live = {}

\* A directory that stays as it is gets listed, again and again if need be, as
\* long as the publisher is up and nothing fails (publisher.ts:265-286).
WatchPublishes ==
  \A v \in Versions \ Broken :
    <>[](role = "publisher" /\ dir = v /\ phase = "up") => []<>(current # None /\ current.version = v)
===============================================================================
