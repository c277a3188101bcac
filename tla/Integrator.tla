------------------------------- MODULE Integrator -------------------------------
(***************************************************************************)
(* apps/station, role integrator: the LISTING_REFs of its members, checked *)
(* and gathered into a topic catalog that is signed, mirrored and          *)
(* announced; and, if configured, the members' catalogs downloaded,        *)
(* archived and seeded again.  A refresh runs at the start, on a timer and *)
(* on request, and nothing keeps two refreshes apart.                      *)
(*                                                                         *)
(* A topic is the set of the listings gathered, each with its member:      *)
(* catalog.json and the member files are sorted, so the set determines     *)
(* manifest and hash.                                                      *)
(***************************************************************************)
EXTENDS StationContext, Integers

CONSTANTS
  Members,    \* configured references
  Offers,     \* listings members have: [hash, magnet, delivers]
  Reseed      \* reseed

OfferHashes == {l.hash : l \in Offers}
Gatherable == [member : Members, listing : Offers]
Topics == SUBSET Gatherable
MaxSeeders == Cardinality(Ops) + 2

ASSUME IntegratorAssumption ==
  /\ Reseed \in BOOLEAN /\ None \notin Offers \cup Gatherable \cup [topic : Topics]
  /\ \A l \in Offers : l.magnet \in BOOLEAN /\ l.delivers \in OfferHashes \cup {None}

VARIABLES
  offer,     \* what loadMember makes of each reference, None if it is rejected
  result,    \* this.result, the topic last refreshed
  topics,    \* topic archives on the HTTP mirror
  copies,    \* member archives on the HTTP mirror: complete, or not
  seeders,   \* this.seeders: how many per hash
  disk,      \* reseed/<hash>: none, partial, whole
  halting,   \* seeders stop() is stopping
  latest     \* history: the topic loaded last

served == <<topics, copies>>
reseeding == <<seeders, disk>>
history == <<latest, overlap>>
integratorVars ==
  <<role, offer, phase, result, served, reseeding, halting, op, facts, history, changes, faults>>

Result == [topic : Topics]
NoSeeders == [h \in OfferHashes |-> 0]
IntegratorIdle == [step |-> "idle", kind |-> "none", topic |-> {}, todo |-> {}, member |-> None,
                   drop |-> NoSeeders, disturbed |-> FALSE]
IntegratorOp ==
  [step : {"idle", "load", "drop", "clear", "download", "read", "seed", "announce"},
   kind : {"none", "start", "tick", "request"}, topic : Topics, todo : Topics,
   member : Gatherable \cup {None}, drop : [OfferHashes -> 0 .. MaxSeeders],
   disturbed : BOOLEAN]

IntegratorTypeOK ==
  /\ ContextTypeOK /\ role = "integrator" /\ offer \in [Members -> Offers \cup {None}]
  /\ result \in Result \cup {None} /\ topics \subseteq Topics
  /\ copies \in [OfferHashes -> {"none", "complete", "spoilt"}]
  /\ seeders \in [OfferHashes -> 0 .. MaxSeeders] /\ halting \in [OfferHashes -> 0 .. MaxSeeders]
  /\ disk \in [OfferHashes -> {"none", "partial", "whole"}]
  /\ op \in [Ops -> IntegratorOp] /\ facts \subseteq Topics
  /\ latest \in Result \cup {None}

NoArchives == [h \in OfferHashes |-> "none"]
AllIdle == [o \in Ops |-> IntegratorIdle]

\* Nothing in memory.
IntegratorFresh ==
  /\ result = None /\ topics = {} /\ copies = NoArchives
  /\ seeders = NoSeeders /\ halting = NoSeeders /\ latest = None

EmptyDisk == [h \in OfferHashes |-> "none"]

IntegratorInit ==
  /\ role = "integrator" /\ phase = "down" /\ op = AllIdle /\ overlap = FALSE
  /\ facts = {} /\ changes = 0 /\ faults = 0
  /\ offer \in [Members -> Offers \cup {None}] /\ disk = EmptyDisk /\ IntegratorFresh

\* The process is gone, with all it held in memory; reseed/ stays on disk.
IntegratorForgets ==
  /\ phase' = "down" /\ op' = AllIdle /\ overlap' = FALSE
  /\ result' = None /\ topics' = {} /\ copies' = NoArchives
  /\ seeders' = NoSeeders /\ halting' = NoSeeders /\ latest' = None
  /\ UNCHANGED disk

IntegratorGone == IntegratorForgets /\ UNCHANGED facts

\* A member changes its listing, or can no longer be read or verified.
Change(m) ==
  /\ Changed
  /\ \E l \in (Offers \cup {None}) \ {offer[m]} : offer' = [offer EXCEPT ![m] = l]
  /\ UNCHANGED <<phase, result, served, reseeding, halting, op, facts, history, faults>>

SetOp(o, r) == op' = [op EXCEPT ![o] = r]
RefreshWork == {"load", "drop", "clear", "download", "read", "seed"}
Refreshing(o) == op[o].step \in RefreshWork

-------------------------------------------------------------------------------
(* refresh *)

Begin(o, kind) ==
  /\ op[o].step = "idle"
  /\ SetOp(o, [IntegratorIdle EXCEPT !.step = "load", !.kind = kind])
  /\ overlap' = Overlaps(o, RefreshWork)

\* start(): the server listens, and takes requests, before the first refresh.
IntegratorStart(o) ==
  /\ phase = "down" /\ phase' = "starting" /\ Begin(o, "start")
  /\ UNCHANGED <<offer, result, served, reseeding, halting, facts, latest, changes, faults>>

IntegratorTick(o) ==
  /\ phase = "up" /\ Begin(o, "tick")
  /\ UNCHANGED <<offer, phase, result, served, reseeding, halting, facts, latest, changes, faults>>

\* POST /refresh.
IntegratorRequest(o) ==
  /\ phase \in {"starting", "up", "stopping"} /\ Begin(o, "request")
  /\ UNCHANGED <<offer, phase, result, served, reseeding, halting, facts, latest, changes, faults>>

Gathered == {g \in Gatherable : g.listing = offer[g.member]}

\* Mutant: the mirror holds the topic only when the refresh is done.
MirrorLater(topic) == UNCHANGED topics

MirrorTopic(topic) == topics' = topics \cup {topic}

\* The members are loaded and checked; the topic is signed, stored and mirrored,
\* and, to reseed, the seeders are taken off the list, all in one step.
Load(o) ==
  LET topic == Gathered IN
  /\ op[o].step = "load"
  /\ latest' = [topic |-> topic] /\ facts' = facts \cup {topic} /\ MirrorTopic(topic)
  /\ IF Reseed
     THEN /\ SetOp(o, [op[o] EXCEPT !.step = "drop", !.topic = topic, !.drop = seeders,
                                    !.todo = {g \in topic : g.listing.magnet}])
          /\ seeders' = NoSeeders /\ UNCHANGED result
     ELSE /\ SetOp(o, [op[o] EXCEPT !.step = "announce", !.topic = topic])
          /\ result' = [topic |-> topic] /\ UNCHANGED seeders
  /\ UNCHANGED <<offer, phase, copies, disk, halting, overlap, changes, faults>>

\* putObject throws, before or after the fact is there: the refresh fails, which a
\* tick or a request survives, while start() closes the server and fails.
LoadFails(o) ==
  /\ op[o].step = "load"
  /\ Fault
  /\ facts' \in {facts, facts \cup {Gathered}}
  /\ IF op[o].kind = "start" THEN IntegratorForgets
     ELSE /\ SetOp(o, IntegratorIdle)
          /\ UNCHANGED <<phase, result, served, reseeding, halting, history>>
  /\ UNCHANGED <<offer, changes>>

\* One after the other they are stopped.
Drop(o) ==
  /\ op[o].step = "drop"
  /\ \E h \in OfferHashes :
       /\ op[o].drop[h] > 0
       /\ SetOp(o, [op[o] EXCEPT !.drop[h] = @ - 1])
  /\ UNCHANGED <<offer, phase, result, served, reseeding, halting, facts, history, changes, faults>>

\* The next member to reseed; members without a magnet link are skipped.  After
\* the last one the refresh is done.
NextMember(o) ==
  /\ op[o].step = "drop" /\ op[o].drop = NoSeeders
  /\ IF op[o].todo = {}
     THEN SetOp(o, [op[o] EXCEPT !.step = "announce"]) /\ result' = [topic |-> op[o].topic]
     ELSE /\ \E g \in op[o].todo :
               SetOp(o, [op[o] EXCEPT !.step = "clear", !.member = g, !.todo = @ \ {g}])
          /\ UNCHANGED result
  /\ UNCHANGED <<offer, phase, served, reseeding, halting, facts, history, changes, faults>>

\* The member is done with, or given up.
Skipped(o) == [op[o] EXCEPT !.step = "drop", !.member = None, !.disturbed = FALSE]

HashOf(o) == op[o].member.listing.hash
Shares(p, h) ==
  op[p].member # None /\ HashOf(p) = h /\ op[p].step \in {"download", "read", "seed"}

\* rm destDir, under whoever else is busy in it.
Clear(o) ==
  LET h == HashOf(o) IN
  /\ op[o].step = "clear"
  /\ disk' = [disk EXCEPT ![h] = "none"]
  /\ op' = [p \in Ops |-> IF p = o THEN [op[o] EXCEPT !.step = "download"]
                          ELSE IF Shares(p, h) THEN [op[p] EXCEPT !.disturbed = TRUE] ELSE op[p]]
  /\ UNCHANGED <<offer, phase, result, served, seeders, halting, facts, history, changes, faults>>

\* Mutant: the manifest of what was downloaded is not compared.
HashMatchesAny(l) == TRUE

HashMatches(l) == l.delivers = l.hash

\* The download is complete and the manifest that of the listing, or it is not; a
\* directory cleared underneath it leaves what was downloaded open.
Download(o) ==
  LET l == op[o].member.listing IN
  /\ op[o].step = "download"
  /\ \/ /\ HashMatches(l)
        /\ disk' = [disk EXCEPT ![l.hash] = IF l.delivers = l.hash THEN "whole" ELSE "partial"]
        /\ SetOp(o, [op[o] EXCEPT !.step = "read"])
     \/ /\ ~HashMatches(l) \/ op[o].disturbed
        /\ disk' = [disk EXCEPT ![l.hash] = "partial"]
        /\ SetOp(o, Skipped(o))
  /\ UNCHANGED <<offer, phase, result, served, seeders, halting, facts, history, changes, faults>>

\* The files are read back and archived; nothing is compared again.
ReadBack(o) ==
  LET h == HashOf(o) IN
  /\ op[o].step = "read"
  /\ \/ /\ disk[h] # "none"
        /\ copies' = [copies EXCEPT ![h] = IF disk[h] = "whole" THEN "complete" ELSE "spoilt"]
        /\ SetOp(o, [op[o] EXCEPT !.step = "seed"])
     \/ /\ disk[h] # "whole"
        /\ UNCHANGED copies /\ SetOp(o, Skipped(o))
  /\ UNCHANGED <<offer, phase, result, topics, reseeding, halting, facts, history, changes, faults>>

\* The directory is seeded, and the seeder put on the list.
Seed(o) ==
  LET h == HashOf(o) IN
  /\ op[o].step = "seed"
  /\ \/ /\ disk[h] # "none" /\ seeders[h] < MaxSeeders
        /\ seeders' = [seeders EXCEPT ![h] = @ + 1]
     \/ disk[h] = "none" /\ UNCHANGED seeders
  /\ SetOp(o, Skipped(o))
  /\ UNCHANGED <<offer, phase, result, served, disk, halting, facts, history, changes, faults>>

\* A download or a seeding fails; the member is skipped.
Fails(o) ==
  /\ op[o].step \in {"download", "seed"}
  /\ Fault
  /\ IF op[o].step = "download"
     THEN disk' = [disk EXCEPT ![HashOf(o)] = "partial"] ELSE UNCHANGED disk
  /\ SetOp(o, Skipped(o))
  /\ UNCHANGED <<offer, phase, result, served, seeders, halting, facts, history, changes>>

\* announce: the result of the moment, whoever refreshed it; then the activity ends.
IntegratorAnnounce(o) ==
  /\ op[o].step = "announce"
  /\ SetOp(o, IntegratorIdle)
  /\ phase' = IF op[o].kind = "start" THEN "up" ELSE phase
  /\ UNCHANGED <<offer, result, served, reseeding, halting, facts, latest, overlap, changes, faults>>

-------------------------------------------------------------------------------
(* The end *)

\* stop(): no further tick; the seeders on the list are stopped one by one, ...
IntegratorStop ==
  /\ phase = "up" /\ phase' = "stopping"
  /\ halting' = seeders /\ seeders' = NoSeeders
  /\ overlap' = StopOverlaps(RefreshWork)
  /\ UNCHANGED <<offer, result, served, disk, op, facts, latest, changes, faults>>

IntegratorStopSeeder ==
  /\ phase = "stopping"
  /\ IF halting = NoSeeders THEN phase' = "closing" /\ UNCHANGED halting
     ELSE /\ \E h \in OfferHashes : halting[h] > 0 /\ halting' = [halting EXCEPT ![h] = @ - 1]
          /\ UNCHANGED phase
  /\ UNCHANGED <<offer, result, served, reseeding, op, facts, history, changes, faults>>

\* ... then the server is closed, once the requests it serves are answered.
IntegratorCloses ==
  /\ ServerCloses
  /\ UNCHANGED <<offer, result, served, reseeding, halting, op, facts, history, changes, faults>>

\* The process ends when nothing of it is under way any more.
IntegratorExit ==
  /\ phase = "stopped" /\ op = AllIdle /\ seeders = NoSeeders
  /\ IntegratorGone
  /\ UNCHANGED <<offer, changes, faults>>

IntegratorDies ==
  /\ phase # "down"
  /\ Fault
  /\ IntegratorGone
  /\ UNCHANGED <<offer, changes>>

IntegratorNext ==
  /\ role = "integrator" /\ UNCHANGED role
  /\ \/ \E m \in Members : Change(m)
     \/ \E o \in Ops : \/ IntegratorStart(o) \/ IntegratorTick(o) \/ IntegratorRequest(o)
                       \/ Load(o) \/ LoadFails(o) \/ Drop(o) \/ NextMember(o) \/ Clear(o) \/ Download(o)
                       \/ ReadBack(o) \/ Seed(o) \/ Fails(o) \/ IntegratorAnnounce(o)
     \/ IntegratorStop \/ IntegratorStopSeeder \/ IntegratorCloses
     \/ IntegratorExit \/ IntegratorDies

IntegratorSpec == IntegratorInit /\ [][IntegratorNext]_integratorVars

-------------------------------------------------------------------------------
(* Properties *)

\* The current topic, which is what an announcement sends, has its LISTING_REF stored
\* and its archive on the mirror, however refreshes fail and interleave; and there is
\* one whenever an activity has come to announce (integrator.ts:71-129, 210-228).
TopicServed ==
  /\ result # None => result.topic \in facts \cap topics
  /\ role = "integrator" => \A o \in Ops : op[o].step = "announce" => result # None

\* Two members of a topic have one catalog.
Shared(h) ==
  \E o \in Ops : \E g1, g2 \in op[o].topic \cup (IF latest = None THEN {} ELSE latest.topic) :
    g1.member # g2.member /\ g1.listing.hash = h /\ g2.listing.hash = h

\* As long as no refresh runs beside another or beside stop(): every seeder on the
\* list seeds a whole directory and is alone in it, unless two members have one
\* catalog; every member archive is complete, the current topic is the one loaded
\* last unless a refresh is at work, and a stopped integrator seeds nothing
\* (integrator.ts:132-207, 379-398).
RefreshesAlone ==
  ~overlap =>
    /\ \A h \in OfferHashes : seeders[h] > 0 /\ ~Shared(h) => seeders[h] = 1 /\ disk[h] = "whole"
    /\ \A h \in OfferHashes : copies[h] # "spoilt"
    /\ (\A o \in Ops : ~Refreshing(o)) => result = latest
    /\ phase \in {"closing", "stopped"} => seeders = NoSeeders /\ halting = NoSeeders
===============================================================================
