---------------------------- MODULE StationContext ----------------------------
(***************************************************************************)
(* apps/station: what the process of a station is made of whatever its     *)
(* role.  runStation takes one role, from the command line, which has to   *)
(* be the one of the configuration; it opens the store, starts the role,   *)
(* and at a signal stops the role, closes the store and leaves the process *)
(* to end by itself.                                                       *)
(***************************************************************************)
EXTENDS Naturals, FiniteSets

CONSTANTS
  Ops,        \* activities that can be under way at once in one process
  None,
  MaxChanges, \* bound: changes of what surrounds the station
  MaxFaults   \* bound: failed writes, downloads and seedings, and deaths

ASSUME StationAssumption == IsFiniteSet(Ops) /\ Ops # {} /\ MaxChanges \in Nat /\ MaxFaults \in Nat

VARIABLES
  role,       \* of the process, at every start the same
  phase,      \* of the role
  op,         \* activities under way
  facts,      \* .data/objects: what LISTING_REFs are stored
  overlap,    \* history: an activity ran beside another, or beside stop()
  changes, faults

Roles == {"indexer", "publisher", "integrator"}
Phases == {"down", "starting", "up", "stopping", "closing", "stopped"}

ContextTypeOK ==
  /\ role \in Roles /\ phase \in Phases /\ overlap \in BOOLEAN
  /\ changes \in 0 .. MaxChanges /\ faults \in 0 .. MaxFaults

Fault == faults < MaxFaults /\ faults' = faults + 1
Changed == changes < MaxChanges /\ changes' = changes + 1

\* An activity begins work while another is between two awaits, or after stop()
\* was called.
Overlaps(o, work) ==
  overlap \/ phase \notin {"down", "starting", "up"} \/ \E p \in Ops \ {o} : op[p].step \in work

\* stop() was called while an activity was at work.
StopOverlaps(work) == overlap \/ \E o \in Ops : op[o].step \in work

\* The server is closed once the requests it serves are answered.
ServerCloses ==
  /\ phase = "closing" /\ phase' = "stopped"
  /\ \A o \in Ops : op[o].kind # "request"
===============================================================================
