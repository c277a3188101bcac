-------------------------------- MODULE Station --------------------------------
(***************************************************************************)
(* apps/station: a process runs one role, the same at every start; the     *)
(* role is chosen in the initial state.  The state of the other roles      *)
(* stays what it is in a process that never had them.                      *)
(***************************************************************************)
EXTENDS Listings, Publisher, Integrator

indexerState == <<keys, index, file, stored, answers>>
catalogState == <<dir, current, live, ending, archives, heard, lost>>
topicState == <<offer, result, served, reseeding, halting, latest>>
stationVars ==
  <<role, phase, op, overlap, facts, changes, faults, indexerState, catalogState, topicState>>

\* parseCli and loadConfig agree on one role; the other blocks of the configuration
\* are not looked at.
IndexerUnused == IndexerEmpty
PublisherUnused == PublisherFresh /\ dir = CHOOSE v \in Versions : TRUE
IntegratorUnused == IntegratorFresh /\ disk = EmptyDisk /\ offer = [m \in Members |-> None]

StationInit ==
  \/ IndexerInit /\ PublisherUnused /\ IntegratorUnused
  \/ PublisherInit /\ IndexerUnused /\ IntegratorUnused
  \/ IntegratorInit /\ IndexerUnused /\ PublisherUnused

StationNext ==
  \/ IndexerNext /\ UNCHANGED <<catalogState, topicState>>
  \/ PublisherNext /\ UNCHANGED <<indexerState, topicState>>
  \/ IntegratorNext /\ UNCHANGED <<indexerState, catalogState>>

StationSpec == StationInit /\ [][StationNext]_stationVars /\ PublisherFairness

-------------------------------------------------------------------------------
(* Properties *)

\* The type invariant of the role that runs.
StationTypeOK ==
  CASE role = "indexer" -> IndexerTypeOK
    [] role = "publisher" -> PublisherTypeOK
    [] role = "integrator" -> IntegratorTypeOK
===============================================================================
