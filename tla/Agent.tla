---------------------------------- MODULE Agent ----------------------------------
(***************************************************************************)
(* What an agent's own machine does, beside its station: the store of its  *)
(* trades, its adapters that pay for them, its daemon that waits for mail. *)
(* The adapters use the store as Settlement describes it and the daemon's  *)
(* queue is a directory of its own, so the three are explored one at a     *)
(* time: an initial state chooses one and the others stay as they start.   *)
(***************************************************************************)
EXTENDS StoreProperties, Settlement, Inbox

VARIABLE part

agentVars == <<part, vars, payVars, inboxVars>>

AgentInit ==
  /\ part \in {"store", "payment", "inbox"}
  /\ Init /\ PayInit /\ InboxInit
  /\ strict => part = "inbox"

AgentNext ==
  /\ \/ part = "store" /\ Next /\ UNCHANGED <<payVars, inboxVars>>
     \/ part = "payment" /\ PayNext /\ UNCHANGED <<vars, inboxVars>>
     \/ part = "inbox" /\ InboxNext /\ UNCHANGED <<vars, payVars>>
  /\ UNCHANGED part

AgentSpec == AgentInit /\ [][AgentNext]_agentVars

-------------------------------------------------------------------------------
(* Properties *)

\* The type invariant of the queue and the daemon, the cap of the reconnect
\* delay included (daemon.ts:60-76), and of the adapters, the tasks and what
\* they have put on disk.
AgentTypeOK == CASE part = "inbox"   -> InboxTypeOK
                 [] part = "payment" -> PayTypeOK
                 [] OTHER            -> TypeOK
===============================================================================
