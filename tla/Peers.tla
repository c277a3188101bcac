---------------------------------- MODULE Peers ----------------------------------
(***************************************************************************)
(* What agents leave to each other without anybody's lock: the events of a *)
(* trade, the files of a mailbox, the receipts of an index, what is asked  *)
(* of indexers and broadcast to them, the task files of a directory.  They *)
(* share no state in the code (a mail is bytes to the mailbox, a receipt   *)
(* is submitted on its own, a search keeps nothing), so they are explored  *)
(* one at a time: an initial state chooses one and the others stay as they *)
(* start.  Of an index, "receipts" explores what is submitted beside an    *)
(* export when the deals are known, "evidence" requests that fetch it, and *)
(* "queries" the site key and what a query reads during exports.           *)
(***************************************************************************)
EXTENDS Exchange, Mail, Receipts, Discovery, Tasks

CONSTANT MaxCounted  \* bound: snapshots signed while receipts are submitted

VARIABLE matter

peersVars == <<matter, exchangeVars, mailVars, receiptsVars, discoveryVars, tasksVars>>

NewIndex == ReceiptsInit /\ seed = NoKey /\ deals = {}

ServerNext == FindKey(Server) \/ Die(Server) \/ \E w \in Weights : Load(Server, w)

PeersInit ==
  /\ ExchangeInit /\ MailInit /\ DiscoveryInit /\ TasksInit
  /\ \/ matter \in {"events", "mail", "queries", "search", "item", "broadcast", "tasks"} /\ NewIndex
     \/ matter = "receipts" /\ ReceiptsInit /\ seed # NoKey /\ deals # {}
     \/ matter = "evidence" /\ ReceiptsInit /\ seed # NoKey /\ deals = {}

PeersNext ==
  /\ \/ /\ matter = "events" /\ ExchangeNext
        /\ UNCHANGED <<mailVars, receiptsVars, discoveryVars, tasksVars>>
     \/ /\ matter = "mail" /\ MailNext
        /\ UNCHANGED <<exchangeVars, receiptsVars, discoveryVars, tasksVars>>
     \/ /\ \/ matter = "receipts" /\ (ProcessNext \/ RequestNext) /\ exports' <= MaxCounted
           \/ matter = "evidence" /\ (RequestNext \/ ServerNext)
           \/ matter = "queries" /\ (ProcessNext \/ QueryNext)
        /\ UNCHANGED <<exchangeVars, mailVars, discoveryVars, tasksVars>>
     \/ /\ \/ matter = "search" /\ SearchNext
           \/ matter = "item" /\ GetNext
           \/ matter = "broadcast" /\ CastNext
        /\ UNCHANGED <<exchangeVars, mailVars, receiptsVars, tasksVars>>
     \/ /\ matter = "tasks" /\ TasksNext
        /\ UNCHANGED <<exchangeVars, mailVars, receiptsVars, discoveryVars>>
  /\ UNCHANGED matter

PeersSpec == PeersInit /\ [][PeersNext]_peersVars

-------------------------------------------------------------------------------
(* Properties *)

\* The type invariant of what is explored.
PeersTypeOK ==
  CASE matter = "mail"     -> MailTypeOK
    [] matter \in {"receipts", "evidence", "queries"} -> ReceiptsTypeOK
    [] matter \in {"search", "item", "broadcast"} -> DiscoveryTypeOK
    [] matter = "tasks"    -> TasksTypeOK
    [] OTHER               -> ExchangeTypeOK
===============================================================================
