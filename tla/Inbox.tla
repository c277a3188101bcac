--------------------------------- MODULE Inbox ---------------------------------
(***************************************************************************)
(* trade-inboxd: the daemon of apps/trade-inboxd supervises one watch of   *)
(* the AgentMail adapter (adapters/contact-agentmail), puts each message   *)
(* it receives into the WakeQueue and triggers the local model.            *)
(*                                                                         *)
(* A watch is a WebSocket and the chain of deliveries received on it,      *)
(* worked off one after the other.  When a watch fails, the daemon waits   *)
(* and opens another, while the chain of the failed one may still run.     *)
(* Connections are slots, used again once nothing of the old watch is      *)
(* left.  Callbacks run to their next await without interruption; each     *)
(* step below is such a stretch.                                           *)
(***************************************************************************)
EXTENDS WakeQueue, Sequences

CONSTANTS
  MaxChain,    \* bound: deliveries waiting on one connection
  MaxBackoff,  \* doublings until reconnectMaxMs is reached
  MaxReceived,    \* bound: deliveries the provider makes
  MaxInboxFaults  \* bound: crashes, failed writes, unreadable messages

ASSUME InboxAssumption ==
  /\ MaxChain \in Nat /\ MaxReceived \in Nat
  /\ MaxInboxFaults \in Nat /\ MaxBackoff \in Nat
  /\ NoMessage \notin Writers

Conns == Writers
NoConn == NoMessage

VARIABLES
  strict,     \* close() of the socket refuses code 1011: the WebSocket of Node
              \* takes 1000 and 3000-4999 only, another factory's may take it
  sock,       \* the WebSocket of each connection; "ended" closed with code
              \* 1000, "dropped" with another
  settled,    \* its done promise: "no", "ok", "failed"
  asked,      \* intentionalClose
  chain,      \* messages received on it, not yet begun
  phase,      \* where run() is
  aborted,    \* stop() was called
  active,     \* activeWatcher
  backoff,    \* doublings of the reconnect delay
  tail,       \* CommandWakeTrigger: commands queued, the first one running
  awaited,    \* run() still waits for that many of them
  lost,       \* history: messages whose handling failed or died
  received,    \* history: deliveries so far
  inboxFaults  \* history: faults so far

wires == <<strict, sock, settled, asked>>
daemon == <<phase, aborted, active, backoff>>
triggers == <<tail, awaited>>
history == <<lost, inboxFaults, received>>
inboxVars == <<qvars, wires, chain, daemon, triggers, history>>

Opening == {"connecting", "open"}
Closed == {"ended", "dropped"}

InboxTypeOK ==
  /\ QTypeOK
  /\ strict \in BOOLEAN
  /\ sock \in [Conns -> {"none", "closing"} \cup Opening \cup Closed]
  /\ settled \in [Conns -> {"no", "ok", "failed"}]
  /\ asked \in [Conns -> BOOLEAN]
  /\ chain \in [Conns -> Seq(Messages)]
  /\ phase \in {"connect", "watch", "wait", "drain", "stopped", "dead"}
  /\ aborted \in BOOLEAN
  /\ active \in Conns \cup {NoConn}
  /\ backoff \in 0 .. MaxBackoff
  /\ tail \in Seq(Messages)
  /\ awaited \in Nat
  /\ lost \subseteq Messages
  /\ received \in Nat /\ inboxFaults \in Nat

InboxInit ==
  /\ QInit
  /\ strict \in BOOLEAN
  /\ sock = [c \in Conns |-> "none"] /\ settled = [c \in Conns |-> "ok"]
  /\ asked = [c \in Conns |-> FALSE] /\ chain = [c \in Conns |-> <<>>]
  /\ phase = "connect" /\ aborted = FALSE /\ active = NoConn /\ backoff = 0
  /\ tail = <<>> /\ awaited = 0
  /\ lost = {} /\ received = 0 /\ inboxFaults = 0

Fault == inboxFaults < MaxInboxFaults /\ inboxFaults' = inboxFaults + 1

-------------------------------------------------------------------------------
(* The socket (external) and the adapter's listeners on it                    *)

SetSock(c, s) == sock' = [sock EXCEPT ![c] = s]
SettleAs(c, how) == settled' = [settled EXCEPT ![c] = IF @ = "no" THEN how ELSE @]
HangUp(c) == sock' = [sock EXCEPT ![c] = IF @ \in Opening THEN "closing" ELSE @]

InHand(m) ==
  \E c \in Conns : work[c].msg = m \/ \E i \in DOMAIN chain[c] : chain[c][i] = m

\* The process is gone, and all it held: only the queue directory is left.
Die ==
  /\ phase' = "dead" /\ active' = NoConn /\ aborted' = FALSE /\ backoff' = 0
  /\ work' = [c \in Conns |-> Idle] /\ raced' = [c \in Conns |-> FALSE]
  /\ sock' = [c \in Conns |-> "none"] /\ settled' = [c \in Conns |-> "ok"]
  /\ asked' = [c \in Conns |-> FALSE] /\ chain' = [c \in Conns |-> <<>>]
  /\ tail' = <<>> /\ awaited' = 0
  /\ lost' = lost \cup {m \in Messages : InHand(m)}
  /\ UNCHANGED <<pending, done, acking, accepted, strict, received>>

\* Open, and subscribe.
Open(c) ==
  /\ sock[c] = "connecting"
  /\ SetSock(c, "open")
  /\ UNCHANGED <<qvars, strict, settled, asked, chain, daemon, triggers, history>>

\* The provider delivers a message, possibly not for the first time.
Receive(c, m) ==
  /\ sock[c] = "open" /\ Len(chain[c]) < MaxChain /\ received < MaxReceived
  /\ received' = received + 1
  /\ chain' = [chain EXCEPT ![c] = Append(@, m)]
  /\ UNCHANGED <<qvars, wires, daemon, triggers, lost, inboxFaults>>

\* The connect watchdog: a socket that does not open fails the watch.
ConnectTimeout(c) ==
  /\ sock[c] = "connecting" /\ settled[c] = "no"
  /\ SettleAs(c, "failed") /\ HangUp(c)
  /\ UNCHANGED <<qvars, strict, asked, chain, daemon, triggers, history>>

\* The error listener fails the watch and closes the socket with 1011; what
\* that throws in a listener, nobody catches.
SocketError(c) ==
  /\ sock[c] \in Opening \cup {"closing"} /\ ~asked[c]
  /\ \/ ~strict /\ SettleAs(c, "failed") /\ HangUp(c)
        /\ UNCHANGED <<qvars, strict, asked, chain, daemon, triggers, history>>
     \/ strict /\ Die /\ UNCHANGED inboxFaults

SocketClose(c) ==
  /\ sock[c] \in Opening \cup {"closing"}
  /\ \E s \in Closed : SetSock(c, s)
  /\ UNCHANGED <<qvars, strict, settled, asked, chain, daemon, triggers, history>>

HandlingDone(c) == chain[c] = <<>> /\ work[c] = Idle

\* Mutant: the close listener does not wait for the deliveries.
CloseHandledEarly(c) == sock[c] \in Closed

\* Mutant: a close with another code than 1000 is overlooked.
CloseHandledNormal(c) == sock[c] = "ended" /\ HandlingDone(c)

CloseHandled(c) == sock[c] \in Closed /\ HandlingDone(c)

\* The close listener settles the watch when its deliveries are done.
Settle(c) ==
  /\ CloseHandled(c) /\ settled[c] = "no"
  /\ SettleAs(c, IF asked[c] \/ sock[c] = "ended" THEN "ok" ELSE "failed")
  /\ UNCHANGED <<qvars, strict, sock, asked, chain, daemon, triggers, history>>

-------------------------------------------------------------------------------
(* Deliveries: parse, enqueue, trigger                                        *)

\* Mutant: the failed watch leaves its socket open.
HandlingFailedOpen(c, m) ==
  /\ SettleAs(c, "failed") /\ UNCHANGED sock
  /\ lost' = lost \cup {m}

\* The catch of one delivery: the watch fails, its socket is closed with 1011,
\* deliveries behind it still run.  If close() throws, the delivery chain
\* rejects with nobody to catch it.
HandlingFailed(c, m) ==
  /\ SettleAs(c, "failed") /\ HangUp(c)
  /\ lost' = lost \cup {m}

\* Mutant: deliveries of a watch that has failed are left alone.
HasNextUnsettled(c) == chain[c] # <<>> /\ settled[c] = "no"

HasNext(c) == chain[c] # <<>>

Begin(c) ==
  /\ HasNext(c)
  /\ EnqueueStart(c, Head(chain[c]))
  /\ chain' = [chain EXCEPT ![c] = Tail(@)]
  /\ UNCHANGED <<wires, daemon, triggers, history>>

Unreadable(c) ==
  /\ HasNext(c) /\ work[c] = Idle /\ Fault
  /\ \/ ~strict /\ HandlingFailed(c, Head(chain[c]))
        /\ chain' = [chain EXCEPT ![c] = Tail(@)]
        /\ UNCHANGED <<qvars, strict, asked, daemon, triggers, received>>
     \/ strict /\ Die

EnqueueStep(c) ==
  /\ EnqueueCheck(c) \/ EnqueueLink(c) \/ EnqueueChmod(c)
  /\ UNCHANGED <<wires, chain, daemon, triggers, history>>

DiskFault(c) ==
  /\ EnqueueFail(c) /\ Fault
  /\ UNCHANGED <<wires, chain, daemon, triggers, lost, received>>

\* receive(): the trigger is notified and not awaited.
Notify(c) ==
  /\ EnqueueReturn(c, "accepted")
  /\ tail' = Append(tail, work[c].msg)
  /\ UNCHANGED <<wires, chain, daemon, awaited, history>>

Drop(c) ==
  /\ EnqueueReturn(c, "duplicate")
  /\ UNCHANGED <<wires, chain, daemon, triggers, history>>

Reject(c) ==
  \/ /\ ~strict /\ EnqueueReturn(c, "failed")
     /\ HandlingFailed(c, work[c].msg)
     /\ UNCHANGED <<strict, asked, chain, daemon, triggers, inboxFaults, received>>
  \/ strict /\ work[c].step = "failed" /\ Die /\ UNCHANGED inboxFaults

Deliver(c) == Begin(c) \/ EnqueueStep(c) \/ Notify(c) \/ Drop(c) \/ Reject(c)

\* A command ends, fails or is killed at its timeout; the next one starts.
TriggerEnds ==
  /\ tail # <<>>
  /\ tail' = Tail(tail)
  /\ awaited' = IF awaited = 0 THEN 0 ELSE awaited - 1
  /\ UNCHANGED <<qvars, wires, chain, daemon, history>>

-------------------------------------------------------------------------------
(* run() and stop()                                                           *)

Free(c) == sock[c] \in {"none"} \cup Closed /\ settled[c] # "no" /\ HandlingDone(c)

\* watch() returns before the socket opens, and the delay is reset.
Connect(c) ==
  /\ phase = "connect" /\ ~aborted /\ Free(c)
  /\ SetSock(c, "connecting")
  /\ settled' = [settled EXCEPT ![c] = "no"]
  /\ asked' = [asked EXCEPT ![c] = FALSE]
  /\ active' = c /\ phase' = "watch" /\ backoff' = 0
  /\ UNCHANGED <<qvars, strict, chain, aborted, triggers, history>>

\* watch() throws: no WebSocket can be made.
ConnectThrows ==
  /\ phase = "connect" /\ ~aborted /\ Fault
  /\ phase' = "wait"
  /\ UNCHANGED <<qvars, wires, chain, aborted, active, backoff, triggers, lost, received>>

\* done has settled: leave when stopped, otherwise wait before the next watch.
WatchEnds ==
  /\ phase = "watch" /\ settled[active] # "no"
  /\ IF aborted
     THEN phase' = "drain" /\ active' = NoConn /\ awaited' = Len(tail)
     ELSE phase' = "wait" /\ UNCHANGED <<active, awaited>>
  /\ UNCHANGED <<qvars, wires, chain, aborted, backoff, tail, history>>

\* Mutant: the delay grows past reconnectMaxMs.
LongerUncapped(b) == b + 1

Longer(b) == IF b = MaxBackoff THEN b ELSE b + 1

\* The delay is over, or cut short by stop().
WaitEnds ==
  /\ phase = "wait"
  /\ phase' = "connect" /\ active' = NoConn /\ backoff' = Longer(backoff)
  /\ UNCHANGED <<qvars, wires, chain, aborted, triggers, history>>

\* adapter.close() finds no unsettled watch; the triggers of now are awaited.
Leave ==
  /\ phase = "connect" /\ aborted
  /\ phase' = "drain" /\ awaited' = Len(tail)
  /\ UNCHANGED <<qvars, wires, chain, aborted, active, backoff, tail, history>>

Finish ==
  /\ phase = "drain" /\ awaited = 0
  /\ phase' = "stopped"
  /\ UNCHANGED <<qvars, wires, chain, aborted, active, backoff, triggers, history>>

\* Mutant: the watch is left open.
CloseActiveNot == UNCHANGED <<sock, asked>>

\* activeWatcher?.close()
CloseActive ==
  IF active = NoConn THEN UNCHANGED <<sock, asked>>
  ELSE HangUp(active) /\ asked' = [asked EXCEPT ![active] = TRUE]

Stop ==
  /\ phase \in {"connect", "watch", "wait"} /\ ~aborted
  /\ aborted' = TRUE /\ CloseActive
  /\ UNCHANGED <<qvars, strict, settled, chain, phase, active, backoff, triggers, history>>

\* The process dies at any time, and is started again.
Crash == phase # "dead" /\ Fault /\ Die

InboxRestart ==
  /\ phase = "dead" /\ phase' = "connect"
  /\ UNCHANGED <<qvars, wires, chain, aborted, active, backoff, triggers, history>>

Acknowledge(r) ==
  /\ AckRename(r) \/ \E m \in Messages : AckCheck(r, m)
  /\ UNCHANGED <<wires, chain, daemon, triggers, history>>

-------------------------------------------------------------------------------
Socket(c) ==
  \/ Open(c) \/ \E m \in Messages : Receive(c, m)
  \/ ConnectTimeout(c) \/ SocketError(c) \/ SocketClose(c) \/ Settle(c)

InboxNext ==
  \/ \E c \in Conns : Socket(c) \/ Deliver(c) \/ Unreadable(c) \/ DiskFault(c) \/ Connect(c)
  \/ TriggerEnds \/ ConnectThrows \/ WatchEnds \/ WaitEnds \/ Leave \/ Finish \/ Stop
  \/ Crash \/ InboxRestart
  \/ \E r \in Readers : Acknowledge(r)

InboxSafe == InboxInit /\ [][InboxNext]_inboxVars

\* The event loop runs what is ready, timers fire, a socket that is closing
\* reports its close, and a trigger command ends or is killed.
InboxFairness ==
  /\ \A c \in Conns :
       /\ WF_inboxVars(Deliver(c)) /\ WF_inboxVars(Settle(c)) /\ WF_inboxVars(ConnectTimeout(c))
       /\ WF_inboxVars(sock[c] = "closing" /\ SocketClose(c))
  /\ WF_inboxVars(\E c \in Conns : Connect(c))
  /\ WF_inboxVars(WatchEnds) /\ WF_inboxVars(WaitEnds) /\ WF_inboxVars(Leave) /\ WF_inboxVars(Finish)
  /\ WF_inboxVars(TriggerEnds)

InboxSpec == InboxSafe /\ InboxFairness

-------------------------------------------------------------------------------
(* Properties *)

\* Only the watch run() is waiting for is unsettled or has a socket that can
\* still deliver: a failed watch never delivers beside its successor, and
\* nothing is left open when run() returns.  (daemon.ts:53-82.)
OnlyWatch ==
  \A c \in Conns : sock[c] \in Opening \/ settled[c] = "no" =>
    phase = "watch" /\ active = c

\* A watch that ends well, as by stop(), has handled all it received.
\* (adapter.ts:250-255 and 257-265.)
HandledBeforeDone == \A c \in Conns : settled[c] = "ok" => HandlingDone(c)

\* A message received gets into the queue, unless its own handling fails or
\* the process dies; failures of other messages and of the connection do not
\* matter, nor does stop().  (adapter.ts:235-243, daemon.ts:85-122.)
ReceivedIsQueued ==
  \A m \in Messages : InHand(m) ~> m \in pending \cup done \cup lost

\* stop() ends run(), whatever the connection and the triggers are doing.
\* (daemon.ts:61-66, 71, 77-88.)
StopEnds == aborted ~> phase \in {"stopped", "dead"}

\* Until it is stopped the daemon is connected again and again, or makes a new
\* attempt again and again: no failure leaves it deaf.  (daemon.ts:53-76,
\* adapter.ts:199-211.)
KeepsTrying ==
  \/ []<>(phase = "dead" \/ aborted \/ \E c \in Conns : sock[c] = "open")
  \/ []<><<\E c \in Conns : Connect(c)>>_inboxVars

\* The daemon supervises its connection: a failed one is answered by a wait
\* and a new one, and only a fault of the process or the disk ends it.
\* (adapter.ts:199-201 and 235-249, daemon.ts:63-72.)
OnlyFaultsKill == phase = "dead" => inboxFaults > 0
===============================================================================
