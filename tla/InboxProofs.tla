------------------------------ MODULE InboxProofs ------------------------------
(***************************************************************************)
(* Proofs about Inbox for every set of messages, connections and readers   *)
(* and every bound: types, the supervision of the watches, and what a      *)
(* redelivery can do to the queue.                                         *)
(***************************************************************************)
EXTENDS Inbox, TLAPS

LEMMA TypeStep == InboxTypeOK /\ [InboxNext]_inboxVars => InboxTypeOK'
<1> SUFFICES ASSUME InboxTypeOK, [InboxNext]_inboxVars PROVE InboxTypeOK'
  OBVIOUS
<1> USE DEF InboxTypeOK, QTypeOK
<1> DEFINE Works == [step : Running \cup Results, msg : Messages] \cup {Idle}
<1>1. ASSUME NEW c \in Conns, Open(c) PROVE InboxTypeOK'
  BY <1>1 DEF Open, SetSock, Opening, qvars, daemon, triggers, history
<1>2. ASSUME NEW c \in Conns, NEW m \in Messages, Receive(c, m) PROVE InboxTypeOK'
  BY <1>2 DEF Receive, qvars, wires, daemon, triggers, history
<1>3. ASSUME NEW c \in Conns, ConnectTimeout(c) PROVE InboxTypeOK'
  BY <1>3 DEF ConnectTimeout, SettleAs, HangUp, Opening, qvars, daemon, triggers, history
<1>4. ASSUME Die, inboxFaults' \in Nat PROVE InboxTypeOK'
  <2>1. /\ work' \in [Conns -> Works] /\ raced' \in [Conns -> BOOLEAN]
        /\ chain' \in [Conns -> Seq(Messages)] /\ asked' \in [Conns -> BOOLEAN]
    BY <1>4 DEF Die
  <2>2. /\ sock' \in [Conns -> {"none", "closing"} \cup Opening \cup Closed]
        /\ settled' \in [Conns -> {"no", "ok", "failed"}] /\ tail' \in Seq(Messages)
    BY <1>4 DEF Die
  <2>3. lost' \subseteq Messages /\ awaited' \in Nat /\ backoff' \in 0 .. MaxBackoff
    BY <1>4, InboxAssumption DEF Die
  <2> QED
    BY <1>4, <2>1, <2>2, <2>3 DEF Die, Conns
<1>5. ASSUME NEW c \in Conns, SocketError(c) PROVE InboxTypeOK'
  <2>1. CASE ~strict
    BY <1>5, <2>1 DEF SocketError, SettleAs, HangUp, Opening, qvars, daemon, triggers, history
  <2>2. CASE strict
    BY <1>4, <1>5, <2>2 DEF SocketError
  <2> QED
    BY <2>1, <2>2
<1>6. ASSUME NEW c \in Conns, SocketClose(c) PROVE InboxTypeOK'
  BY <1>6 DEF SocketClose, SetSock, Closed, qvars, daemon, triggers, history
<1>7. ASSUME NEW c \in Conns, Settle(c) PROVE InboxTypeOK'
  BY <1>7 DEF Settle, SettleAs, qvars, daemon, triggers, history
<1>8. ASSUME NEW c \in Conns, Begin(c) PROVE InboxTypeOK'
  <2>1. Head(chain[c]) \in Messages /\ Tail(chain[c]) \in Seq(Messages)
    BY <1>8 DEF Begin, HasNext
  <2> QED
    BY <1>8, <2>1 DEF Begin, EnqueueStart, Running, wires, daemon, triggers, history
<1>9. ASSUME NEW c \in Conns, Unreadable(c) PROVE InboxTypeOK'
  <2>1. Head(chain[c]) \in Messages /\ Tail(chain[c]) \in Seq(Messages)
    BY <1>9 DEF Unreadable, HasNext
  <2>2. inboxFaults' \in Nat
    BY <1>9 DEF Unreadable, Fault
  <2>3. CASE ~strict
    BY <1>9, <2>1, <2>2, <2>3
    DEF Unreadable, HandlingFailed, SettleAs, HangUp, Opening, qvars, daemon, triggers
  <2>4. CASE strict
    BY <1>4, <1>9, <2>2, <2>4 DEF Unreadable
  <2> QED
    BY <2>3, <2>4
<1>10. ASSUME NEW c \in Conns, work[c].step \in Running PROVE work[c].msg \in Messages
  BY <1>10 DEF Idle, Running, Results, Conns
<1>11. ASSUME NEW c \in Conns, work[c].step \in Running, NEW s \in Running \cup Results
       PROVE  [work EXCEPT ![c].step = s] \in [Conns -> Works]
  <2>1. work[c] \in [step : Running \cup Results, msg : Messages]
    BY <1>11 DEF Idle, Running, Results, Conns
  <2>2. [work[c] EXCEPT !.step = s] \in Works
    BY <2>1
  <2> QED
    BY <2>2 DEF Conns
<1>12. ASSUME NEW c \in Conns, EnqueueStep(c) PROVE InboxTypeOK'
  <2>1. CASE EnqueueCheck(c)
    BY <1>11, <1>12, <2>1
    DEF EnqueueStep, EnqueueCheck, GoTo, Running, Results, Conns, wires, daemon, triggers, history
  <2>2. CASE EnqueueLink(c)
    <3>0. work[c].step \in Running /\ {"duplicate", "chmod"} \subseteq Running \cup Results
      BY <2>2 DEF EnqueueLink, Running, Results
    <3>1. work[c].msg \in Messages /\ work' \in [Conns -> Works]
      <4>1. PICK st \in {"duplicate", "chmod"} : work' = [work EXCEPT ![c].step = st]
        BY <2>2 DEF EnqueueLink, GoTo
      <4>2. st \in Running \cup Results
        BY <3>0
      <4> QED
        BY <1>10, <1>11, <3>0, <4>1, <4>2
    <3>2. pending' \subseteq Messages /\ accepted' \subseteq Messages
      BY <2>2, <3>1 DEF EnqueueLink
    <3> QED
      BY <1>12, <2>2, <3>1, <3>2 DEF EnqueueStep, EnqueueLink, Conns, wires, daemon, triggers, history
  <2>3. CASE EnqueueChmod(c)
    BY <1>11, <1>12, <2>3
    DEF EnqueueStep, EnqueueChmod, GoTo, Running, Results, Conns, wires, daemon, triggers, history
  <2> QED
    BY <1>12, <2>1, <2>2, <2>3 DEF EnqueueStep
<1>13. ASSUME NEW c \in Conns, DiskFault(c) PROVE InboxTypeOK'
  <2>1. work' \in [Conns -> Works]
    BY <1>11, <1>13 DEF DiskFault, EnqueueFail, Throw, GoTo, Results
  <2>2. inboxFaults' \in Nat
    BY <1>13 DEF DiskFault, Fault
  <2> QED
    BY <1>13, <2>1, <2>2 DEF DiskFault, EnqueueFail, Conns, wires, daemon, triggers
<1>14. ASSUME NEW c \in Conns, NEW s \in Results, EnqueueReturn(c, s) PROVE QTypeOK' /\ work[c].msg \in Messages
  BY <1>14 DEF EnqueueReturn, Results, Idle, Conns
<1>15. ASSUME NEW c \in Conns, Notify(c) PROVE InboxTypeOK'
  BY <1>14, <1>15 DEF Notify, Results, wires, daemon, history
<1>16. ASSUME NEW c \in Conns, Drop(c) PROVE InboxTypeOK'
  BY <1>14, <1>16 DEF Drop, Results, wires, daemon, triggers, history
<1>17. ASSUME NEW c \in Conns, Reject(c) PROVE InboxTypeOK'
  <2>1. CASE ~strict
    BY <1>14, <1>17, <2>1
    DEF Reject, Results, HandlingFailed, SettleAs, HangUp, Opening, daemon, triggers
  <2>2. CASE strict
    BY <1>4, <1>17, <2>2 DEF Reject
  <2> QED
    BY <2>1, <2>2
<1>18. CASE TriggerEnds
  BY <1>18 DEF TriggerEnds, qvars, wires, daemon, history
<1>19. ASSUME NEW c \in Conns, Connect(c) PROVE InboxTypeOK'
  BY <1>19, InboxAssumption DEF Connect, SetSock, Opening, qvars, triggers, history
<1>20. CASE ConnectThrows
  BY <1>20 DEF ConnectThrows, Fault, qvars, wires, triggers
<1>21. CASE WatchEnds
  <2>1. Len(tail) \in Nat
    BY DEF InboxTypeOK
  <2> QED
    BY <1>21, <2>1 DEF WatchEnds, qvars, wires, history
<1>22. CASE WaitEnds
  <2>1. Longer(backoff) \in 0 .. MaxBackoff
    BY InboxAssumption DEF Longer
  <2> QED
    BY <1>22, <2>1 DEF WaitEnds, qvars, wires, triggers, history
<1>23. CASE Leave
  BY <1>23 DEF Leave, qvars, wires, history
<1>24. CASE Finish
  BY <1>24 DEF Finish, qvars, wires, triggers, history
<1>25. CASE Stop
  BY <1>25 DEF Stop, CloseActive, HangUp, Opening, qvars, triggers, history
<1>26. CASE Crash
  BY <1>4, <1>26 DEF Crash, Fault
<1>27. CASE InboxRestart
  BY <1>27 DEF InboxRestart, qvars, wires, triggers, history
<1>28. ASSUME NEW r \in Readers, Acknowledge(r) PROVE InboxTypeOK'
  BY <1>28 DEF Acknowledge, AckRename, AckCheck, wires, daemon, triggers, history
<1>29. CASE UNCHANGED inboxVars
  BY <1>29 DEF inboxVars, qvars, wires, daemon, triggers, history
<1> QED
  BY <1>1, <1>2, <1>3, <1>5, <1>6, <1>7, <1>8, <1>9, <1>12, <1>13, <1>15, <1>16, <1>17, <1>18,
     <1>19, <1>20, <1>21, <1>22, <1>23, <1>24, <1>25, <1>26, <1>27, <1>28, <1>29
  DEF InboxNext, Socket, Deliver

\* An unsettled watch is the one run() waits for, and only it has a socket that
\* can deliver; a watch that ended well has nothing left to handle.
WatchInv ==
  /\ OnlyWatch /\ HandledBeforeDone
  /\ \A c \in Conns : sock[c] \in Opening => settled[c] = "no"

LEMMA WatchStep == InboxTypeOK /\ WatchInv /\ [InboxNext]_inboxVars => WatchInv'
<1> SUFFICES ASSUME InboxTypeOK, WatchInv, [InboxNext]_inboxVars PROVE WatchInv'
  OBVIOUS
<1> DEFINE Quiet == sock' = sock /\ settled' = settled /\ chain' = chain /\ work' = work
<1> USE DEF WatchInv, OnlyWatch, HandledBeforeDone, HandlingDone
<1>0. /\ sock \in [Conns -> {"none", "closing"} \cup Opening \cup Closed]
      /\ settled \in [Conns -> {"no", "ok", "failed"}]
      /\ work \in [Conns -> [step : Running \cup Results, msg : Messages] \cup {Idle}]
      /\ chain \in [Conns -> Seq(Messages)]
  BY DEF InboxTypeOK, QTypeOK, Conns
<1> USE DEF Opening, Closed
<1>1. ASSUME NEW c \in Conns, Open(c) PROVE WatchInv'
  BY <1>0, <1>1 DEF Open, SetSock, qvars, daemon
<1>2. ASSUME NEW c \in Conns, NEW m \in Messages, Receive(c, m) PROVE WatchInv'
  BY <1>0, <1>2 DEF Receive, qvars, wires, daemon
<1>3. ASSUME NEW c \in Conns, ConnectTimeout(c) PROVE WatchInv'
  BY <1>0, <1>3 DEF ConnectTimeout, SettleAs, HangUp, qvars, daemon
<1>4. ASSUME Die PROVE WatchInv'
  BY <1>4 DEF Die
<1>5. ASSUME NEW c \in Conns, SocketError(c) PROVE WatchInv'
  BY <1>0, <1>4, <1>5 DEF SocketError, SettleAs, HangUp, qvars, daemon
<1>6. ASSUME NEW c \in Conns, SocketClose(c) PROVE WatchInv'
  BY <1>0, <1>6 DEF SocketClose, SetSock, qvars, daemon
<1>7. ASSUME NEW c \in Conns, Settle(c) PROVE WatchInv'
  BY <1>0, <1>7 DEF Settle, SettleAs, CloseHandled, qvars, daemon
<1>8. ASSUME NEW c \in Conns, Begin(c) PROVE WatchInv'
  BY <1>0, <1>8 DEF Begin, EnqueueStart, HasNext, Conns, wires, daemon
<1>9. ASSUME NEW c \in Conns, Unreadable(c) PROVE WatchInv'
  BY <1>0, <1>4, <1>9 DEF Unreadable, HasNext, HandlingFailed, SettleAs, HangUp, qvars, daemon
<1>10. ASSUME NEW c \in Conns, NEW d \in Conns, work'[d] # work[d], work[c].step # "idle",
              \A e \in Conns \ {c} : work'[e] = work[e]
       PROVE  settled[d] # "ok"
  BY <1>10 DEF Idle
<1>11. ASSUME NEW c \in Conns, EnqueueStep(c) \/ DiskFault(c) \/ Notify(c) \/ Drop(c) PROVE WatchInv'
  <2>1. /\ work[c].step # "idle" /\ \A e \in Conns \ {c} : work'[e] = work[e]
        /\ UNCHANGED <<wires, chain, daemon>>
    BY <1>0, <1>11
    DEF EnqueueStep, EnqueueCheck, EnqueueLink, EnqueueChmod, DiskFault, EnqueueFail, Throw,
        Notify, Drop, EnqueueReturn, GoTo, Running
  <2> QED
    BY <1>0, <1>10, <2>1 DEF wires, daemon
<1>12. ASSUME NEW c \in Conns, Reject(c) PROVE WatchInv'
  <2>1. CASE ~strict
    <3>1. /\ work[c].step # "idle" /\ \A e \in Conns \ {c} : work'[e] = work[e]
          /\ HandlingFailed(c, work[c].msg) /\ UNCHANGED <<chain, daemon>>
      BY <1>0, <1>12, <2>1 DEF Reject, EnqueueReturn
    <3> QED
      BY <1>0, <1>10, <3>1 DEF HandlingFailed, SettleAs, HangUp, daemon
  <2>2. CASE strict
    BY <1>4, <1>12, <2>2 DEF Reject
  <2> QED
    BY <2>1, <2>2
<1>13. ASSUME NEW c \in Conns, Connect(c) PROVE WatchInv'
  BY <1>0, <1>13 DEF Connect, SetSock, qvars
<1>14. CASE Quiet /\ (WatchEnds \/ ConnectThrows \/ WaitEnds \/ Leave \/ Finish \/ InboxRestart)
  BY <1>14 DEF WatchEnds, ConnectThrows, WaitEnds, Leave, Finish, InboxRestart
<1>15. CASE Stop
  BY <1>0, <1>15 DEF Stop, CloseActive, HangUp, qvars
<1>16. CASE Quiet /\ UNCHANGED daemon
  BY <1>16 DEF daemon
<1>17. ASSUME TriggerEnds \/ UNCHANGED inboxVars \/ \E r \in Readers : Acknowledge(r)
       PROVE  Quiet /\ UNCHANGED daemon
  BY <1>17 DEF TriggerEnds, inboxVars, Acknowledge, AckRename, AckCheck, qvars, wires
<1>18. ASSUME WatchEnds \/ ConnectThrows \/ WaitEnds \/ Leave \/ Finish \/ InboxRestart PROVE Quiet
  BY <1>18 DEF WatchEnds, ConnectThrows, WaitEnds, Leave, Finish, InboxRestart, qvars, wires
<1> QED
  BY <1>1, <1>2, <1>3, <1>4, <1>5, <1>6, <1>7, <1>8, <1>9, <1>11, <1>12, <1>13, <1>14, <1>15,
     <1>16, <1>17, <1>18
  DEF InboxNext, Socket, Deliver, Crash

\* A message accepted before has a task, and one that is about to be linked again
\* without an acknowledgement in between is still pending.
QueueInv ==
  /\ accepted \subseteq pending \cup done
  /\ \A w \in Writers :
       work[w].step = "link" /\ work[w].msg \in accepted /\ ~raced[w] => work[w].msg \in pending

LEMMA QueueStep == InboxTypeOK /\ QueueInv /\ [InboxNext]_inboxVars => QueueInv'
<1> SUFFICES ASSUME InboxTypeOK, QueueInv, [InboxNext]_inboxVars PROVE QueueInv'
  OBVIOUS
<1> USE DEF QueueInv
<1>0. /\ work \in [Writers -> [step : Running \cup Results, msg : Messages] \cup {Idle}]
      /\ raced \in [Writers -> BOOLEAN]
  BY DEF InboxTypeOK, QTypeOK
<1>1. ASSUME UNCHANGED qvars PROVE QueueInv'
  BY <1>1 DEF qvars
<1>2. ASSUME Die PROVE QueueInv'
  BY <1>2 DEF Die, Idle, Conns
<1>3. ASSUME NEW c \in Conns, Begin(c) PROVE QueueInv'
  BY <1>0, <1>3 DEF Begin, EnqueueStart, Conns
<1>4. ASSUME NEW c \in Conns, EnqueueCheck(c) PROVE QueueInv'
  BY <1>0, <1>4 DEF EnqueueCheck, Acknowledged, GoTo, Conns
<1>5. ASSUME NEW c \in Conns, EnqueueLink(c) PROVE QueueInv'
  <2>1. /\ \A w \in Writers : work'[w].step = "link" => w # c
        /\ \A w \in Writers : w # c => work'[w] = work[w]
    <3>1. \E st \in {"duplicate", "chmod"} : work' = [work EXCEPT ![c].step = st]
      BY <1>5 DEF EnqueueLink, GoTo
    <3> QED
      BY <1>0, <3>1 DEF Conns
  <2>2. /\ raced' = raced /\ done' = done /\ pending \subseteq pending'
        /\ \/ accepted' = accepted /\ pending' = pending
           \/ accepted' = accepted \cup {work[c].msg} /\ pending' = pending \cup {work[c].msg}
    BY <1>5 DEF EnqueueLink
  <2> QED
    BY <2>1, <2>2
<1>6. ASSUME NEW c \in Conns, EnqueueChmod(c) \/ EnqueueFail(c) PROVE QueueInv'
  <2>1. \E st \in Results : work' = [work EXCEPT ![c].step = st]
    BY <1>6 DEF EnqueueChmod, EnqueueFail, Throw, GoTo, Results
  <2>2. \A w \in Writers : work'[w].step = "link" => work'[w] = work[w]
    BY <1>0, <2>1 DEF Results, Conns
  <2> QED
    BY <1>6, <2>2 DEF EnqueueChmod, EnqueueFail
<1>7. ASSUME NEW c \in Conns, NEW s \in Results, EnqueueReturn(c, s) PROVE QueueInv'
  BY <1>0, <1>7 DEF EnqueueReturn, Idle, Conns
<1>8. ASSUME NEW r \in Readers, AckRename(r) PROVE QueueInv'
  BY <1>0, <1>8 DEF AckRename
<1>9. ASSUME NEW r \in Readers, NEW m \in Messages, AckCheck(r, m) PROVE QueueInv'
  BY <1>9 DEF AckCheck
<1>10. ASSUME NEW c \in Conns, Socket(c) PROVE UNCHANGED qvars \/ Die
  BY <1>10 DEF Socket, Open, Receive, ConnectTimeout, SocketError, SocketClose, Settle
<1>11. ASSUME NEW c \in Conns, Deliver(c) \/ Unreadable(c) \/ DiskFault(c) PROVE QueueInv'
  BY <1>1, <1>2, <1>3, <1>4, <1>5, <1>6, <1>7, <1>11
  DEF Deliver, EnqueueStep, Notify, Drop, Reject, Unreadable, DiskFault, Results
<1>12. ASSUME \/ TriggerEnds \/ ConnectThrows \/ WatchEnds \/ WaitEnds \/ Leave \/ Finish \/ Stop \/ InboxRestart
              \/ UNCHANGED inboxVars \/ \E c \in Conns : Connect(c)
       PROVE  UNCHANGED qvars
  BY <1>12
  DEF TriggerEnds, ConnectThrows, WatchEnds, WaitEnds, Leave, Finish, Stop, InboxRestart, Connect, inboxVars
<1> QED
  BY <1>1, <1>2, <1>8, <1>9, <1>10, <1>11, <1>12 DEF InboxNext, Crash, Acknowledge

\* What makes a task pending is a link, and only of a task that is not.
LEMMA OnlyLinkAccepts ==
  ASSUME InboxTypeOK, [InboxNext]_inboxVars, NEW w \in Writers, work[w].step = "link", work'[w].step = "chmod"
  PROVE  EnqueueLink(w)
<1>0. work \in [Writers -> [step : Running \cup Results, msg : Messages] \cup {Idle}]
  BY DEF InboxTypeOK, QTypeOK
<1>1. work'[w] # work[w]
  OBVIOUS
<1>2. ~Die
  BY DEF Die, Idle, Conns
<1>3. ASSUME NEW c \in Conns, Socket(c) PROVE work' = work
  BY <1>2, <1>3 DEF Socket, Open, Receive, ConnectTimeout, SocketError, SocketClose, Settle, qvars
<1>4. ASSUME \/ TriggerEnds \/ ConnectThrows \/ WatchEnds \/ WaitEnds \/ Leave \/ Finish \/ Stop \/ InboxRestart
             \/ UNCHANGED inboxVars \/ (\E c \in Conns : Connect(c)) \/ \E r \in Readers : Acknowledge(r)
      PROVE  work' = work
  BY <1>4
  DEF TriggerEnds, ConnectThrows, WatchEnds, WaitEnds, Leave, Finish, Stop, InboxRestart, Connect,
      Acknowledge, AckRename, AckCheck, inboxVars, qvars
<1>5. PICK c \in Conns : Deliver(c) \/ Unreadable(c) \/ DiskFault(c)
  BY <1>1, <1>2, <1>3, <1>4 DEF InboxNext, Crash
<1>6. ASSUME Begin(c) PROVE FALSE
  BY <1>0, <1>6 DEF Begin, EnqueueStart, Conns
<1>7. ASSUME NEW s \in Results, EnqueueReturn(c, s) PROVE FALSE
  BY <1>0, <1>7 DEF EnqueueReturn, Idle, Conns
<1>8. ASSUME EnqueueCheck(c) \/ EnqueueChmod(c) \/ EnqueueFail(c) PROVE FALSE
  <2>1. \E st \in Results \cup {"link"} : work' = [work EXCEPT ![c].step = st]
    BY <1>8 DEF EnqueueCheck, EnqueueChmod, EnqueueFail, Throw, GoTo, Results
  <2> QED
    BY <1>0, <2>1 DEF Results, Conns
<1>9. EnqueueLink(c)
  BY <1>1, <1>2, <1>5, <1>6, <1>7, <1>8
  DEF Deliver, EnqueueStep, Notify, Drop, Reject, Unreadable, DiskFault, Results, qvars
<1>10. c = w
  <2>1. \E st \in {"duplicate", "chmod"} : work' = [work EXCEPT ![c].step = st]
    BY <1>9 DEF EnqueueLink, GoTo
  <2> QED
    BY <1>0, <1>1, <2>1 DEF Conns
<1> QED
  BY <1>9, <1>10

LEMMA InboxInitial == InboxInit => InboxTypeOK /\ WatchInv /\ QueueInv
<1> SUFFICES ASSUME InboxInit PROVE InboxTypeOK /\ WatchInv /\ QueueInv
  OBVIOUS
<1>1. QTypeOK
  BY DEF InboxInit, QInit, QTypeOK
<1>2. InboxTypeOK
  <2>1. chain \in [Conns -> Seq(Messages)] /\ tail \in Seq(Messages)
    BY DEF InboxInit
  <2>2. backoff \in 0 .. MaxBackoff /\ awaited \in Nat /\ inboxFaults \in Nat
    BY InboxAssumption DEF InboxInit
  <2> QED
    BY <1>1, <2>1, <2>2 DEF InboxInit, InboxTypeOK
<1>3. WatchInv
  BY DEF InboxInit, QInit, WatchInv, OnlyWatch, HandledBeforeDone, HandlingDone, Opening, Conns
<1>4. QueueInv
  BY DEF InboxInit, QInit, QueueInv, Idle
<1> QED
  BY <1>2, <1>3, <1>4

InboxInv == InboxTypeOK /\ WatchInv /\ QueueInv

LEMMA InboxInvariant == InboxSafe => []InboxInv
<1>1. InboxInv /\ [InboxNext]_inboxVars => InboxInv'
  BY TypeStep, WatchStep, QueueStep DEF InboxInv
<1>2. InboxInit => InboxInv
  BY InboxInitial DEF InboxInv
<1> QED
  BY <1>1, <1>2, PTL DEF InboxSafe

\* Every variable of the daemon, its watches and the queue has its type: the
\* reconnect delay never passes its cap, and a task is always one of a message.
THEOREM InboxTypeCorrect == InboxSafe => []InboxTypeOK
<1>1. InboxInv => InboxTypeOK
  BY DEF InboxInv
<1> QED
  BY InboxInvariant, <1>1, PTL

\* However many connections there are, however they fail, and whenever stop() is
\* called: a failed watch never delivers beside its successor, and nothing is left
\* open when run() returns.  (daemon.ts:53-82.)
THEOREM OnlyWatchAlways == InboxSafe => []OnlyWatch
<1>1. InboxInv => OnlyWatch
  BY DEF InboxInv, WatchInv
<1> QED
  BY InboxInvariant, <1>1, PTL

\* A watch that ends well has handled all it received.  (adapter.ts:250-265.)
THEOREM HandledBeforeDoneAlways == InboxSafe => []HandledBeforeDone
<1>1. InboxInv => HandledBeforeDone
  BY DEF InboxInv, WatchInv
<1> QED
  BY InboxInvariant, <1>1, PTL

\* However many connections redeliver a message and however many agents
\* acknowledge: it is accepted a second time only if an acknowledgement came
\* between the look into done/ and the link.  (queue.ts:57 and 66-73.)
THEOREM ReacceptedOnlyIfRacedAlways == InboxSafe => ReacceptedOnlyIfRaced
<1>1. ASSUME InboxInv, [InboxNext]_inboxVars, NEW w \in Writers,
             work[w].step = "link", work'[w].step = "chmod", work[w].msg \in accepted
      PROVE  raced[w]
  <2>1. work[w].msg \notin pending
    <3>1. EnqueueLink(w)
      BY <1>1, OnlyLinkAccepts DEF InboxInv
    <3>2. work \in [Writers -> [step : Running \cup Results, msg : Messages] \cup {Idle}]
      BY <1>1 DEF InboxInv, InboxTypeOK, QTypeOK
    <3>3. [work EXCEPT ![w].step = "duplicate"][w].step = "duplicate"
      BY <1>1, <3>2 DEF Idle
    <3> QED
      BY <1>1, <3>1, <3>3 DEF EnqueueLink, GoTo
  <2> QED
    BY <1>1, <2>1 DEF InboxInv, QueueInv
<1>2. InboxInv /\ [InboxNext]_inboxVars =>
        [\A w \in Writers :
           work[w].step = "link" /\ work'[w].step = "chmod" /\ work[w].msg \in accepted
             => raced[w]]_qvars
  BY <1>1
<1> QED
  BY InboxInvariant, <1>2, PTL DEF InboxSafe, ReacceptedOnlyIfRaced
===============================================================================
