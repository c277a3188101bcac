--------------------------- MODULE SettlementProofs ---------------------------
(***************************************************************************)
(* The safety properties of Settlement, for any number of trades, vouchers *)
(* and tasks, any evidence somebody records, any failures of the store,    *)
(* any restarts and any processes that change the tasks meanwhile.         *)
(***************************************************************************)
EXTENDS Settlement, TLAPS

\* The registry's index names a voucher of the trade.
IndexInv ==
  \A t \in PaidTrades : byTrade[t] # None => vouchers[byTrade[t]].trade = t

\* A voucher that is still good is in no confirmation the adapter stored.
GoodInv ==
  \A v \in Vouchers : vouchers[v].status = "ISSUED" => Confirmations(v) = {}

VoucherInv ==
  IndexInv /\ GoodInv /\ VoucherOnce /\ RegisteredIsRequested /\ PaidAsRequested

\* A task's end is one the history knows.
DoneInv == \A k \in TaskIdents : tasks[k].status = "DONE" => k \in finished

\* What an operation is about to cite has been done, and still is.
CiteInv ==
  citing # NoCite =>
    /\ citing.ref \in finished
    /\ TasksOnDisk /\ citing.ref \notin overlapped => tasks[citing.ref].status = "DONE"

\* Who is about to write a task that nobody else changes still finds it pending.
ChangeInv ==
  TasksOnDisk =>
    \A c \in Callers : changing[c] # NoChange /\ changing[c].task \notin overlapped =>
      /\ tasks[changing[c].task].status = "PENDING"
      /\ \A d \in Callers : changing[d].task = changing[c].task => d = c

\* Nobody is about to write a task that is not there.
KnownInv == \A c \in Callers : changing[c] # NoChange => tasks[changing[c].task] # NoTask

TaskInv == KnownInv /\ DoneInv /\ CiteInv /\ ChangeInv /\ EvidenceStands

SInv == PayTypeOK /\ VoucherInv /\ TaskInv

LEMMA NoneFacts ==
  /\ \A t \in PaidTrades : t # None
  /\ \A v \in Vouchers : v # None /\ v \notin TaskIdents /\ v \in Refs
  /\ \A k \in TaskIdents : k # None /\ k \notin Vouchers /\ k \in Refs
  /\ None \in Refs
  /\ "ISSUED" # None /\ "REDEEMED" # None /\ "DONE" # None /\ "PENDING" # None
  /\ NoVoucher.trade = None /\ NoVoucher.status = None
  /\ NoTask.trade = None /\ NoTask.status = None
  /\ NoChange.task = None /\ NoCite.ref = None
  /\ {"PAYMENT_REQUESTED", "PAYMENT_CONFIRMED"} \subseteq EventTypes
  BY SettlementAssumption
     DEF Refs, None, NoVoucher, NoTask, NoChange, NoCite, EventTypes, ChainEvents, Source

\* What any outcome of applyEvent leaves of the store.
Stored(t, ty, r, a, by) ==
  /\ onDisk' = onDisk \/ onDisk' = onDisk \cup {EventOf(t, ty, r, a, by)}
  /\ standing' = standing
     \/ (Allowed(standing[t], ty) /\ standing' = [standing EXCEPT ![t] = Transition(standing[t], ty)])
  /\ payFaults' = payFaults \/ payFaults' = payFaults + 1

LEMMA Outcome ==
  ASSUME NEW t, NEW ty, NEW r, NEW a, NEW by,
         Applied(t, ty, r, a, by) \/ Throws(t, ty, r, a, by)
  PROVE  Stored(t, ty, r, a, by)
<1>1. CASE Applied(t, ty, r, a, by)
  BY <1>1 DEF Applied, Persisted, Stored
<1>2. CASE Torn(t, ty, r, a, by)
  BY <1>2 DEF Torn, Persisted, Stored
<1>3. CASE Refused(t, ty)
  BY <1>3 DEF Refused, Stored
<1> QED
  BY <1>1, <1>2, <1>3 DEF Throws

LEMMA TransitionType ==
  ASSUME NEW c \in Position, NEW ty \in EventTypes, Allowed(c, ty)
  PROVE  Transition(c, ty) \in Position
<1>1. CASE ty \in ChainEvents
  <2>1. Transition(c, ty) = [state |-> Target[ty], pre |-> None]
    BY <1>1 DEF Transition, ChainEvents, Source
  <2>2. Target[ty] \in ChainStates
    BY <1>1 DEF Target, ChainStates, StageOf, ChainEvents, Source
  <2> QED
    BY <2>1, <2>2 DEF Position, TradeStates
<1>2. CASE ty \in {"DISPUTED", "RESOLVED", "CANCELLED"}
  <2>1. ty \notin ChainEvents
    BY <1>2 DEF ChainEvents, Source
  <2>2. c.state # None \/ ty = "RESOLVED"
    BY <1>2, <2>1 DEF Allowed
  <2> QED
    BY <1>2, <2>1 DEF Transition, Position, TradeStates
<1> QED
  BY <1>1, <1>2 DEF EventTypes

-------------------------------------------------------------------------------
(* What the actions do, in the terms of the lemmas below.                     *)

BookType == /\ standing \in [PaidTrades -> Position]
            /\ onDisk \subseteq PayEvents /\ payFaults \in Nat

\* Whatever is stored has its type.
LEMMA StoredType ==
  ASSUME NEW t \in PaidTrades, NEW ty \in EventTypes, NEW r \in Refs,
         NEW a \in Amounts \cup {None}, NEW by \in Makers, BookType, Stored(t, ty, r, a, by)
  PROVE  BookType'
<1>1. EventOf(t, ty, r, a, by) \in PayEvents
  BY DEF EventOf, PayEvents
<1>2. standing[t] \in Position
  BY DEF BookType
<1> QED
  BY <1>1, <1>2, TransitionType DEF Stored, BookType

\* The step stores nothing, or an event of that maker.
Adds(by) ==
  \/ onDisk' = onDisk
  \/ \E t \in PaidTrades, ty \in EventTypes, r \in Refs, a \in Amounts \cup {None} :
       onDisk' = onDisk \cup {EventOf(t, ty, r, a, by)}

\* Events that are not the voucher adapter's do not matter to the vouchers.
LEMMA VouchersQuiet ==
  ASSUME SInv, UNCHANGED registry, NEW by \in Makers \ {"voucher"}, Adds(by)
  PROVE  VoucherInv'
<1>1. \A v \in Vouchers : Confirmations(v)' = Confirmations(v)
  BY DEF Adds, Confirmations, EventOf, Makers
<1>2. onDisk \subseteq onDisk'
  BY DEF Adds
<1>3. vouchers' = vouchers /\ byTrade' = byTrade
  BY DEF registry
<1>4. IndexInv' /\ GoodInv' /\ VoucherOnce'
  BY <1>1, <1>3 DEF SInv, VoucherInv, IndexInv, GoodInv, VoucherOnce
<1>5. RegisteredIsRequested'
  BY <1>2, <1>3 DEF SInv, VoucherInv, RegisteredIsRequested
<1>6. PaidAsRequested'
  BY <1>1, <1>2 DEF SInv, VoucherInv, PaidAsRequested
<1> QED
  BY <1>4, <1>5, <1>6 DEF VoucherInv

\* Events that do not rest on a task do not matter to the tasks.
LEMMA TasksQuiet ==
  ASSUME SInv, UNCHANGED <<tasks, finished, citing, change>>,
         \A k \in TaskIdents : Proved(k)' = Proved(k)
  PROVE  TaskInv'
<1>1. tasks' = tasks /\ finished' = finished /\ citing' = citing
      /\ changing' = changing /\ overlapped' = overlapped
  BY DEF change
<1> QED
  BY <1>1 DEF SInv, TaskInv, KnownInv, DoneInv, CiteInv, ChangeInv, EvidenceStands

LEMMA NothingProved ==
  ASSUME NEW by \in Makers, by \in {"voucher", "record"}, Adds(by)
  PROVE  \A k \in TaskIdents : Proved(k)' = Proved(k)
  BY DEF Adds, Proved, EventOf

-------------------------------------------------------------------------------
(* One lemma per action.                                                      *)

LEMMA RequestStep ==
  ASSUME SInv, NEW t \in PaidTrades, NEW a \in Amounts, NEW v \in Vouchers, VoucherRequest(t, a, v)
  PROVE  SInv'
<1>1. vouchers[v] = NoVoucher /\ Fresh(v)
  BY DEF VoucherRequest
<1>2. UNCHANGED <<tasks, taskByTrade, finished, citing, change>>
  BY DEF VoucherRequest, Ready, human
<1>3. Stored(t, "PAYMENT_REQUESTED", v, a, "voucher")
  BY Outcome DEF VoucherRequest
<1>4. Adds("voucher")
  BY <1>3, NoneFacts DEF Adds, Stored
<1>5. TaskInv'
  BY <1>2, <1>4, NothingProved, TasksQuiet DEF Makers
<1>6. BookType'
  BY <1>3, StoredType, NoneFacts DEF SInv, PayTypeOK, BookType, Makers
<1>7. \A u \in Vouchers : Confirmations(u)' = Confirmations(u)
  BY <1>3 DEF Stored, Confirmations, EventOf
<1>8. CASE /\ vouchers' = [vouchers EXCEPT ![v] = [trade |-> t, face |-> a, status |-> "ISSUED"]]
           /\ byTrade' = [byTrade EXCEPT ![t] = v]
           /\ EventOf(t, "PAYMENT_REQUESTED", v, a, "voucher") \in onDisk'
  <2>1. Confirmations(v) = {}
    BY <1>1 DEF Fresh, Confirmations
  <2>2. \A u \in PaidTrades : u # t => byTrade[u] # v
    BY <1>1, NoneFacts DEF SInv, VoucherInv, IndexInv
  <2>3. \A u \in Vouchers : vouchers'[u] =
          IF u = v THEN [trade |-> t, face |-> a, status |-> "ISSUED"] ELSE vouchers[u]
    BY <1>8 DEF SInv, PayTypeOK
  <2>4. \A u \in PaidTrades : byTrade'[u] = IF u = t THEN v ELSE byTrade[u]
    BY <1>8 DEF SInv, PayTypeOK
  <2>5. IndexInv'
    BY <2>2, <2>3, <2>4 DEF SInv, VoucherInv, IndexInv, PayTypeOK
  <2>6. GoodInv' /\ VoucherOnce'
    BY <1>7, <2>1, <2>3 DEF SInv, VoucherInv, GoodInv, VoucherOnce
  <2>7. onDisk \subseteq onDisk'
    BY <1>3 DEF Stored
  <2>8. RegisteredIsRequested'
    BY <1>8, <2>3, <2>7 DEF SInv, VoucherInv, RegisteredIsRequested, EventOf
  <2>9. PaidAsRequested'
    BY <1>7, <2>7 DEF SInv, VoucherInv, PaidAsRequested
  <2>10. [trade |-> t, face |-> a, status |-> "ISSUED"]
           \in [trade : PaidTrades, face : Amounts, status : {"ISSUED", "REDEEMED"}]
    OBVIOUS
  <2>11. PayTypeOK'
    BY <1>2, <1>6, <1>8, <2>10 DEF SInv, PayTypeOK, BookType, change
  <2> QED
    BY <1>5, <2>5, <2>6, <2>8, <2>9, <2>11 DEF SInv, VoucherInv
<1>9. CASE UNCHANGED registry
  <2>1. onDisk \subseteq onDisk'
    BY <1>3 DEF Stored
  <2>2. VoucherInv'
    BY <1>7, <1>9, <2>1 DEF registry, SInv, VoucherInv, IndexInv, GoodInv, VoucherOnce,
       RegisteredIsRequested, PaidAsRequested
  <2>3. PayTypeOK'
    BY <1>2, <1>6, <1>9 DEF registry, SInv, PayTypeOK, BookType, change
  <2> QED
    BY <1>5, <2>2, <2>3 DEF SInv
<1> QED
  BY <1>8, <1>9 DEF VoucherRequest, IssueVoucher, Applied, Persisted

LEMMA ConfirmStep ==
  ASSUME SInv, NEW t \in PaidTrades, NEW a \in Amounts, VoucherConfirm(t, a)
  PROVE  SInv'
<1>0. byTrade[t] \in Vouchers
  BY DEF VoucherConfirm, SInv, PayTypeOK
<1> PICK v \in Vouchers : v = byTrade[t]
  BY <1>0
<1>1. v = byTrade[t] /\ vouchers[v].face = a /\ vouchers[v].status = "ISSUED"
  BY DEF VoucherConfirm, SInv, PayTypeOK
<1>2. vouchers[v].trade = t /\ Confirmations(v) = {} /\ vouchers[v] # NoVoucher
  BY <1>1, NoneFacts DEF SInv, VoucherInv, IndexInv, GoodInv
<1>3. UNCHANGED <<byTrade, tasks, taskByTrade, finished, citing, change>>
  BY DEF VoucherConfirm, Ready, human
<1>4. Stored(t, "PAYMENT_CONFIRMED", v, a, "voucher")
  BY <1>1, Outcome DEF VoucherConfirm
<1>5. Adds("voucher")
  BY <1>1, <1>4, NoneFacts DEF Adds, Stored
<1>6. TaskInv'
  BY <1>3, <1>5, NothingProved, TasksQuiet DEF Makers
<1>7. BookType'
  BY <1>1, <1>4, StoredType, NoneFacts DEF SInv, PayTypeOK, BookType, Makers
<1>8. onDisk \subseteq onDisk'
  BY <1>4 DEF Stored
<1>9. vouchers[v] \in [trade : PaidTrades, face : Amounts, status : {"ISSUED", "REDEEMED"}]
  BY <1>1, <1>2 DEF SInv, PayTypeOK
<1>10. vouchers' = [vouchers EXCEPT ![v] = [vouchers[v] EXCEPT !.status = "REDEEMED"]]
  BY <1>1 DEF VoucherConfirm, RedeemVoucher
<1>11. \A u \in Vouchers :
         /\ u # v => vouchers'[u] = vouchers[u]
         /\ u = v => /\ vouchers'[u].trade = t /\ vouchers'[u].face = a
                     /\ vouchers'[u].status = "REDEEMED"
  BY <1>1, <1>2, <1>9, <1>10 DEF SInv, PayTypeOK
<1>12. \A u \in Vouchers : u # v => Confirmations(u)' = Confirmations(u)
  BY <1>4 DEF Stored, Confirmations, EventOf
<1>13. \A f \in Confirmations(v)' : f.trade = t /\ f.amount = a /\ ~f.again
  <2> SUFFICES ASSUME NEW f \in Confirmations(v)' PROVE f.trade = t /\ f.amount = a /\ ~f.again
    OBVIOUS
  <2>1. f \in onDisk' /\ f.type = "PAYMENT_CONFIRMED" /\ f.ref = v /\ f.by = "voucher"
    BY DEF Confirmations
  <2>2. f \notin onDisk
    BY <1>2, <2>1 DEF Confirmations
  <2>3. f = EventOf(t, "PAYMENT_CONFIRMED", v, a, "voucher")
    BY <1>4, <2>1, <2>2 DEF Stored
  <2>4. ~(\E g \in onDisk : g.trade = t /\ g.type = "PAYMENT_CONFIRMED" /\ g.ref = v /\ g.by = "voucher")
    BY <1>2 DEF Confirmations
  <2> QED
    BY <2>3, <2>4 DEF EventOf
<1>14. PICK g \in onDisk : /\ g.type = "PAYMENT_REQUESTED" /\ g.ref = v /\ g.by = "voucher"
                           /\ g.trade = t /\ g.amount = a
  BY <1>1, <1>2 DEF SInv, VoucherInv, RegisteredIsRequested
<1>15. IndexInv'
  BY <1>1, <1>3, <1>11 DEF SInv, VoucherInv, IndexInv, PayTypeOK
<1>16. GoodInv' /\ VoucherOnce'
  BY <1>11, <1>12, <1>13 DEF SInv, VoucherInv, GoodInv, VoucherOnce
<1>17. RegisteredIsRequested'
  BY <1>8, <1>11, <1>14 DEF SInv, VoucherInv, RegisteredIsRequested
<1>18. PaidAsRequested'
  BY <1>8, <1>12, <1>13, <1>14 DEF SInv, VoucherInv, PaidAsRequested
<1>19. PayTypeOK'
  BY <1>3, <1>7, <1>9, <1>10 DEF SInv, PayTypeOK, BookType, change
<1> QED
  BY <1>6, <1>15, <1>16, <1>17, <1>18, <1>19 DEF SInv, VoucherInv

LEMMA ManualRequestStep ==
  ASSUME SInv, NEW t \in PaidTrades, NEW k \in TaskIdents, ManualRequest(t, k)
  PROVE  SInv'
<1>1. tasks[k] = NoTask /\ Fresh(k) /\ citing = NoCite
  BY DEF ManualRequest, FreshTask, Ready
<1>2. UNCHANGED <<registry, finished, citing, change>>
  BY DEF ManualRequest, Ready
<1>3. Stored(t, "PAYMENT_REQUESTED", k, None, "manual")
  BY Outcome DEF ManualRequest
<1>4. Adds("manual")
  BY <1>3, NoneFacts DEF Adds, Stored
<1>5. VoucherInv'
  BY <1>2, <1>4, VouchersQuiet DEF Makers
<1>6. BookType'
  BY <1>3, StoredType, NoneFacts DEF SInv, PayTypeOK, BookType, Makers
<1>7. tasks' = [tasks EXCEPT ![k] = [trade |-> t, status |-> "PENDING"]]
  BY DEF ManualRequest, NewTask
<1>8. \A j \in TaskIdents : Proved(j)' = Proved(j)
  BY <1>3 DEF Stored, Proved, EventOf
<1>9. \A j \in TaskIdents : j # k => tasks'[j] = tasks[j]
  BY <1>7 DEF SInv, PayTypeOK
<1>10. tasks'[k].status = "PENDING"
  BY <1>7 DEF SInv, PayTypeOK
<1>11. DoneInv' /\ CiteInv'
  BY <1>1, <1>2, <1>9, <1>10 DEF SInv, TaskInv, DoneInv, CiteInv
<1>12. ChangeInv' /\ KnownInv'
  <2>1. changing' = changing /\ overlapped' = overlapped
    BY <1>2 DEF change
  <2>2. \A c \in Callers : changing[c] # NoChange => changing[c].task \in TaskIdents
    BY DEF SInv, PayTypeOK
  <2>3. tasks'[k] # NoTask
    BY <1>10, NoneFacts
  <2> QED
    BY <1>9, <1>10, <2>1, <2>2, <2>3 DEF SInv, TaskInv, ChangeInv, KnownInv
<1>13. EvidenceStands'
  <2>1. Proved(k) = {}
    BY <1>1 DEF Fresh, Proved
  <2>2. finished' = finished /\ overlapped' = overlapped
    BY <1>2 DEF change
  <2> QED
    BY <1>8, <1>9, <2>1, <2>2 DEF SInv, TaskInv, EvidenceStands
<1>14. PayTypeOK'
  <2>1. [trade |-> t, status |-> "PENDING"] \in [trade : PaidTrades, status : {"PENDING"} \cup TaskEnds]
    OBVIOUS
  <2>2. taskByTrade' \in [PaidTrades -> TaskIdents \cup {None}]
    BY DEF ManualRequest, SInv, PayTypeOK
  <2> QED
    BY <1>2, <1>6, <1>7, <2>1, <2>2 DEF SInv, PayTypeOK, BookType, registry, change
<1> QED
  BY <1>5, <1>11, <1>12, <1>13, <1>14 DEF SInv, TaskInv

LEMMA CreateStep ==
  ASSUME SInv, NEW t \in PaidTrades, NEW k \in TaskIdents, CreateTask(t, k)
  PROVE  SInv'
<1>1. tasks[k] = NoTask /\ Fresh(k) /\ citing = NoCite
  BY DEF CreateTask, FreshTask, Ready
<1>2. UNCHANGED <<book, registry, taskByTrade, finished, citing, change>>
  BY DEF CreateTask, Ready
<1>3. onDisk' = onDisk /\ standing' = standing /\ payFaults' = payFaults
  BY <1>2 DEF book
<1>4. VoucherInv'
  BY <1>2, <1>3, VouchersQuiet DEF Makers, Adds
<1>5. tasks' = [tasks EXCEPT ![k] = [trade |-> t, status |-> "PENDING"]]
  BY DEF CreateTask, NewTask
<1>6. \A j \in TaskIdents : Proved(j)' = Proved(j)
  BY <1>3 DEF Proved
<1>7. \A j \in TaskIdents : j # k => tasks'[j] = tasks[j]
  BY <1>5 DEF SInv, PayTypeOK
<1>8. tasks'[k].status = "PENDING"
  BY <1>5 DEF SInv, PayTypeOK
<1>9. DoneInv' /\ CiteInv'
  BY <1>1, <1>2, <1>7, <1>8 DEF SInv, TaskInv, DoneInv, CiteInv
<1>10. ChangeInv' /\ KnownInv'
  <2>1. changing' = changing /\ overlapped' = overlapped
    BY <1>2 DEF change
  <2>2. \A c \in Callers : changing[c] # NoChange => changing[c].task \in TaskIdents
    BY DEF SInv, PayTypeOK
  <2>3. tasks'[k] # NoTask
    BY <1>8, NoneFacts
  <2> QED
    BY <1>7, <1>8, <2>1, <2>2, <2>3 DEF SInv, TaskInv, ChangeInv, KnownInv
<1>11. EvidenceStands'
  <2>1. Proved(k) = {}
    BY <1>1 DEF Fresh, Proved
  <2>2. finished' = finished /\ overlapped' = overlapped
    BY <1>2 DEF change
  <2> QED
    BY <1>6, <1>7, <2>1, <2>2 DEF SInv, TaskInv, EvidenceStands
<1>12. PayTypeOK'
  <2>1. [trade |-> t, status |-> "PENDING"] \in [trade : PaidTrades, status : {"PENDING"} \cup TaskEnds]
    OBVIOUS
  <2> QED
    BY <1>2, <1>3, <1>5, <2>1 DEF SInv, PayTypeOK, registry, change
<1> QED
  BY <1>4, <1>9, <1>10, <1>11, <1>12 DEF SInv, TaskInv

LEMMA RecordStep ==
  ASSUME SInv, NEW t \in PaidTrades, NEW ty \in RecordedTypes, NEW r \in Refs, RecordDirectly(t, ty, r)
  PROVE  SInv'
<1>1. UNCHANGED <<registry, tasks, taskByTrade, finished, citing, change>>
  BY DEF RecordDirectly, Ready, human
<1>2. ty \in EventTypes
  BY SettlementAssumption
<1>3. Stored(t, ty, r, None, "record")
  BY Outcome DEF RecordDirectly, Throws
<1>4. Adds("record")
  BY <1>2, <1>3 DEF Adds, Stored
<1>5. VoucherInv'
  BY <1>1, <1>4, VouchersQuiet DEF Makers
<1>6. TaskInv'
  BY <1>1, <1>4, NothingProved, TasksQuiet DEF Makers
<1>7. BookType'
  BY <1>2, <1>3, StoredType DEF SInv, PayTypeOK, BookType, Makers
<1>8. PayTypeOK'
  BY <1>1, <1>7 DEF SInv, PayTypeOK, BookType, registry, change
<1> QED
  BY <1>5, <1>6, <1>8 DEF SInv

\* ManualConfirm and TaskToEvent: a task has been found done.
LEMMA FoundStep ==
  ASSUME SInv, NEW k \in TaskIdents, tasks[k].status = "DONE",
         NEW t \in PaidTrades, NEW ty \in EventTypes, NEW by \in {"manual", "task"},
         citing' = [trade |-> t, type |-> ty, ref |-> k, by |-> by],
         UNCHANGED <<book, registry, human, change>>
  PROVE  SInv'
<1>1. /\ onDisk' = onDisk /\ standing' = standing /\ payFaults' = payFaults
      /\ vouchers' = vouchers /\ byTrade' = byTrade /\ tasks' = tasks
      /\ taskByTrade' = taskByTrade /\ finished' = finished
      /\ changing' = changing /\ overlapped' = overlapped
  BY DEF book, registry, human, change
<1>2. VoucherInv'
  BY <1>1, VouchersQuiet DEF Makers, Adds, registry
<1>3. CiteInv'
  BY <1>1 DEF SInv, TaskInv, DoneInv, CiteInv
<1>4. KnownInv' /\ DoneInv' /\ ChangeInv' /\ EvidenceStands'
  BY <1>1 DEF SInv, TaskInv, KnownInv, DoneInv, ChangeInv, EvidenceStands, Proved
<1>5. PayTypeOK'
  BY <1>1 DEF SInv, PayTypeOK
<1> QED
  BY <1>2, <1>3, <1>4, <1>5 DEF SInv, TaskInv

LEMMA CiteStep ==
  ASSUME SInv, CiteTask
  PROVE  SInv'
<1> DEFINE e == citing
<1>1. e \in [trade : PaidTrades, type : EventTypes, ref : TaskIdents, by : {"manual", "task"}]
  BY DEF CiteTask, SInv, PayTypeOK
<1>2. citing' = NoCite /\ UNCHANGED <<registry, tasks, taskByTrade, finished, change>>
  BY DEF CiteTask, human
<1>3. Stored(e.trade, e.type, e.ref, None, e.by)
  BY Outcome DEF CiteTask
<1>4. Adds(e.by)
  BY <1>1, <1>3, NoneFacts DEF Adds, Stored
<1>5. VoucherInv'
  BY <1>1, <1>2, <1>4, VouchersQuiet DEF Makers
<1>6. BookType'
  BY <1>1, <1>3, StoredType, NoneFacts DEF SInv, PayTypeOK, BookType, Makers
<1>7. /\ e.ref \in finished
      /\ TasksOnDisk /\ e.ref \notin overlapped => tasks[e.ref].status = "DONE"
  BY DEF CiteTask, SInv, TaskInv, CiteInv
<1>8. \A k \in TaskIdents : Proved(k)' # {} => Proved(k) # {} \/ k = e.ref
  BY <1>3 DEF Stored, Proved, EventOf
<1>9. EvidenceStands'
  BY <1>2, <1>7, <1>8 DEF SInv, TaskInv, EvidenceStands, change
<1>10. KnownInv' /\ DoneInv' /\ CiteInv' /\ ChangeInv'
  BY <1>2 DEF SInv, TaskInv, KnownInv, DoneInv, CiteInv, ChangeInv, change
<1>11. PayTypeOK'
  BY <1>2, <1>6 DEF SInv, PayTypeOK, BookType, registry, change
<1> QED
  BY <1>5, <1>9, <1>10, <1>11 DEF SInv, TaskInv

LEMMA ReadStep ==
  ASSUME SInv, NEW c \in Callers, NEW k \in TaskIdents, NEW to \in TaskEnds, ReadTask(c, k, to)
  PROVE  SInv'
<1>1. /\ onDisk' = onDisk /\ standing' = standing /\ payFaults' = payFaults
      /\ vouchers' = vouchers /\ byTrade' = byTrade /\ tasks' = tasks
      /\ taskByTrade' = taskByTrade /\ finished' = finished /\ citing' = citing
  BY DEF ReadTask, book, registry, human
<1>2. changing[c] = NoChange /\ tasks[k].status = "PENDING"
  BY DEF ReadTask
<1>3. changing' = [changing EXCEPT ![c] = [task |-> k, to |-> to]]
  BY DEF ReadTask
<1>4. overlapped' = IF BeingChanged(k) THEN overlapped \cup {k} ELSE overlapped
  BY DEF ReadTask
<1>5. VoucherInv'
  BY <1>1, VouchersQuiet DEF Makers, Adds, registry
<1>6. overlapped \subseteq overlapped'
  BY <1>4
<1>7. DoneInv' /\ CiteInv' /\ EvidenceStands'
  BY <1>1, <1>6 DEF SInv, TaskInv, DoneInv, CiteInv, EvidenceStands, Proved
<1>8. ChangeInv'
  <2> SUFFICES ASSUME TasksOnDisk, NEW d \in Callers, changing'[d] # NoChange,
                      changing'[d].task \notin overlapped'
               PROVE  /\ tasks[changing'[d].task].status = "PENDING"
                      /\ \A b \in Callers : changing'[b].task = changing'[d].task => b = d
    BY <1>1 DEF ChangeInv
  <2>1. changing'[c] = [task |-> k, to |-> to] /\ \A b \in Callers : b # c => changing'[b] = changing[b]
    BY <1>3 DEF SInv, PayTypeOK
  <2>2. changing[d].task # None \/ d = c
    BY <2>1, NoneFacts DEF SInv, PayTypeOK
  <2>3. CASE d = c
    <3>1. ~BeingChanged(k)
      BY <1>4, <2>1, <2>3
    <3> QED
      BY <1>2, <2>1, <2>3, <3>1 DEF BeingChanged
  <2>4. CASE d # c
    <3>1. changing[d].task # k
      BY <1>4, <2>1, <2>4 DEF BeingChanged
    <3> QED
      BY <1>2, <1>6, <2>1, <2>4, <3>1 DEF SInv, TaskInv, ChangeInv
  <2> QED
    BY <2>3, <2>4
<1>10. KnownInv'
  <2>1. tasks[k] # NoTask
    BY <1>2, NoneFacts
  <2> QED
    BY <1>1, <1>3, <2>1 DEF SInv, TaskInv, KnownInv, PayTypeOK
<1>9. PayTypeOK'
  <2>1. [task |-> k, to |-> to] \in [task : TaskIdents, to : TaskEnds]
    OBVIOUS
  <2> QED
    BY <1>1, <1>3, <1>4, <2>1 DEF SInv, PayTypeOK
<1> QED
  BY <1>5, <1>7, <1>8, <1>9, <1>10 DEF SInv, TaskInv

LEMMA WriteStep ==
  ASSUME SInv, NEW c \in Callers, WriteTask(c)
  PROVE  SInv'
<1> DEFINE k == changing[c].task
           to == changing[c].to
<1>1. /\ onDisk' = onDisk /\ standing' = standing /\ payFaults' = payFaults
      /\ vouchers' = vouchers /\ byTrade' = byTrade
      /\ taskByTrade' = taskByTrade /\ citing' = citing /\ overlapped' = overlapped
  BY DEF WriteTask, book, registry
<1>2. changing[c] # NoChange /\ k \in TaskIdents /\ to \in TaskEnds
  BY NoneFacts DEF WriteTask, SInv, PayTypeOK
<1>3. finished' = IF to = "DONE" THEN finished \cup {k} ELSE finished
  BY DEF WriteTask
<1>4. changing' = [changing EXCEPT ![c] = NoChange]
  BY DEF WriteTask
<1>5. tasks' = [tasks EXCEPT ![k] = [tasks[k] EXCEPT !.status = to]]
  BY DEF WriteTask
<1>6. VoucherInv'
  BY <1>1, VouchersQuiet DEF Makers, Adds, registry
<1>7. \A j \in TaskIdents : j # k => tasks'[j] = tasks[j]
  BY <1>5 DEF SInv, PayTypeOK
<1>8. tasks'[k] = [tasks[k] EXCEPT !.status = to]
  BY <1>2, <1>5 DEF SInv, PayTypeOK
<1>9. "status" \in DOMAIN tasks[k]
  BY <1>2 DEF SInv, PayTypeOK, NoTask
<1>10. tasks'[k].status = to
  BY <1>8, <1>9
<1>11. TasksOnDisk /\ k \notin overlapped =>
         tasks[k].status = "PENDING" /\ \A d \in Callers : changing[d].task = k => d = c
  BY <1>2 DEF SInv, TaskInv, ChangeInv
<1>12. DoneInv'
  BY <1>2, <1>3, <1>7, <1>10 DEF SInv, TaskInv, DoneInv
<1>13. citing # NoCite => citing.ref \in TaskIdents
  BY DEF SInv, PayTypeOK
<1>14. CiteInv'
  BY <1>1, <1>3, <1>7, <1>11, <1>13 DEF SInv, TaskInv, CiteInv
<1>15. EvidenceStands'
  BY <1>1, <1>3, <1>7, <1>11 DEF SInv, TaskInv, EvidenceStands, Proved
<1>16. ChangeInv'
  <2> SUFFICES ASSUME TasksOnDisk, NEW d \in Callers, changing'[d] # NoChange,
                      changing'[d].task \notin overlapped
               PROVE  /\ tasks'[changing'[d].task].status = "PENDING"
                      /\ \A b \in Callers : changing'[b].task = changing'[d].task => b = d
    BY <1>1 DEF ChangeInv
  <2>1. changing'[c] = NoChange /\ \A b \in Callers : b # c => changing'[b] = changing[b]
    BY <1>4 DEF SInv, PayTypeOK
  <2>2. d # c /\ changing'[d] = changing[d] /\ changing[d].task \in TaskIdents
    BY <2>1 DEF SInv, PayTypeOK
  <2>3. changing[d].task # k
    BY <1>11, <2>2
  <2>4. changing[d].task # None
    BY <2>2, NoneFacts
  <2> QED
    BY <1>7, <2>1, <2>2, <2>3, <2>4, NoneFacts DEF SInv, TaskInv, ChangeInv
<1>0. tasks[k] # NoTask
  BY <1>2 DEF SInv, TaskInv, KnownInv
<1>18. KnownInv'
  <2>1. tasks'[k] # NoTask
    BY <1>2, <1>10, NoneFacts DEF NoTask, None, TaskEnds
  <2>2. \A b \in Callers : b # c => changing'[b] = changing[b]
    BY <1>4 DEF SInv, PayTypeOK
  <2>3. changing'[c] = NoChange
    BY <1>4 DEF SInv, PayTypeOK
  <2>4. \A b \in Callers : changing[b] # NoChange => changing[b].task \in TaskIdents
    BY DEF SInv, PayTypeOK
  <2> QED
    BY <1>7, <2>1, <2>2, <2>3, <2>4 DEF SInv, TaskInv, KnownInv
<1>17. PayTypeOK'
  <2>1. tasks'[k] \in [trade : PaidTrades, status : {"PENDING"} \cup TaskEnds]
    BY <1>0, <1>2, <1>8 DEF SInv, PayTypeOK
  <2> QED
    BY <1>1, <1>2, <1>3, <1>4, <1>5, <1>8, <2>1 DEF SInv, PayTypeOK
<1> QED
  BY <1>6, <1>12, <1>14, <1>15, <1>16, <1>17, <1>18 DEF SInv, TaskInv

LEMMA RestartStep ==
  ASSUME SInv, PayRestart
  PROVE  SInv'
<1>1. /\ onDisk' = onDisk /\ standing' = standing /\ payFaults' = payFaults + 1
      /\ finished' = finished /\ overlapped' = overlapped /\ citing' = NoCite
  BY DEF PayRestart
<1>2. /\ vouchers' = [v \in Vouchers |-> NoVoucher]
      /\ byTrade' = [t \in PaidTrades |-> None]
      /\ taskByTrade' = [t \in PaidTrades |-> None]
  BY DEF PayRestart
<1>3. \/ tasks' = tasks /\ changing' = changing
      \/ ~TasksOnDisk /\ tasks' = [k \in TaskIdents |-> NoTask] /\ changing' = [c \in Callers |-> NoChange]
  BY DEF PayRestart
<1>4. VoucherInv'
  BY <1>1, <1>2, NoneFacts DEF SInv, VoucherInv, IndexInv, GoodInv, VoucherOnce,
     RegisteredIsRequested, PaidAsRequested, Confirmations
<1>5. CiteInv' /\ EvidenceStands'
  BY <1>1, <1>3 DEF SInv, TaskInv, CiteInv, EvidenceStands, Proved
<1>6. KnownInv' /\ DoneInv' /\ ChangeInv'
  BY <1>1, <1>3, NoneFacts DEF SInv, TaskInv, KnownInv, DoneInv, ChangeInv
<1>7. PayTypeOK'
  BY <1>1, <1>2, <1>3 DEF SInv, PayTypeOK
<1> QED
  BY <1>4, <1>5, <1>6, <1>7 DEF SInv, TaskInv

LEMMA SInvStep == SInv /\ [PayNext]_payVars => SInv'
<1> SUFFICES ASSUME SInv, [PayNext]_payVars PROVE SInv'
  OBVIOUS
<1>1. ASSUME NEW t \in PaidTrades, ManualConfirm(t) PROVE SInv'
  <2>1. taskByTrade[t] \in TaskIdents
    BY <1>1 DEF ManualConfirm, SInv, PayTypeOK
  <2> QED
    BY <1>1, <2>1, FoundStep, NoneFacts DEF ManualConfirm
<1>2. ASSUME NEW k \in TaskIdents, NEW ty \in RecordedTypes, TaskToEvent(k, ty) PROVE SInv'
  <2>1. tasks[k].trade \in PaidTrades /\ ty \in EventTypes
    BY <1>2, NoneFacts, SettlementAssumption DEF TaskToEvent, SInv, PayTypeOK
  <2> QED
    BY <1>2, <2>1, FoundStep DEF TaskToEvent
<1>3. CASE UNCHANGED payVars
  BY <1>3 DEF payVars, book, registry, human, change, SInv, PayTypeOK, VoucherInv, IndexInv, GoodInv,
     VoucherOnce, RegisteredIsRequested, PaidAsRequested, Confirmations, TaskInv, KnownInv, DoneInv,
     CiteInv, ChangeInv, EvidenceStands, Proved
<1> QED
  BY <1>1, <1>2, <1>3, RequestStep, ConfirmStep, ManualRequestStep, CreateStep, RecordStep,
     CiteStep, ReadStep, WriteStep, RestartStep DEF PayNext

LEMMA SInvInit == PayInit => SInv
<1> SUFFICES ASSUME PayInit PROVE SInv
  OBVIOUS
<1>1. PayTypeOK
  BY DEF PayInit, PayTypeOK, Agreed, Position, TradeStates, ChainStates, StageOf
<1>2. VoucherInv
  BY NoneFacts DEF PayInit, VoucherInv, IndexInv, GoodInv, VoucherOnce, RegisteredIsRequested,
     PaidAsRequested, Confirmations
<1>3. TaskInv
  BY NoneFacts DEF PayInit, TaskInv, KnownInv, DoneInv, CiteInv, ChangeInv, EvidenceStands, Proved
<1> QED
  BY <1>1, <1>2, <1>3 DEF SInv

-------------------------------------------------------------------------------
(* The theorems.                                                              *)

\* The inductive invariant holds in every state.
THEOREM SInvAlways == PaySpec => []SInv
  BY SInvInit, SInvStep, PTL DEF PaySpec

\* confirm() never stores two confirmations with one voucher, whatever fails
\* half-way, is tried again, is disputed, is recorded by hand or is restarted
\* in between.
THEOREM VoucherOnceAlways == PaySpec => []VoucherOnce
<1>1. SInv => VoucherOnce
  BY DEF SInv, VoucherInv
<1> QED
  BY SInvAlways, <1>1, PTL

\* What confirm() stores is for the trade and the amount the voucher was
\* requested for.
THEOREM PaidAsRequestedAlways == PaySpec => []PaidAsRequested
<1>1. SInv => PaidAsRequested
  BY DEF SInv, VoucherInv
<1> QED
  BY SInvAlways, <1>1, PTL

\* A registered voucher has a payment request on disk.
THEOREM RegisteredIsRequestedAlways == PaySpec => []RegisteredIsRequested
<1>1. SInv => RegisteredIsRequested
  BY DEF SInv, VoucherInv
<1> QED
  BY SInvAlways, <1>1, PTL

\* A task that manual confirm or toEvent made an event of has been done, and
\* still is unless two processes were changing it at once.
THEOREM EvidenceStandsAlways == PaySpec => []EvidenceStands
<1>1. SInv => EvidenceStands
  BY DEF SInv, TaskInv
<1> QED
  BY SInvAlways, <1>1, PTL
===============================================================================
