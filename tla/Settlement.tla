------------------------------ MODULE Settlement ------------------------------
(***************************************************************************)
(* Payment of a trade: the two adapters of adapters/settlement, the human  *)
(* tasks of adapters/human-task they and the tools work on, and the tools  *)
(* of apps/mcp-server and of the daemon that call them.  The registries of *)
(* an adapter are in the memory of its process; tasks are files when the   *)
(* store of adapters/human-task is injected and in memory otherwise.       *)
(*                                                                         *)
(* The local store is seen from outside: applyEvent either applies the     *)
(* event, or throws and leaves no trace, or throws after it has written    *)
(* the fact file and, with LocalStore's Interrupt, no trade row.  The      *)
(* process of the adapters awaits nothing within an operation, so what it  *)
(* does there is one step, except where it reads a task file that other    *)
(* processes change meanwhile.                                             *)
(***************************************************************************)
EXTENDS TradeState, FiniteSets

CONSTANTS
  PaidTrades,    \* trades
  Amounts,       \* settlement.amount strings, compared character by character
  Vouchers,      \* voucher ids
  TaskIdents,    \* human task ids
  RecordedTypes, \* event types recorded directly
  Callers,       \* processes that complete and cancel tasks
  MaxCiting,     \* bound: events recorded directly whose evidence names an id
  MaxDisk,       \* bound: different events on disk
  MaxPayFaults,  \* bound: calls of applyEvent that fail for want of the disk
  TasksOnDisk    \* TRUE: the task store of adapters/human-task is injected

ASSUME SettlementAssumption ==
  /\ None \notin PaidTrades \cup Vouchers \cup TaskIdents \cup Amounts
  /\ Vouchers \cap TaskIdents = {}
  /\ RecordedTypes \subseteq EventTypes
  /\ MaxCiting \in Nat /\ MaxDisk \in Nat /\ MaxPayFaults \in Nat
  /\ TasksOnDisk \in BOOLEAN

VARIABLES
  standing,     \* position of each trade in the store
  onDisk,       \* history: the trade events on disk
  vouchers,     \* memory: the voucher registry
  byTrade,      \* memory: the voucher issued for a trade
  tasks,        \* the task store
  taskByTrade,  \* memory: the PAY task created for a trade
  citing,       \* the event an operation is about to make of a task it found done
  changing,     \* the end each caller is about to write, having read PENDING
  finished,     \* history: tasks that have been DONE
  overlapped,   \* history: tasks that two callers were changing at once
  payFaults     \* history: failed calls so far

book == <<standing, onDisk, payFaults>>
registry == <<vouchers, byTrade>>
human == <<tasks, taskByTrade, finished>>
change == <<changing, overlapped>>
payVars == <<book, registry, human, citing, change>>

Refs == Vouchers \cup TaskIdents \cup {None}
NoVoucher == [trade |-> None, face |-> None, status |-> None]
NoTask == [trade |-> None, status |-> None]
NoChange == [task |-> None, to |-> None]
NoCite == [trade |-> None, type |-> None, ref |-> None, by |-> None]

\* Who makes an event: the adapters, toEvent of a task, trade_record_event.
Makers == {"voucher", "manual", "task", "record"}
TaskEnds == {"DONE", "CANCELLED"}

PayEvents == [trade : PaidTrades, type : EventTypes, ref : Refs, by : Makers,
           amount : Amounts \cup {None}, again : BOOLEAN]

\* The type invariant of the adapters, the tasks and what is on disk.
PayTypeOK ==
  /\ standing \in [PaidTrades -> Position]
  /\ onDisk \subseteq PayEvents
  /\ vouchers \in [Vouchers -> [trade : PaidTrades, face : Amounts, status : {"ISSUED", "REDEEMED"}]
                               \cup {NoVoucher}]
  /\ byTrade \in [PaidTrades -> Vouchers \cup {None}]
  /\ tasks \in [TaskIdents -> [trade : PaidTrades, status : {"PENDING"} \cup TaskEnds] \cup {NoTask}]
  /\ taskByTrade \in [PaidTrades -> TaskIdents \cup {None}]
  /\ citing \in [trade : PaidTrades, type : EventTypes, ref : TaskIdents, by : {"manual", "task"}]
                 \cup {NoCite}
  /\ changing \in [Callers -> [task : TaskIdents, to : TaskEnds] \cup {NoChange}]
  /\ finished \subseteq TaskIdents /\ overlapped \subseteq TaskIdents
  /\ payFaults \in Nat

\* Where a trade is when somebody starts to pay for it.  The events that led
\* there name neither voucher nor task, and are left out of onDisk.
Agreed == [state |-> "AGREED", pre |-> None]

PayInit ==
  /\ standing = [t \in PaidTrades |-> Agreed]
  /\ onDisk = {}
  /\ vouchers = [v \in Vouchers |-> NoVoucher]
  /\ byTrade = [t \in PaidTrades |-> None]
  /\ tasks = [k \in TaskIdents |-> NoTask]
  /\ taskByTrade = [t \in PaidTrades |-> None]
  /\ citing = NoCite
  /\ changing = [c \in Callers |-> NoChange]
  /\ finished = {} /\ overlapped = {}
  /\ payFaults = 0

-------------------------------------------------------------------------------
(* What applyEvent does to the store.  An event cites a voucher, a task or    *)
(* nothing; again marks one of an adapter whose like is on disk already.      *)

EventOf(t, ty, r, a, by) ==
  [trade |-> t, type |-> ty, ref |-> r, amount |-> a, by |-> by,
   again |-> by # "record" /\ \E f \in onDisk : f.trade = t /\ f.type = ty /\ f.ref = r /\ f.by = by]

Persisted(t, ty, r, a, by) ==
  /\ Cardinality(onDisk) < MaxDisk
  /\ onDisk' = onDisk \cup {EventOf(t, ty, r, a, by)}

Applied(t, ty, r, a, by) ==
  /\ Allowed(standing[t], ty)
  /\ standing' = [standing EXCEPT ![t] = Transition(@, ty)]
  /\ Persisted(t, ty, r, a, by)
  /\ UNCHANGED payFaults

Torn(t, ty, r, a, by) ==
  /\ Allowed(standing[t], ty)
  /\ payFaults < MaxPayFaults /\ payFaults' = payFaults + 1
  /\ Persisted(t, ty, r, a, by)
  /\ UNCHANGED standing

Refused(t, ty) ==
  /\ \/ ~Allowed(standing[t], ty) /\ UNCHANGED payFaults
     \/ payFaults < MaxPayFaults /\ payFaults' = payFaults + 1
  /\ UNCHANGED <<standing, onDisk>>

Throws(t, ty, r, a, by) == Torn(t, ty, r, a, by) \/ Refused(t, ty)

\* The process of the adapters is not in the middle of an operation.
Ready == citing = NoCite /\ UNCHANGED citing

-------------------------------------------------------------------------------
(* test-voucher *)

\* A new id is in nobody's evidence: it is a random uuid.
Fresh(r) == \A f \in onDisk : f.ref # r

IssueVoucher(t, a, v) ==
  /\ vouchers' = [vouchers EXCEPT ![v] = [trade |-> t, face |-> a, status |-> "ISSUED"]]
  /\ byTrade' = [byTrade EXCEPT ![t] = v]

RedeemVoucher(v) == vouchers' = [vouchers EXCEPT ![v].status = "REDEEMED"]

\* Mutant: the voucher is registered before the event is applied.
VoucherRequestFirst(t, a, v) ==
  /\ Ready /\ vouchers[v] = NoVoucher /\ Fresh(v)
  /\ IssueVoucher(t, a, v)
  /\ \/ Applied(t, "PAYMENT_REQUESTED", v, a, "voucher")
     \/ Throws(t, "PAYMENT_REQUESTED", v, a, "voucher")
  /\ UNCHANGED <<human, change>>

\* Apply first, then register: a throw registers nothing.
VoucherRequest(t, a, v) ==
  /\ Ready /\ vouchers[v] = NoVoucher /\ Fresh(v)
  /\ \/ Applied(t, "PAYMENT_REQUESTED", v, a, "voucher") /\ IssueVoucher(t, a, v)
     \/ Throws(t, "PAYMENT_REQUESTED", v, a, "voucher") /\ UNCHANGED registry
  /\ UNCHANGED <<human, change>>

\* Mutant: the voucher is marked once the event has been applied.
VoucherConfirmLate(t, a) ==
  LET v == byTrade[t] IN
  /\ Ready /\ v # None
  /\ a = vouchers[v].face /\ vouchers[v].status = "ISSUED"
  /\ \/ Applied(t, "PAYMENT_CONFIRMED", v, a, "voucher") /\ RedeemVoucher(v)
     \/ Throws(t, "PAYMENT_CONFIRMED", v, a, "voucher") /\ UNCHANGED vouchers
  /\ UNCHANGED <<byTrade, human, change>>

\* Mutant: the deal handed to confirm is not compared with the face value.
VoucherConfirmAnyDeal(t, a) ==
  LET v == byTrade[t] IN
  /\ Ready /\ v # None
  /\ vouchers[v].status = "ISSUED"
  /\ RedeemVoucher(v)
  /\ \/ Applied(t, "PAYMENT_CONFIRMED", v, a, "voucher")
     \/ Throws(t, "PAYMENT_CONFIRMED", v, a, "voucher")
  /\ UNCHANGED <<byTrade, human, change>>

\* The deal handed to confirm carries amount a.  The voucher is void before
\* the event is applied, and stays void when that throws.
VoucherConfirm(t, a) ==
  LET v == byTrade[t] IN
  /\ Ready /\ v # None
  /\ a = vouchers[v].face /\ vouchers[v].status = "ISSUED"
  /\ RedeemVoucher(v)
  /\ \/ Applied(t, "PAYMENT_CONFIRMED", v, a, "voucher")
     \/ Throws(t, "PAYMENT_CONFIRMED", v, a, "voucher")
  /\ UNCHANGED <<byTrade, human, change>>

-------------------------------------------------------------------------------
(* manual-settlement *)

FreshTask(k) == tasks[k] = NoTask /\ Fresh(k)

NewTask(t, k) == tasks' = [tasks EXCEPT ![k] = [trade |-> t, status |-> "PENDING"]]

\* The task is created first and stays when applying the event throws.
ManualRequest(t, k) ==
  /\ Ready /\ FreshTask(k) /\ NewTask(t, k)
  /\ \/ Applied(t, "PAYMENT_REQUESTED", k, None, "manual") /\ taskByTrade' = [taskByTrade EXCEPT ![t] = k]
     \/ Throws(t, "PAYMENT_REQUESTED", k, None, "manual") /\ UNCHANGED taskByTrade
  /\ UNCHANGED <<registry, finished, change>>

\* confirm has read the task and makes the event next.
ManualConfirm(t) ==
  LET k == taskByTrade[t] IN
  /\ citing = NoCite /\ k # None /\ tasks[k].status = "DONE"
  /\ citing' = [trade |-> t, type |-> "PAYMENT_CONFIRMED", ref |-> k, by |-> "manual"]
  /\ UNCHANGED <<book, registry, human, change>>

-------------------------------------------------------------------------------
(* The tools: events recorded directly (trade_record_event, markFulfilling)   *)
(* and human tasks (human_task_create, _complete, _cancel, toEvent).          *)

\* The evidence of the caller is signed as it is: it names any id, or none.
RecordDirectly(t, ty, r) ==
  /\ Ready
  /\ r # None => Cardinality({f \in onDisk : f.by = "record" /\ f.ref # None}) < MaxCiting
  /\ Applied(t, ty, r, None, "record") \/ Torn(t, ty, r, None, "record")
  /\ UNCHANGED <<registry, human, change>>

CreateTask(t, k) ==
  /\ Ready /\ FreshTask(k) /\ NewTask(t, k)
  /\ UNCHANGED <<book, registry, taskByTrade, finished, change>>

\* toEvent has read the task; any event type of the protocol, whatever the
\* type of the task.
TaskToEvent(k, ty) ==
  /\ TasksOnDisk /\ citing = NoCite /\ tasks[k].status = "DONE"
  /\ citing' = [trade |-> tasks[k].trade, type |-> ty, ref |-> k, by |-> "task"]
  /\ UNCHANGED <<book, registry, human, change>>

\* The event made of the task found done is applied.
CiteTask ==
  LET e == citing IN
  /\ e # NoCite /\ citing' = NoCite
  /\ Applied(e.trade, e.type, e.ref, None, e.by) \/ Throws(e.trade, e.type, e.ref, None, e.by)
  /\ UNCHANGED <<registry, human, change>>

\* Somebody is about to write the task.
BeingChanged(k) == \E c \in Callers : changing[c].task = k

\* Mutant: a task that is done can still be cancelled.
ReadTaskAnyTime(c, k, to) ==
  /\ changing[c] = NoChange /\ tasks[k] # NoTask
  /\ TasksOnDisk \/ \A d \in Callers : changing[d] = NoChange
  /\ changing' = [changing EXCEPT ![c] = [task |-> k, to |-> to]]
  /\ overlapped' = IF BeingChanged(k) THEN overlapped \cup {k} ELSE overlapped
  /\ UNCHANGED <<book, registry, human, citing>>

\* complete and cancel read the task and write it again with its new status.
\* Nothing locks a file between the two; in memory they are one.
ReadTask(c, k, to) ==
  /\ changing[c] = NoChange /\ tasks[k].status = "PENDING"
  /\ TasksOnDisk \/ \A d \in Callers : changing[d] = NoChange
  /\ changing' = [changing EXCEPT ![c] = [task |-> k, to |-> to]]
  /\ overlapped' = IF BeingChanged(k) THEN overlapped \cup {k} ELSE overlapped
  /\ UNCHANGED <<book, registry, human, citing>>

WriteTask(c) ==
  LET k == changing[c].task  to == changing[c].to IN
  /\ k # None
  /\ tasks' = [tasks EXCEPT ![k].status = to]
  /\ finished' = IF to = "DONE" THEN finished \cup {k} ELSE finished
  /\ changing' = [changing EXCEPT ![c] = NoChange]
  /\ UNCHANGED <<book, registry, taskByTrade, citing, overlapped>>

\* The process starts again: what it held in memory is gone.
PayRestart ==
  /\ payFaults < MaxPayFaults /\ payFaults' = payFaults + 1
  /\ vouchers' = [v \in Vouchers |-> NoVoucher]
  /\ byTrade' = [t \in PaidTrades |-> None]
  /\ taskByTrade' = [t \in PaidTrades |-> None]
  /\ citing' = NoCite
  /\ IF TasksOnDisk THEN UNCHANGED <<tasks, changing>>
     ELSE tasks' = [k \in TaskIdents |-> NoTask] /\ changing' = [c \in Callers |-> NoChange]
  /\ UNCHANGED <<standing, onDisk, finished, overlapped>>

-------------------------------------------------------------------------------
PayNext ==
  \/ \E t \in PaidTrades, a \in Amounts, v \in Vouchers : VoucherRequest(t, a, v)
  \/ \E t \in PaidTrades, a \in Amounts : VoucherConfirm(t, a)
  \/ \E t \in PaidTrades, k \in TaskIdents : ManualRequest(t, k) \/ CreateTask(t, k)
  \/ \E t \in PaidTrades : ManualConfirm(t)
  \/ \E t \in PaidTrades, ty \in RecordedTypes, r \in Refs : RecordDirectly(t, ty, r)
  \/ \E k \in TaskIdents, ty \in RecordedTypes : TaskToEvent(k, ty)
  \/ CiteTask
  \/ \E c \in Callers, k \in TaskIdents, to \in TaskEnds : ReadTask(c, k, to)
  \/ \E c \in Callers : WriteTask(c)
  \/ PayRestart

PaySpec == PayInit /\ [][PayNext]_payVars

-------------------------------------------------------------------------------
(* Properties.  What a caller writes into the evidence of an event he records *)
(* himself is his word; they are about what the adapters and toEvent make.    *)

\* The confirmations confirm() of the voucher adapter has stored.
Confirmations(v) == {f \in onDisk : f.type = "PAYMENT_CONFIRMED" /\ f.ref = v /\ f.by = "voucher"}

\* confirm() stores at most one confirmation with a voucher, also when one
\* failed half-way and was tried again, the trade was disputed in between, or
\* somebody recorded a confirmation that names the voucher.
\* (settlement.ts:200-203, M6 card acceptance 3.)
VoucherOnce == \A v \in Vouchers : \A f \in Confirmations(v) : ~f.again

\* A registered voucher has a payment request on disk, for its trade and its
\* face value.  (settlement.ts:168-179.)
RegisteredIsRequested ==
  \A v \in Vouchers : vouchers[v] # NoVoucher =>
    \E f \in onDisk : /\ f.type = "PAYMENT_REQUESTED" /\ f.ref = v /\ f.by = "voucher"
                      /\ f.trade = vouchers[v].trade /\ f.amount = vouchers[v].face

\* What confirm() stores for a voucher is for the trade request() stored it
\* for and for that amount, to the character, whatever deal is handed to
\* confirm and whatever else names the voucher.  (settlement.ts:190-199.)
PaidAsRequested ==
  \A v \in Vouchers : \A f \in Confirmations(v) :
    \E g \in onDisk : /\ g.type = "PAYMENT_REQUESTED" /\ g.ref = v /\ g.by = "voucher"
                      /\ g.trade = f.trade /\ g.amount = f.amount

\* The events that rest on a task having been found done.
Proved(k) ==
  {f \in onDisk : f.ref = k /\ (f.by = "task" \/ (f.by = "manual" /\ f.type = "PAYMENT_CONFIRMED"))}

\* A task that manual confirm or toEvent made an event of has been done.  It
\* still is, unless two processes were changing it at once: then the other one
\* may have cancelled it, before the event is stored or after.
\* (settlement.ts:271-275, human-task/src/store.ts:231-259.)
EvidenceStands ==
  \A k \in TaskIdents : Proved(k) # {} =>
    /\ k \in finished
    /\ TasksOnDisk /\ k \notin overlapped => tasks[k].status = "DONE"

\* A voucher the registry calls redeemed, and refuses as "already redeemed",
\* has been redeemed: a confirmation cites it.  (settlement.ts:15-16, 200-203.)
RedeemedIsConfirmed ==
  \A v \in Vouchers : vouchers[v].status = "REDEEMED" => Confirmations(v) # {}
===============================================================================
