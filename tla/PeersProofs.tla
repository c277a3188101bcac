------------------------------- MODULE PeersProofs -------------------------------
(***************************************************************************)
(* The safety properties of Peers: those of the task files, of the mailbox *)
(* and of what is asked of indexers and broadcast to them are proved here, *)
(* those of the trade and of the receipts in modules of their own; and all *)
(* of them hold of the matters put together.                               *)
(***************************************************************************)
EXTENDS Peers, ExchangeProofs, ReceiptsProofs, WellFoundedInduction, TLAPS

\* A set of natural numbers has a least element.
LEMMA LeastNat ==
  ASSUME NEW S \in SUBSET Nat, S # {}
  PROVE  \E n \in S : \A m \in S : n <= m
<1>1. \E n \in S : \A m \in S : <<m, n>> \notin OpToRel(<, Nat)
  BY WFMin, NatLessThanWellFounded, Zenon
<1>2. \A m, n \in Nat : <<m, n>> \notin OpToRel(<, Nat) => n <= m
  BY DEF OpToRel
<1> QED
  BY <1>1, <1>2, Zenon

-------------------------------------------------------------------------------
(* Tasks *)

\* What a call under way knows of itself.
JobsOK ==
  \A c \in Clients : job[c].step \in Writing \cup {"sync"} =>
    job[c].task \in TaskIds /\ job[c].status \in Status

\* Of a task no two processes changed at once: who changes it finds the file as it
\* read it and in the temporary file what it wrote, and ends stand.
OneWriter(t) ==
  /\ taskFile[t] # "torn"
  /\ \A c \in Changing(t) :
       /\ \A d \in Changing(t) : d = c
       /\ taskFile[t] = IF job[c].status \in Ends THEN "PENDING" ELSE Void
       /\ job[c].step = "write" => temp[t] = "torn"
       /\ job[c].step = "rename" => temp[t] = job[c].status
  /\ \A c \in Clients : job[c].step = "sync" /\ job[c].task = t /\ job[c].status \in Ends =>
       taskFile[t] = job[c].status
  /\ \A s \in Ends : <<t, s>> \in told => taskFile[t] = s
  /\ t \in cited => taskFile[t] = "DONE"

\* Who is alone is the only one at work, and while it is quiet whoever works is.
AloneOK ==
  \A c \in Clients :
    /\ job[c].alone => \A d \in Clients : d # c => job[d].step = "idle"
    /\ quiet /\ job[c].step # "idle" => job[c].alone

\* A row, or what was read, is of a task that has a file.
RowsHaveFiles ==
  /\ \A t \in TaskIds : table[t] # Void => taskFile[t] # Void
  /\ \A c \in Clients : \A t \in TaskIds : \A s \in Status :
       <<t, s>> \in job[c].read => taskFile[t] # Void

\* A list that is alone holds what the files say.
Holds(going) ==
  \A t \in TaskIds :
    /\ \A s \in Status : <<t, s>> \in going.read => taskFile[t] = s
    /\ taskFile[t] \in Status /\ t \notin going.left => <<t, taskFile[t]>> \in going.read

ReadGood == \A c \in Clients : job[c].step = "list" /\ job[c].alone => Holds(job[c])

\* While it is quiet, only the task that was just renamed differs from its row.
CopyGood ==
  quiet =>
    /\ \A t \in TaskIds :
         (\A c \in Clients : job[c].step = "sync" => job[c].task # t)
           => taskFile[t] \in {table[t], "torn"}
    /\ \A c \in Clients :
         /\ job[c].step = "write" => temp[job[c].task] = "torn"
         /\ job[c].step = "rename" => temp[job[c].task] = job[c].status
         /\ job[c].step = "sync" => /\ taskFile[job[c].task] = job[c].status
                                    /\ job[c].read = {<<job[c].task, job[c].status>>}

TasksInv ==
  /\ TasksTypeOK /\ JobsOK
  /\ \A t \in TaskIds \ doubled : OneWriter(t)
  /\ AloneOK /\ RowsHaveFiles /\ ReadGood /\ CopyGood

-------------------------------------------------------------------------------
(* The inductive invariant *)

JobSet ==
  [step : {"idle", "open", "write", "rename", "list", "sync"},
   task : TaskIds \cup {Void}, status : Status \cup {Void},
   left : SUBSET TaskIds, read : SUBSET (TaskIds \X Status), alone : BOOLEAN]

\* A call has begun: it is alone if nobody was at work, and the others no longer are.
Begun(c, step, read) ==
  /\ job' \in [Clients -> JobSet] /\ quiet' \in BOOLEAN
  /\ job[c].step = "idle" /\ (quiet' => quiet /\ Alone)
  /\ job'[c].step = step /\ job'[c].read = read /\ job'[c].alone = Alone
  /\ \A d \in Clients \ {c} :
       /\ job'[d].step = job[d].step /\ job'[d].task = job[d].task
       /\ job'[d].status = job[d].status /\ job'[d].left = job[d].left
       /\ job'[d].read = job[d].read /\ job'[d].alone = FALSE

LEMMA CallEffect ==
  ASSUME TasksTypeOK, NEW c \in Clients, NEW going \in JobSet, Call(c, going)
  PROVE  /\ Begun(c, going.step, going.read)
         /\ job'[c].task = going.task /\ job'[c].status = going.status /\ job'[c].left = going.left
<1>1. \A d \in Clients : job[d] \in JobSet
  BY DEF TasksTypeOK, JobSet
<1>2. Alone \in BOOLEAN
  BY DEF Alone
<1>3. [going EXCEPT !.alone = Alone] \in JobSet
  BY <1>2 DEF JobSet
<1>4. \A d \in Clients : [job[d] EXCEPT !.alone = FALSE] \in JobSet
  BY <1>1 DEF JobSet
<1>5. job' \in [Clients -> JobSet]
  BY <1>3, <1>4 DEF Call
<1> QED
  BY <1>1, <1>2, <1>5 DEF Call, JobSet, TasksTypeOK, Begun

\* writeTaskFile begins.
LEMMA WriteEffect ==
  ASSUME TasksTypeOK, NEW c \in Clients, NEW t \in TaskIds, NEW status \in Status,
         Write(c, t, status)
  PROVE  Begun(c, "open", {}) /\ job'[c].task = t /\ job'[c].status = status
<1> DEFINE going == [Nobody EXCEPT !.step = "open", !.task = t, !.status = status]
<1>1. /\ going \in JobSet /\ going.step = "open" /\ going.task = t /\ going.status = status
      /\ going.read = {}
  BY DEF Nobody, JobSet
<1>2. Call(c, going)
  BY DEF Write
<1> HIDE DEF going
<1> QED
  BY <1>1, <1>2, CallEffect

LEMMA CreateEffect ==
  ASSUME TasksTypeOK, NEW c \in Clients, NEW t \in TaskIds, Create(c, t)
  PROVE  Begun(c, "open", {}) /\ job'[c].task = t /\ job'[c].status = "PENDING"
BY WriteEffect DEF Create, Status

LEMMA EndEffect ==
  ASSUME TasksTypeOK, NEW c \in Clients, NEW t \in TaskIds, NEW s \in Ends, EndTask(c, t, s)
  PROVE  Begun(c, "open", {}) /\ job'[c].task = t /\ job'[c].status = s
BY WriteEffect DEF EndTask, Status

\* A list begins.
LEMMA ListEffect ==
  ASSUME TasksTypeOK, NEW c \in Clients, ListTasks(c)
  PROVE  Begun(c, "list", {}) /\ job'[c].left = {t \in TaskIds : taskFile[t] # Void}
<1>1. PICK files \in SUBSET TaskIds : files = {t \in TaskIds : taskFile[t] # Void}
  OBVIOUS
<1>2. PICK going : going = [Nobody EXCEPT !.step = "list", !.left = files]
  OBVIOUS
<1>3. going \in JobSet /\ going.step = "list" /\ going.left = files /\ going.read = {}
  BY <1>2 DEF Nobody, JobSet
<1>4. Call(c, going)
  BY <1>1, <1>2, Zenon DEF ListTasks
<1> QED
  BY <1>1, <1>3, <1>4, CallEffect

\* The types are kept.
LEMMA TasksTypeStep ==
  ASSUME TasksTypeOK, JobsOK, [TasksNext]_tasksVars
  PROVE  TasksTypeOK' /\ JobsOK'
<1> USE TasksAssumption
<1>0. \A d \in Clients : job[d] \in JobSet
  BY DEF TasksTypeOK, JobSet
<1>1. ASSUME NEW c \in Clients, NEW t \in TaskIds, Create(c, t)
      PROVE  TasksTypeOK' /\ JobsOK'
  <2>1. Write(c, t, "PENDING") /\ "PENDING" \in Status
    BY <1>1 DEF Create, Status
  <2> QED
    <3>1. Begun(c, "open", {}) /\ job'[c].task = t /\ job'[c].status = "PENDING"
      BY <2>1, WriteEffect
    <3>2. JobsOK'
      BY <3>1 DEF Begun, JobsOK, Writing, Status
    <3> QED
      BY <1>1, <3>1, <3>2 DEF Begun, Create, TasksTypeOK, JobSet, taskHistory
<1>2. ASSUME NEW c \in Clients, NEW t \in TaskIds, NEW s \in Ends, EndTask(c, t, s)
      PROVE  TasksTypeOK' /\ JobsOK'
  <2>1. Write(c, t, s) /\ s \in Status
    BY <1>2 DEF EndTask, Status
  <2> QED
    <3>1. doubled' \subseteq TaskIds
      BY <1>2 DEF EndTask, TasksTypeOK
    <3>2. job' \in [Clients -> JobSet] /\ quiet' \in BOOLEAN
      BY <2>1, WriteEffect DEF Begun
    <3>3. JobsOK'
      <4>1. Begun(c, "open", {}) /\ job'[c].task = t /\ job'[c].status = s
        BY <2>1, WriteEffect
      <4> QED
        BY <2>1, <4>1 DEF Begun, JobsOK, Writing
    <3> QED
      BY <1>2, <3>1, <3>2, <3>3 DEF EndTask, TasksTypeOK, JobSet
<1>3. ASSUME NEW c \in Clients, NEW t \in TaskIds, ListRead(c, t)
      PROVE  TasksTypeOK' /\ JobsOK'
  <2> DEFINE read == IF taskFile[t] \in Status THEN job[c].read \cup {<<t, taskFile[t]>>} ELSE job[c].read
  <2>1. read \in SUBSET (TaskIds \X Status)
    BY <1>0 DEF JobSet
  <2>2. job' = [job EXCEPT ![c] = [job[c] EXCEPT !.left = @ \ {t}, !.read = read]]
    BY <1>3 DEF ListRead
  <2> HIDE DEF read
  <2>3. [job[c] EXCEPT !.left = @ \ {t}, !.read = read] \in JobSet
    BY <1>0, <2>1 DEF JobSet
  <2>4. job' \in [Clients -> JobSet]
    BY <1>0, <2>2, <2>3 DEF TasksTypeOK, JobSet
  <2>5. JobsOK'
    BY <1>0, <1>3, <2>2 DEF ListRead, JobsOK, JobSet, TasksTypeOK, Writing
  <2> QED
    BY <1>3, <2>4, <2>5 DEF ListRead, TasksTypeOK, JobSet, taskHistory
<1>4. ASSUME NEW c \in Clients, NEW t \in TaskIds, ToEvent(c, t)
      PROVE  TasksTypeOK' /\ JobsOK'
  BY <1>0, <1>4 DEF ToEvent, TasksTypeOK, JobsOK, JobSet, taskHistory, Writing
<1>5. ASSUME NEW c \in Clients, OpenTemp(c)
      PROVE  TasksTypeOK' /\ JobsOK'
  BY <1>0, <1>5 DEF OpenTemp, GoTo, TasksTypeOK, JobsOK, JobSet, taskHistory, Writing
<1>6. ASSUME NEW c \in Clients, WriteTemp(c)
      PROVE  TasksTypeOK' /\ JobsOK'
  BY <1>0, <1>6 DEF WriteTemp, Written, GoTo, TasksTypeOK, JobsOK, JobSet, taskHistory, Writing
<1>7. ASSUME NEW c \in Clients, RenameTemp(c)
      PROVE  TasksTypeOK' /\ JobsOK'
  <2> DEFINE t == job[c].task
  <2>0. job[c].step = "rename" /\ t \in TaskIds /\ job[c].status \in Status /\ Nobody \in JobSet
    BY <1>7 DEF RenameTemp, JobsOK, Writing, Nobody, JobSet
  <2>1. CASE temp[t] # Void
    <3>1. job' = [job EXCEPT ![c] = [job[c] EXCEPT !.step = "sync", !.read = {<<t, job[c].status>>}]]
      BY <1>7, <2>1 DEF RenameTemp
    <3>2. [job[c] EXCEPT !.step = "sync", !.read = {<<t, job[c].status>>}] \in JobSet
      <4>1. {<<t, job[c].status>>} \in SUBSET (TaskIds \X Status)
        BY <2>0
      <4>2. PICK read \in SUBSET (TaskIds \X Status) : read = {<<t, job[c].status>>}
        BY <4>1, Zenon
      <4>3. [job[c] EXCEPT !.step = "sync", !.read = read] \in JobSet
        BY <1>0 DEF JobSet
      <4> QED
        BY <4>2, <4>3, Zenon
    <3>3. job' \in [Clients -> JobSet]
      BY <1>0, <3>1, <3>2 DEF TasksTypeOK, JobSet
    <3>4. JobsOK'
      BY <1>0, <2>0, <3>1 DEF JobsOK, JobSet, TasksTypeOK
    <3> QED
      BY <1>7, <2>1, <3>4 DEF RenameTemp, TasksTypeOK, taskHistory
  <2>2. CASE temp[t] = Void
    <3>1. job' = [job EXCEPT ![c] = Nobody] /\ UNCHANGED <<taskFile, temp>>
      BY <1>7, <2>2 DEF RenameTemp
    <3>2. job' \in [Clients -> JobSet]
      BY <1>0, <2>0, <3>1 DEF TasksTypeOK, JobSet
    <3>3. JobsOK'
      BY <3>1, <3>2 DEF JobsOK, TasksTypeOK, Nobody, Writing
    <3> QED
      BY <1>7, <3>2, <3>3 DEF RenameTemp, TasksTypeOK, JobSet, taskHistory
  <2> QED
    BY <2>1, <2>2
<1>8. ASSUME NEW c \in Clients, ListTasks(c)
      PROVE  TasksTypeOK' /\ JobsOK'
  <2>1. Begun(c, "list", {})
    BY <1>8, ListEffect, Zenon
  <2>2. UNCHANGED <<taskFile, temp, table, taskHistory, mishaps>>
    BY <1>8, Zenon DEF ListTasks
  <2> QED
    BY <1>0, <2>1, <2>2 DEF Begun, TasksTypeOK, JobsOK, JobSet, taskHistory, Writing
<1>9. ASSUME NEW c \in Clients, Sync(c)
      PROVE  TasksTypeOK' /\ JobsOK'
  <2>1. Nobody \in JobSet /\ Nobody.step = "idle"
    BY DEF Nobody, JobSet
  <2>2. job' \in [Clients -> JobSet] /\ JobsOK'
    BY <1>9, <2>1 DEF Sync, TasksTypeOK, JobsOK, JobSet, Writing
  <2>3. Upserted(job[c].read) \in [TaskIds -> Status \cup {Void}]
    BY DEF Upserted, TasksTypeOK
  <2>4. table' \in [TaskIds -> Status \cup {Void}] /\ quiet' \in BOOLEAN /\ mishaps' \in 0 .. MaxMishaps
    <3>1. job[c].alone \in BOOLEAN
      BY <1>0 DEF JobSet
    <3>2. quiet' \in BOOLEAN
      BY <1>9, <3>1 DEF Sync, TasksTypeOK
    <3>3. table' \in [TaskIds -> Status \cup {Void}]
      BY <1>9, <2>3 DEF Sync, TasksTypeOK
    <3>4. mishaps' \in 0 .. MaxMishaps
      BY <1>9 DEF Sync, TasksTypeOK
    <3> QED
      BY <3>2, <3>3, <3>4
  <2>5. told' \subseteq TaskIds \X Ends
    BY <1>9 DEF Sync, TasksTypeOK, JobsOK
  <2> QED
    BY <1>9, <2>2, <2>4, <2>5 DEF Sync, TasksTypeOK, JobSet
<1>10. ASSUME NEW c \in Clients, Breaks(c)
      PROVE  TasksTypeOK' /\ JobsOK'
  BY <1>0, <1>10 DEF Breaks, Nobody, TasksTypeOK, JobsOK, JobSet, taskHistory, Writing
<1>11. ASSUME IndexLost
      PROVE  TasksTypeOK' /\ JobsOK'
  <2>1. \A d \in Clients : [job[d] EXCEPT !.alone = FALSE] \in JobSet
    BY <1>0 DEF JobSet
  <2>2. job' \in [Clients -> JobSet]
    BY <1>11, <2>1 DEF IndexLost
  <2>3. JobsOK'
    BY <1>0, <1>11 DEF IndexLost, JobsOK, JobSet, Writing
  <2> QED
    <3>1. table' \in [TaskIds -> Status \cup {Void}] /\ mishaps' \in 0 .. MaxMishaps
      BY <1>11 DEF IndexLost, TasksTypeOK
    <3> QED
      BY <1>11, <2>2, <2>3, <3>1 DEF IndexLost, TasksTypeOK, JobSet, taskHistory
<1>12. ASSUME UNCHANGED tasksVars
      PROVE  TasksTypeOK' /\ JobsOK'
  BY <1>12 DEF tasksVars, taskHistory, TasksTypeOK, JobsOK, Writing
<1> QED
  BY <1>1, <1>2, <1>3, <1>4, <1>5, <1>6, <1>7, <1>8, <1>9, <1>10, <1>11, <1>12 DEF TasksNext

\* OneWriter is kept for a task until two processes change it at once.
LEMMA OneWriterStep ==
  ASSUME TasksInv, [TasksNext]_tasksVars, NEW t \in TaskIds, t \notin doubled'
  PROVE  OneWriter(t)'
<1> USE TasksAssumption DEF TasksInv
<1>0. \A d \in Clients : job[d] \in JobSet
  BY DEF TasksTypeOK, JobSet
<1>1. ASSUME NEW c \in Clients, NEW u \in TaskIds, Create(c, u)
      PROVE  OneWriter(t)'
  <2>1. Begun(c, "open", {}) /\ job'[c].task = u /\ job'[c].status = "PENDING"
    BY <1>1, CreateEffect
  <2> QED
    <3>1. OneWriter(t) /\ UNCHANGED <<taskFile, temp, told, cited, doubled>>
      BY <1>1 DEF Create, taskHistory
    <3>2. \A d \in Clients \ {c} :
            job'[d].step = job[d].step /\ job'[d].task = job[d].task /\ job'[d].status = job[d].status
      BY <2>1 DEF Begun
    <3>3. CASE t = u
      <4>1. Changing(t)' = {c} /\ taskFile[t] = Void
        BY <1>1, <2>1, <3>2, <3>3 DEF Create, Changing, Begun, Writing
      <4> QED
        BY <2>1, <3>1, <3>2, <4>1 DEF OneWriter, Begun, Ends
    <3>4. CASE t # u
      <4>1. Changing(t)' = Changing(t) /\ c \notin Changing(t)
        BY <2>1, <3>2, <3>4 DEF Changing, Begun, Writing
      <4> QED
        BY <2>1, <3>1, <3>2, <4>1 DEF OneWriter, Begun, Changing
    <3> QED
      BY <3>3, <3>4
<1>2. ASSUME NEW c \in Clients, NEW u \in TaskIds, NEW s \in Ends, EndTask(c, u, s)
      PROVE  OneWriter(t)'
  <2>1. Begun(c, "open", {}) /\ job'[c].task = u /\ job'[c].status = s
    BY <1>2, EndEffect
  <2> QED
    <3>1. OneWriter(t) /\ UNCHANGED <<taskFile, temp, told, cited>>
      BY <1>2 DEF EndTask
    <3>2. \A d \in Clients \ {c} :
            job'[d].step = job[d].step /\ job'[d].task = job[d].task /\ job'[d].status = job[d].status
      BY <2>1 DEF Begun
    <3>3. CASE t = u
      <4>1. Changing(t) = {} /\ taskFile[t] = "PENDING"
        BY <1>2, <3>3 DEF EndTask, OpenTask
      <4>2. Changing(t)' = {c}
        BY <2>1, <3>2, <3>3, <4>1 DEF Changing, Begun, Writing
      <4> QED
        BY <2>1, <3>1, <3>2, <4>1, <4>2 DEF OneWriter, Begun
    <3>4. CASE t # u
      <4>1. Changing(t)' = Changing(t) /\ c \notin Changing(t)
        BY <2>1, <3>2, <3>4 DEF Changing, Begun, Writing
      <4> QED
        BY <2>1, <3>1, <3>2, <4>1 DEF OneWriter, Begun, Changing
    <3> QED
      BY <3>3, <3>4
<1>3. ASSUME NEW c \in Clients, NEW u \in TaskIds, ListRead(c, u)
      PROVE  OneWriter(t)'
  BY <1>3 DEF ListRead, taskHistory, TasksTypeOK, OneWriter, Changing
<1>4. ASSUME NEW c \in Clients, NEW u \in TaskIds, ToEvent(c, u)
      PROVE  OneWriter(t)'
  BY <1>4 DEF ToEvent, OneWriter, Changing
<1>5. ASSUME NEW c \in Clients, OpenTemp(c)
      PROVE  OneWriter(t)'
  BY <1>5 DEF OpenTemp, GoTo, taskHistory, TasksTypeOK, OneWriter, Changing, Writing
<1>6. ASSUME NEW c \in Clients, WriteTemp(c)
      PROVE  OneWriter(t)'
  BY <1>6 DEF WriteTemp, Written, GoTo, taskHistory, TasksTypeOK, OneWriter, Changing, Writing
<1>7. ASSUME NEW c \in Clients, RenameTemp(c)
      PROVE  OneWriter(t)'
  <2>0. /\ OneWriter(t) /\ job[c].step = "rename" /\ job[c].task \in TaskIds
        /\ job[c].status \in Status /\ UNCHANGED <<told, cited, doubled>>
    BY <1>7 DEF RenameTemp, taskHistory, JobsOK, Writing
  <2>1. \A d \in Clients \ {c} : job'[d] = job[d]
    BY <1>7 DEF RenameTemp, TasksTypeOK
  <2>2. /\ job'[c].step \in {"idle", "sync"}
        /\ job'[c].step = "sync" =>
             /\ job'[c].task = job[c].task /\ job'[c].status = job[c].status
             /\ taskFile' = [taskFile EXCEPT ![job[c].task] = temp[job[c].task]]
             /\ temp' = [temp EXCEPT ![job[c].task] = Void]
        /\ job'[c].step = "idle" => UNCHANGED <<taskFile, temp>>
    BY <1>0, <1>7 DEF RenameTemp, Nobody, TasksTypeOK, JobSet
  <2>3. Changing(t)' = Changing(t) \ {c}
    BY <2>1, <2>2 DEF Changing, Writing
  <2>4. CASE job[c].task = t
    <3>1. c \in Changing(t) /\ Changing(t) = {c}
      BY <2>0, <2>4 DEF OneWriter, Changing, Writing
    <3>2. temp[t] = job[c].status
      BY <2>0, <3>1 DEF OneWriter
    <3>3. taskFile[t] \in {"PENDING", Void}
      BY <2>0, <3>1 DEF OneWriter
    <3>4. taskFile'[t] = IF job'[c].step = "sync" THEN job[c].status ELSE taskFile[t]
      BY <2>0, <2>2, <2>4, <3>2 DEF TasksTypeOK
    <3>5. Changing(t)' = {}
      BY <2>3, <3>1
    <3> QED
      BY <2>0, <2>1, <2>2, <2>4, <3>3, <3>4, <3>5 DEF OneWriter, Status, Ends
  <2>5. CASE job[c].task # t
    <3>1. taskFile'[t] = taskFile[t] /\ temp'[t] = temp[t]
      BY <2>2, <2>5 DEF TasksTypeOK
    <3> QED
      BY <2>0, <2>1, <2>2, <2>3, <2>5, <3>1 DEF OneWriter, Changing
  <2> QED
    BY <2>4, <2>5
<1>8. ASSUME NEW c \in Clients, ListTasks(c)
      PROVE  OneWriter(t)'
  <2>1. Begun(c, "list", {}) /\ job'[c].left = {x \in TaskIds : taskFile[x] # Void}
    BY <1>8, ListEffect
  <2> QED
    <3>1. OneWriter(t) /\ UNCHANGED <<taskFile, temp, told, cited, doubled>>
      BY <1>8 DEF ListTasks, taskHistory
    <3>2. \A d \in Clients \ {c} :
            job'[d].step = job[d].step /\ job'[d].task = job[d].task /\ job'[d].status = job[d].status
      BY <2>1 DEF Begun
    <3>3. Changing(t)' = Changing(t) /\ c \notin Changing(t)
      BY <2>1, <3>2 DEF Changing, Begun, Writing
    <3> QED
      BY <2>1, <3>1, <3>2, <3>3 DEF OneWriter, Begun, Changing
<1>9. ASSUME NEW c \in Clients, Sync(c)
      PROVE  OneWriter(t)'
  BY <1>9 DEF Sync, Nobody, OneWriter, Changing
<1>10. ASSUME NEW c \in Clients, Breaks(c)
      PROVE  OneWriter(t)'
  BY <1>10 DEF Breaks, Nobody, taskHistory, OneWriter, Changing
<1>11. ASSUME IndexLost
      PROVE  OneWriter(t)'
  BY <1>0, <1>11 DEF IndexLost, taskHistory, JobSet, OneWriter, Changing
<1>12. ASSUME UNCHANGED tasksVars
      PROVE  OneWriter(t)'
  BY <1>12 DEF tasksVars, taskHistory, OneWriter, Changing
<1> QED
  BY <1>1, <1>2, <1>3, <1>4, <1>5, <1>6, <1>7, <1>8, <1>9, <1>10, <1>11, <1>12 DEF TasksNext

LEMMA BegunAlone ==
  ASSUME AloneOK, NEW c \in Clients, NEW step, NEW read, Begun(c, step, read)
  PROVE  AloneOK'
<1>1. job'[c].alone = Alone /\ (quiet' => Alone)
  BY DEF Begun
<1>2. \A d \in Clients \ {c} : job'[d].alone = FALSE /\ job'[d].step = job[d].step
  BY DEF Begun
<1>3. CASE Alone
  <2>1. \A d \in Clients \ {c} : job'[d].step = "idle" /\ ~job'[d].alone
    BY <1>2, <1>3 DEF Alone
  <2>2. job'[c].alone
    BY <1>1, <1>3
  <2> QED
    BY <2>1, <2>2 DEF AloneOK
<1>4. CASE ~Alone
  <2>1. ~quiet' /\ \A d \in Clients : ~job'[d].alone
    BY <1>1, <1>2, <1>4
  <2> QED
    BY <2>1 DEF AloneOK
<1> QED
  BY <1>3, <1>4

\* AloneOK is kept.
LEMMA AloneStep ==
  ASSUME TasksInv, [TasksNext]_tasksVars
  PROVE  AloneOK'
<1> USE TasksAssumption DEF TasksInv
<1>0. \A d \in Clients : job[d] \in JobSet
  BY DEF TasksTypeOK, JobSet
<1>1. ASSUME NEW c \in Clients, NEW u \in TaskIds, Create(c, u)
      PROVE  AloneOK'
  <2>1. Begun(c, "open", {}) /\ job'[c].task = u /\ job'[c].status = "PENDING"
    BY <1>1, CreateEffect
  <2> QED
    BY <2>1, BegunAlone DEF TasksInv
<1>2. ASSUME NEW c \in Clients, NEW u \in TaskIds, NEW s \in Ends, EndTask(c, u, s)
      PROVE  AloneOK'
  <2>1. Begun(c, "open", {}) /\ job'[c].task = u /\ job'[c].status = s
    BY <1>2, EndEffect
  <2> QED
    BY <2>1, BegunAlone DEF TasksInv
<1>3. ASSUME NEW c \in Clients, NEW u \in TaskIds, ListRead(c, u)
      PROVE  AloneOK'
  BY <1>3 DEF ListRead, TasksTypeOK, AloneOK
<1>4. ASSUME NEW c \in Clients, NEW u \in TaskIds, ToEvent(c, u)
      PROVE  AloneOK'
  BY <1>4 DEF ToEvent, AloneOK
<1>5. ASSUME NEW c \in Clients, OpenTemp(c)
      PROVE  AloneOK'
  BY <1>5 DEF OpenTemp, GoTo, AloneOK
<1>6. ASSUME NEW c \in Clients, WriteTemp(c)
      PROVE  AloneOK'
  BY <1>6 DEF WriteTemp, GoTo, AloneOK
<1>7. ASSUME NEW c \in Clients, RenameTemp(c)
      PROVE  AloneOK'
  BY <1>7 DEF RenameTemp, Nobody, TasksTypeOK, AloneOK
<1>8. ASSUME NEW c \in Clients, ListTasks(c)
      PROVE  AloneOK'
  <2>1. Begun(c, "list", {}) /\ job'[c].left = {x \in TaskIds : taskFile[x] # Void}
    BY <1>8, ListEffect
  <2> QED
    BY <2>1, BegunAlone DEF TasksInv
<1>9. ASSUME NEW c \in Clients, Sync(c)
      PROVE  AloneOK'
  BY <1>0, <1>9 DEF Sync, Nobody, JobSet, AloneOK
<1>10. ASSUME NEW c \in Clients, Breaks(c)
      PROVE  AloneOK'
  BY <1>0, <1>10 DEF Breaks, Nobody, JobSet, AloneOK
<1>11. ASSUME IndexLost
      PROVE  AloneOK'
  BY <1>0, <1>11 DEF IndexLost, JobSet, AloneOK
<1>12. ASSUME UNCHANGED tasksVars
      PROVE  AloneOK'
  BY <1>12 DEF tasksVars, AloneOK
<1> QED
  BY <1>1, <1>2, <1>3, <1>4, <1>5, <1>6, <1>7, <1>8, <1>9, <1>10, <1>11, <1>12 DEF TasksNext

\* RowsHaveFiles is kept.
LEMMA TaskRowsStep ==
  ASSUME TasksInv, [TasksNext]_tasksVars
  PROVE  RowsHaveFiles'
<1> USE TasksAssumption DEF TasksInv
<1>0. \A d \in Clients : job[d] \in JobSet
  BY DEF TasksTypeOK, JobSet
<1>1. ASSUME NEW c \in Clients, NEW u \in TaskIds, Create(c, u)
      PROVE  RowsHaveFiles'
  <2>1. Begun(c, "open", {}) /\ job'[c].task = u /\ job'[c].status = "PENDING"
    BY <1>1, CreateEffect
  <2> QED
    BY <1>1, <2>1 DEF Begun, Create, RowsHaveFiles
<1>2. ASSUME NEW c \in Clients, NEW u \in TaskIds, NEW s \in Ends, EndTask(c, u, s)
      PROVE  RowsHaveFiles'
  <2>1. Begun(c, "open", {}) /\ job'[c].task = u /\ job'[c].status = s
    BY <1>2, EndEffect
  <2> QED
    BY <1>2, <2>1 DEF Begun, EndTask, RowsHaveFiles
<1>3. ASSUME NEW c \in Clients, NEW u \in TaskIds, ListRead(c, u)
      PROVE  RowsHaveFiles'
  BY <1>3 DEF ListRead, TasksTypeOK, RowsHaveFiles
<1>4. ASSUME NEW c \in Clients, NEW u \in TaskIds, ToEvent(c, u)
      PROVE  RowsHaveFiles'
  BY <1>4 DEF ToEvent, RowsHaveFiles
<1>5. ASSUME NEW c \in Clients, OpenTemp(c)
      PROVE  RowsHaveFiles'
  BY <1>5 DEF OpenTemp, GoTo, RowsHaveFiles
<1>6. ASSUME NEW c \in Clients, WriteTemp(c)
      PROVE  RowsHaveFiles'
  BY <1>6 DEF WriteTemp, Written, GoTo, TasksTypeOK, JobsOK, RowsHaveFiles, Writing
<1>7. ASSUME NEW c \in Clients, RenameTemp(c)
      PROVE  RowsHaveFiles'
  BY <1>7 DEF RenameTemp, Nobody, TasksTypeOK, RowsHaveFiles
<1>8. ASSUME NEW c \in Clients, ListTasks(c)
      PROVE  RowsHaveFiles'
  <2>1. Begun(c, "list", {}) /\ job'[c].left = {x \in TaskIds : taskFile[x] # Void}
    BY <1>8, ListEffect
  <2> QED
    BY <1>8, <2>1 DEF Begun, ListTasks, RowsHaveFiles
<1>9. ASSUME NEW c \in Clients, Sync(c)
      PROVE  RowsHaveFiles'
  BY <1>9 DEF Sync, Upserted, Nobody, TasksTypeOK, JobsOK, RowsHaveFiles
<1>10. ASSUME NEW c \in Clients, Breaks(c)
      PROVE  RowsHaveFiles'
  BY <1>10 DEF Breaks, Nobody, RowsHaveFiles
<1>11. ASSUME IndexLost
      PROVE  RowsHaveFiles'
  BY <1>0, <1>11 DEF IndexLost, JobSet, RowsHaveFiles
<1>12. ASSUME UNCHANGED tasksVars
      PROVE  RowsHaveFiles'
  BY <1>12 DEF tasksVars, RowsHaveFiles
<1> QED
  BY <1>1, <1>2, <1>3, <1>4, <1>5, <1>6, <1>7, <1>8, <1>9, <1>10, <1>11, <1>12 DEF TasksNext

\* ReadGood is kept.
LEMMA ReadStep ==
  ASSUME TasksInv, [TasksNext]_tasksVars
  PROVE  ReadGood'
<1> USE TasksAssumption DEF TasksInv
<1>0. \A d \in Clients : job[d] \in JobSet
  BY DEF TasksTypeOK, JobSet
<1>1. ASSUME NEW c \in Clients, NEW u \in TaskIds, Create(c, u)
      PROVE  ReadGood'
  <2>1. Begun(c, "open", {}) /\ job'[c].task = u /\ job'[c].status = "PENDING"
    BY <1>1, CreateEffect
  <2> QED
    <3>1. \A d \in Clients : ~(job'[d].step = "list" /\ job'[d].alone)
      BY <2>1 DEF Begun
    <3> QED
      BY <3>1 DEF ReadGood
<1>2. ASSUME NEW c \in Clients, NEW u \in TaskIds, NEW s \in Ends, EndTask(c, u, s)
      PROVE  ReadGood'
  <2>1. Begun(c, "open", {}) /\ job'[c].task = u /\ job'[c].status = s
    BY <1>2, EndEffect
  <2> QED
    <3>1. \A d \in Clients : ~(job'[d].step = "list" /\ job'[d].alone)
      BY <2>1 DEF Begun
    <3> QED
      BY <3>1 DEF ReadGood
<1>3. ASSUME NEW c \in Clients, NEW u \in TaskIds, ListRead(c, u)
      PROVE  ReadGood'
  <2>1. UNCHANGED taskFile /\ \A d \in Clients \ {c} : job'[d] = job[d]
    BY <1>3 DEF ListRead, TasksTypeOK
  <2>2. /\ job[c].step = "list" /\ job'[c].alone = job[c].alone /\ job'[c].left = job[c].left \ {u}
        /\ job'[c].read = IF taskFile[u] \in Status THEN job[c].read \cup {<<u, taskFile[u]>>}
                          ELSE job[c].read
    BY <1>0, <1>3 DEF ListRead, TasksTypeOK, JobSet
  <2>3. job[c].alone => Holds(job[c])
    BY <2>2 DEF ReadGood
  <2>4. job[c].alone => Holds(job[c])'
    BY <2>1, <2>2, <2>3 DEF Holds
  <2> QED
    BY <2>1, <2>2, <2>4 DEF ReadGood, Holds
<1>4. ASSUME NEW c \in Clients, NEW u \in TaskIds, ToEvent(c, u)
      PROVE  ReadGood'
  BY <1>4 DEF ToEvent, ReadGood, Holds
<1>5. ASSUME NEW c \in Clients, OpenTemp(c)
      PROVE  ReadGood'
  <2>1. UNCHANGED taskFile /\ \A d \in Clients : job'[d].step = "list" => job'[d] = job[d]
    BY <1>0, <1>5 DEF OpenTemp, GoTo, TasksTypeOK, JobSet
  <2> QED
    BY <2>1 DEF ReadGood, Holds
<1>6. ASSUME NEW c \in Clients, WriteTemp(c)
      PROVE  ReadGood'
  <2>1. \A d \in Clients : ~(job'[d].step = "list" /\ job'[d].alone)
    BY <1>0, <1>6 DEF WriteTemp, GoTo, AloneOK, TasksTypeOK, JobSet
  <2> QED
    BY <2>1 DEF ReadGood
<1>7. ASSUME NEW c \in Clients, RenameTemp(c)
      PROVE  ReadGood'
  <2>1. \A d \in Clients : ~(job'[d].step = "list" /\ job'[d].alone)
    BY <1>0, <1>7 DEF RenameTemp, Nobody, AloneOK, TasksTypeOK, JobSet
  <2> QED
    BY <2>1 DEF ReadGood
<1>8. ASSUME NEW c \in Clients, ListTasks(c)
      PROVE  ReadGood'
  <2>1. Begun(c, "list", {}) /\ job'[c].left = {x \in TaskIds : taskFile[x] # Void}
    BY <1>8, ListEffect
  <2> QED
    <3>1. \A d \in Clients : job'[d].step = "list" /\ job'[d].alone => d = c
      BY <2>1 DEF Begun
    <3>2. Holds(job[c])'
      <4>1. UNCHANGED taskFile /\ job'[c].read = {}
        BY <1>8, <2>1 DEF ListTasks, Begun
      <4> QED
        BY <2>1, <4>1 DEF Holds, Status, Ends
    <3> QED
      BY <3>1, <3>2 DEF ReadGood
<1>9. ASSUME NEW c \in Clients, Sync(c)
      PROVE  ReadGood'
  <2>1. UNCHANGED taskFile /\ \A d \in Clients : job'[d].step = "list" => job'[d] = job[d]
    BY <1>0, <1>9 DEF Sync, Nobody, TasksTypeOK, JobSet
  <2> QED
    BY <2>1 DEF ReadGood, Holds
<1>10. ASSUME NEW c \in Clients, Breaks(c)
      PROVE  ReadGood'
  <2>1. UNCHANGED taskFile /\ \A d \in Clients : job'[d].step = "list" => job'[d] = job[d]
    BY <1>0, <1>10 DEF Breaks, Nobody, TasksTypeOK, JobSet
  <2> QED
    BY <2>1 DEF ReadGood, Holds
<1>11. ASSUME IndexLost
      PROVE  ReadGood'
  <2>1. \A d \in Clients : ~(job'[d].step = "list" /\ job'[d].alone)
    BY <1>0, <1>11 DEF IndexLost, AloneOK, TasksTypeOK, JobSet
  <2> QED
    BY <2>1 DEF ReadGood
<1>12. ASSUME UNCHANGED tasksVars
      PROVE  ReadGood'
  BY <1>12 DEF tasksVars, ReadGood, Holds
<1> QED
  BY <1>1, <1>2, <1>3, <1>4, <1>5, <1>6, <1>7, <1>8, <1>9, <1>10, <1>11, <1>12 DEF TasksNext

\* CopyGood is kept.
LEMMA CopyStep ==
  ASSUME TasksInv, [TasksNext]_tasksVars
  PROVE  CopyGood'
<1> USE TasksAssumption DEF TasksInv
<1>0. \A d \in Clients : job[d] \in JobSet
  BY DEF TasksTypeOK, JobSet
<1>1. ASSUME NEW c \in Clients, NEW u \in TaskIds, Create(c, u)
      PROVE  CopyGood'
  <2>1. Begun(c, "open", {}) /\ job'[c].task = u /\ job'[c].status = "PENDING"
    BY <1>1, CreateEffect
  <2> QED
    BY <1>1, <2>1 DEF Begun, Create, CopyGood
<1>2. ASSUME NEW c \in Clients, NEW u \in TaskIds, NEW s \in Ends, EndTask(c, u, s)
      PROVE  CopyGood'
  <2>1. Begun(c, "open", {}) /\ job'[c].task = u /\ job'[c].status = s
    BY <1>2, EndEffect
  <2> QED
    BY <1>2, <2>1 DEF Begun, EndTask, OpenTask, CopyGood
<1>3. ASSUME NEW c \in Clients, NEW u \in TaskIds, ListRead(c, u)
      PROVE  CopyGood'
  BY <1>0, <1>3 DEF ListRead, TasksTypeOK, CopyGood
<1>4. ASSUME NEW c \in Clients, NEW u \in TaskIds, ToEvent(c, u)
      PROVE  CopyGood'
  BY <1>4 DEF ToEvent, CopyGood
<1>5. ASSUME NEW c \in Clients, OpenTemp(c)
      PROVE  CopyGood'
  BY <1>5 DEF OpenTemp, GoTo, TasksTypeOK, JobsOK, CopyGood, AloneOK, Writing
<1>6. ASSUME NEW c \in Clients, WriteTemp(c)
      PROVE  CopyGood'
  BY <1>6 DEF WriteTemp, Written, GoTo, TasksTypeOK, JobsOK, CopyGood, AloneOK, Writing
<1>7. ASSUME NEW c \in Clients, RenameTemp(c)
      PROVE  CopyGood'
  BY <1>0, <1>7 DEF RenameTemp, TasksTypeOK, JobsOK, CopyGood, AloneOK, Writing
<1>8. ASSUME NEW c \in Clients, ListTasks(c)
      PROVE  CopyGood'
  <2>1. Begun(c, "list", {}) /\ job'[c].left = {x \in TaskIds : taskFile[x] # Void}
    BY <1>8, ListEffect
  <2> QED
    BY <1>8, <2>1 DEF Begun, ListTasks, CopyGood
<1>9. ASSUME NEW c \in Clients, Sync(c)
      PROVE  CopyGood'
  <2> SUFFICES ASSUME quiet'
               PROVE  CopyGood'
    BY DEF CopyGood
  <2>1. /\ UNCHANGED <<taskFile, temp>> /\ job'[c].step = "idle"
        /\ \A d \in Clients \ {c} : job'[d] = job[d]
    BY <1>9 DEF Sync, Nobody, TasksTypeOK
  <2>2. job[c].alone
    BY <1>9 DEF Sync, AloneOK
  <2>3. \A d \in Clients : job'[d].step = "idle"
    BY <2>1, <2>2 DEF AloneOK
  <2>4. table' = Upserted(job[c].read)
    BY <1>9 DEF Sync
  <2>5. ASSUME NEW t \in TaskIds
        PROVE  taskFile[t] \in {table'[t], "torn"}
    <3>1. CASE job[c].step = "list"
      <4>1. job[c].left = {} /\ Holds(job[c])
        BY <1>9, <2>2, <3>1 DEF Sync, ReadGood
      <4>2. CASE taskFile[t] \in Status
        BY <2>4, <4>1, <4>2 DEF Upserted, Holds
      <4>3. CASE taskFile[t] = Void
        BY <2>4, <4>1, <4>3 DEF Upserted, Holds, RowsHaveFiles
      <4> QED
        BY <4>2, <4>3 DEF TasksTypeOK
    <3>2. CASE job[c].step = "sync"
      <4>1. /\ quiet /\ job[c].task \in TaskIds /\ job[c].status \in Status
            /\ taskFile[job[c].task] = job[c].status
            /\ job[c].read = {<<job[c].task, job[c].status>>}
        BY <1>9, <3>2 DEF Sync, CopyGood, JobsOK
      <4>2. CASE t = job[c].task
        BY <2>4, <4>1, <4>2 DEF Upserted
      <4>3. CASE t # job[c].task
        <5>1. taskFile[t] \in {table[t], "torn"}
          BY <2>2, <3>2, <4>1, <4>3 DEF CopyGood, AloneOK
        <5> QED
          BY <2>4, <4>1, <4>3, <5>1 DEF Upserted
      <4> QED
        BY <4>2, <4>3
    <3> QED
      BY <1>9, <3>1, <3>2 DEF Sync
  <2> QED
    BY <2>1, <2>3, <2>5 DEF CopyGood
<1>10. ASSUME NEW c \in Clients, Breaks(c)
      PROVE  CopyGood'
  BY <1>10 DEF Breaks, Nobody, TasksTypeOK, CopyGood
<1>11. ASSUME IndexLost
      PROVE  CopyGood'
  BY <1>11 DEF IndexLost, CopyGood
<1>12. ASSUME UNCHANGED tasksVars
      PROVE  CopyGood'
  BY <1>12 DEF tasksVars, CopyGood
<1> QED
  BY <1>1, <1>2, <1>3, <1>4, <1>5, <1>6, <1>7, <1>8, <1>9, <1>10, <1>11, <1>12 DEF TasksNext

-------------------------------------------------------------------------------
(* Theorem *)

LEMMA TasksInvInitial == TasksInit => TasksInv
  BY TasksAssumption DEF TasksInit, TasksInv, TasksTypeOK, JobsOK, OneWriter, Changing, AloneOK,
     RowsHaveFiles, ReadGood, CopyGood, Nobody, Writing

LEMMA TasksInvStep == TasksInv /\ [TasksNext]_tasksVars => TasksInv'
<1> SUFFICES ASSUME TasksInv, [TasksNext]_tasksVars
             PROVE  TasksInv'
  OBVIOUS
<1>1. TasksTypeOK' /\ JobsOK'
  BY TasksTypeStep DEF TasksInv
<1>2. \A t \in TaskIds : t \notin doubled' => OneWriter(t)'
  BY OneWriterStep
<1> QED
  BY <1>1, <1>2, AloneStep, TaskRowsStep, ReadStep, CopyStep DEF TasksInv

\* TasksStand: a task no two processes changed at once ends once, and a list that ran alone
\* leaves the mirror a copy of the files that can be read (store.ts:97-144, 217-252).
THEOREM TasksStandAlways == TasksSpec => []TasksStand
<1>1. TasksInv => TasksStand
  BY DEF TasksInv, TasksStand, OneWriter, CopyGood
<1> QED
  BY <1>1, TasksInvInitial, TasksInvStep, PTL DEF TasksSpec

-------------------------------------------------------------------------------
(* Broadcasts *)

CastsTypeOK ==
  /\ seeded \in 0 .. MaxSeeded /\ stored \subseteq Signers /\ package \subseteq Signers
  /\ handle \in Given(Seeder) /\ seeders \subseteq Seeder
  /\ casts \in [Casts -> [step : {"idle", "stop", "seed", "post"}, previous : Given(Seeder)]]
  /\ raced \in BOOLEAN /\ unseeded \in BOOLEAN

\* As long as no two broadcasts stopped or seeded at once: the one that does knows the
\* handle, and what runs is the seeder of the handle or nothing.
CastsAlone ==
  ~raced =>
    /\ \A c, d \in Casts : casts[c].step \in Seeding /\ casts[d].step \in Seeding => c = d
    /\ \A c \in Casts : casts[c].step = "stop" => casts[c].previous = handle /\ handle # Nothing
    /\ \A c \in Casts : casts[c].step = "seed" => seeders = {}
    /\ seeders \subseteq {handle}
    /\ (\A c \in Casts : casts[c].step \notin Seeding) /\ handle # Nothing /\ ~unseeded =>
         seeders = {handle} /\ handle.of = package

CastsInv == CastsTypeOK /\ CastsAlone

LEMMA CastsInitial == DiscoveryInit => CastsInv
<1> SUFFICES ASSUME DiscoveryInit PROVE CastsInv
  OBVIOUS
<1>1. CastsTypeOK
  <2>1. casts \in [Casts -> [step : {"idle", "stop", "seed", "post"}, previous : Given(Seeder)]]
    BY DEF DiscoveryInit, Given, NoCast
  <2>2. seeded \in 0 .. MaxSeeded
    BY DiscoveryAssumption DEF DiscoveryInit
  <2> QED
    BY <2>1, <2>2 DEF DiscoveryInit, CastsTypeOK, Given
<1>2. CastsAlone
  BY DEF DiscoveryInit, CastsAlone, Seeding, NoCast
<1> QED
  BY <1>1, <1>2 DEF CastsInv

LEMMA CastsUnchanged == ASSUME CastsInv, UNCHANGED broadcasts PROVE CastsInv'
  BY DEF CastsInv, CastsTypeOK, CastsAlone, broadcasts

LEMMA CastBeginStep ==
  ASSUME CastsInv, NEW c \in Casts, NEW copy \in SUBSET Signers, NEW signer \in SUBSET Signers,
         CastBegin(c, copy, signer)
  PROVE  CastsInv'
<1>1. CastsTypeOK'
  BY DEF CastsInv, CastsTypeOK, CastBegin, Given
<1>2. ASSUME ~raced' PROVE CastsAlone'
  <2>1. \A d \in Casts : casts[d].step \notin Seeding
    BY <1>2 DEF CastBegin
  <2>2. ~raced /\ seeders \subseteq {handle} /\ seeders \subseteq Seeder
    BY <1>2 DEF CastBegin, CastsInv, CastsAlone, CastsTypeOK
  <2>3. /\ casts'[c] = [step |-> IF handle = Nothing THEN "seed" ELSE "stop", previous |-> handle]
        /\ \A d \in Casts : d # c => casts'[d] = casts[d]
        /\ handle' = handle /\ seeders' = seeders
    BY DEF CastBegin, CastsInv, CastsTypeOK
  <2>4. Nothing \notin Seeder
    BY DiscoveryAssumption DEF Seeder
  <2>5. \A d \in Casts : casts'[d].step \in Seeding => d = c
    BY <2>1, <2>3
  <2>6. casts'[c].step \in Seeding
    BY <2>3 DEF Seeding
  <2>7. \A d \in Casts : casts'[d].step = "stop" => casts'[d].previous = handle /\ handle # Nothing
    BY <2>3, <2>5 DEF Seeding
  <2>8. \A d \in Casts : casts'[d].step = "seed" => seeders = {}
    BY <2>2, <2>3, <2>4, <2>5 DEF Seeding
  <2> QED
    BY <2>2, <2>3, <2>5, <2>6, <2>7, <2>8 DEF CastsAlone
<1> QED
  BY <1>1, <1>2 DEF CastsInv, CastsAlone

LEMMA CastStopsStep ==
  ASSUME CastsInv, NEW c \in Casts, CastStops(c)
  PROVE  CastsInv'
<1>1. CastsTypeOK'
  BY DEF CastsInv, CastsTypeOK, CastStops, Given, Without
<1>2. ASSUME ~raced' PROVE CastsAlone'
  <2>1. /\ casts'[c] = [step |-> "seed", previous |-> Nothing]
        /\ \A d \in Casts : d # c => casts'[d] = casts[d]
        /\ handle' = handle /\ seeders' = seeders \ {casts[c].previous}
    BY DEF CastStops, CastsInv, CastsTypeOK, Without
  <2>2. /\ ~raced /\ casts[c].step = "stop" /\ casts[c].previous = handle /\ seeders \subseteq {handle}
        /\ \A d \in Casts : casts[d].step \in Seeding => d = c
    BY <1>2 DEF CastStops, CastsInv, CastsAlone, Seeding
  <2>3. seeders' = {}
    BY <2>1, <2>2
  <2>4. \A d \in Casts : casts'[d].step \in Seeding => d = c
    BY <2>1, <2>2
  <2>5. \A d \in Casts : casts'[d].step # "stop"
    BY <2>1, <2>4 DEF Seeding
  <2>6. casts'[c].step \in Seeding
    BY <2>1 DEF Seeding
  <2> QED
    BY <2>3, <2>4, <2>5, <2>6 DEF CastsAlone
<1> QED
  BY <1>1, <1>2 DEF CastsInv, CastsAlone

LEMMA CastSeedsStep ==
  ASSUME CastsInv, NEW c \in Casts, CastSeeds(c)
  PROVE  CastsInv'
<1>1. CastsTypeOK'
  <2>1. seeded' \in 1 .. MaxSeeded
    BY DiscoveryAssumption DEF CastSeeds, CastsInv, CastsTypeOK
  <2>2. handle' \in Seeder
    BY <2>1 DEF CastSeeds, CastsInv, CastsTypeOK, Seeder
  <2>3. casts' \in [Casts -> [step : {"idle", "stop", "seed", "post"}, previous : Given(Seeder)]]
    BY DEF CastSeeds, CastsInv, CastsTypeOK
  <2>4. seeded' \in 0 .. MaxSeeded
    BY <2>1
  <2>5. seeders' \subseteq Seeder
    BY <2>2 DEF CastSeeds, CastsInv, CastsTypeOK
  <2>6. handle' \in Given(Seeder)
    BY <2>2 DEF Given
  <2> QED
    BY <2>3, <2>4, <2>5, <2>6 DEF CastSeeds, CastsInv, CastsTypeOK
<1>2. ASSUME ~raced' PROVE CastsAlone'
  <2>1. /\ casts'[c].step = "post"
        /\ \A d \in Casts : d # c => casts'[d] = casts[d]
        /\ handle'.of = package /\ package' = package /\ seeders' = seeders \cup {handle'}
    BY DEF CastSeeds, CastsInv, CastsTypeOK
  <2>2. /\ ~raced /\ seeders = {}
        /\ \A d \in Casts : casts[d].step \in Seeding => d = c
    BY <1>2 DEF CastSeeds, CastsInv, CastsAlone, Seeding
  <2>3. \A d \in Casts : casts'[d].step \notin Seeding
    BY <2>1, <2>2 DEF Seeding
  <2>4. seeders' = {handle'}
    BY <2>1, <2>2
  <2> QED
    BY <2>1, <2>3, <2>4 DEF CastsAlone, Seeding
<1> QED
  BY <1>1, <1>2 DEF CastsInv, CastsAlone

\* A broadcast that failed, or was answered, leaves the others as they are.
LEMMA CastEndsStep ==
  ASSUME CastsInv, NEW c \in Casts, CastFails(c) \/ CastPosted(c)
  PROVE  CastsInv'
<1>1. CastsTypeOK'
  <2>1. casts' \in [Casts -> [step : {"idle", "stop", "seed", "post"}, previous : Given(Seeder)]]
    BY DEF CastsInv, CastsTypeOK, CastFails, CastPosted, NoCast, Given
  <2> QED
    BY <2>1, Zenon DEF CastsInv, CastsTypeOK, CastFails, CastPosted
<1>2. ASSUME ~raced' PROVE CastsAlone'
  <2>1. /\ casts'[c].step = "idle"
        /\ \A d \in Casts : d # c => casts'[d] = casts[d]
        /\ handle' = handle /\ package' = package /\ seeders' = seeders /\ ~raced
    BY <1>2 DEF CastFails, CastPosted, CastsInv, CastsTypeOK, NoCast
  <2>2. (\A d \in Casts : casts'[d].step \notin Seeding) /\ ~unseeded' =>
          (\A d \in Casts : casts[d].step \notin Seeding) /\ ~unseeded
    BY <2>1 DEF CastFails, CastPosted, Seeding
  <2>3. \A d \in Casts : casts'[d].step \in Seeding => d # c
    BY <2>1 DEF Seeding
  <2> QED
    BY <2>1, <2>2, <2>3 DEF CastsInv, CastsAlone, Seeding
<1> QED
  BY <1>1, <1>2 DEF CastsInv, CastsAlone

\* A broadcast that could not write its bundle: no seeder starts or stops.
LEMMA CastUnwrittenStep ==
  ASSUME CastsInv, NEW c \in Casts, NEW copy \in SUBSET Signers, NEW signer \in SUBSET Signers,
         CastUnwritten(c, copy, signer)
  PROVE  CastsInv'
<1>1. /\ stored' \subseteq Signers /\ package' \subseteq Signers /\ unseeded' = TRUE
      /\ UNCHANGED <<handle, seeders, casts, seeded, raced>>
  BY DEF CastUnwritten, CastsInv, CastsTypeOK
<1>2. CastsTypeOK'
  BY <1>1 DEF CastsInv, CastsTypeOK
<1>3. CastsAlone'
  BY <1>1 DEF CastsInv, CastsAlone
<1> QED
  BY <1>2, <1>3 DEF CastsInv

LEMMA CloseSeedsStep == ASSUME CastsInv, CloseSeeds PROVE CastsInv'
  BY DEF CastsInv, CastsTypeOK, CastsAlone, CloseSeeds, NoCast, Given, Seeding

LEMMA CastsStep ==
  ASSUME CastsInv, [SearchNext \/ GetNext \/ CastNext]_discoveryVars
  PROVE  CastsInv'
<1>1. CASE CastNext
  <2>1. CASE CloseSeeds
    BY <2>1, CloseSeedsStep
  <2>2. ASSUME NEW c \in Casts, NEW copy \in SUBSET Signers,
               NEW signer \in {{}} \cup {{s} : s \in Signers},
               CastBegin(c, copy, signer) \/ CastUnwritten(c, copy, signer)
        PROVE  CastsInv'
    <3>1. signer \in SUBSET Signers
      OBVIOUS
    <3> QED
      BY <2>2, <3>1, CastBeginStep, CastUnwrittenStep
  <2>3. ASSUME NEW c \in Casts, CastStops(c) \/ CastSeeds(c) \/ CastFails(c) \/ CastPosted(c)
        PROVE  CastsInv'
    BY <2>3, CastStopsStep, CastSeedsStep, CastEndsStep
  <2> QED
    BY <1>1, <2>1, <2>2, <2>3, Zenon DEF CastNext
<1>2. CASE SearchNext \/ GetNext
  <2>1. ASSUME NEW i \in Bases, Place(i) \/ SearchReply(i) PROVE UNCHANGED broadcasts
    <3>1. CASE Place(i)
      BY <3>1, Zenon DEF Place
    <3>2. CASE SearchReply(i)
      BY <3>2, Zenon DEF SearchReply
    <3> QED
      BY <2>1, <3>1, <3>2
  <2>2. ASSUME SearchNext PROVE UNCHANGED broadcasts
    BY <2>1, <2>2, Zenon
       DEF SearchNext, SearchBegin, SearchMerge, SearchDetail, SearchDone, SearchEnds
  <2>3. ASSUME GetNext PROVE UNCHANGED broadcasts
    BY <2>1, <2>3, Zenon DEF GetNext, GetBegin, Locate, GetCard, GetEnds
  <2> QED
    BY <1>2, <2>2, <2>3, CastsUnchanged
<1>3. CASE UNCHANGED discoveryVars
  BY <1>3, CastsUnchanged DEF discoveryVars
<1> QED
  BY <1>1, <1>2, <1>3

LEMMA CastsGood == CastsInv => OneBroadcastSeed
<1> SUFFICES ASSUME CastsInv, ~raced PROVE Cardinality(seeders) <= 1
  BY DEF CastsInv, CastsAlone, OneBroadcastSeed
<1>1. seeders \subseteq {handle}
  BY DEF CastsInv, CastsAlone
<1>2. IsFiniteSet({handle}) /\ Cardinality({handle}) = 1
  BY FS_Singleton
<1> QED
  BY <1>1, <1>2, FS_Subset

-------------------------------------------------------------------------------
(* Searches and items *)

\* Rows of indexers, and of whatever else answered.
RowsTyped(list) == \A n \in DOMAIN list : n \in Nat /\ list[n] \in CatalogRow

OfferFits(row) == row.offer # Nothing => row.offer.catalog = row.catalog

SearchTypeOK ==
  /\ search = [step |-> search.step, matching |-> search.matching, pending |-> search.pending,
               answered |-> search.answered, rows |-> search.rows, hits |-> search.hits,
               titles |-> search.titles, strange |-> search.strange]
  /\ search.step \in {"idle", "ask", "detail", "done", "failed"} /\ search.matching \subseteq Catalogs
  /\ search.pending \subseteq Bases /\ search.answered \subseteq Bases
  /\ DOMAIN search.rows = Bases /\ search.rows = [i \in Bases |-> search.rows[i]]
  /\ \A i \in Bases : RowsTyped(search.rows[i])
  /\ search.hits \subseteq CatalogHit
  /\ search.titles \in [search.hits -> Catalogs \cup {Waiting, ByTags}]
  /\ search.strange \in BOOLEAN

SearchGood ==
  /\ \A i \in Bases : \A n \in DOMAIN search.rows[i] : ~search.strange => OfferFits(search.rows[i][n])
  /\ \A x, y \in search.hits : x.catalog = y.catalog => x = y
  /\ \A x \in search.hits : ~search.strange => OfferFits(x)
  /\ \A x \in search.hits : search.titles[x] \in {Waiting, ByTags, x.catalog}
  /\ search.step = "done" => \A x \in search.hits : search.titles[x] # Waiting

SearchInv == SearchTypeOK /\ SearchGood

ShelfTypeOK ==
  /\ placed \in 0 .. MaxPlaced
  /\ shelf \in [Bases -> [offers : Seq(Offers), known : Seq(Catalogs), tagged : SUBSET Catalogs,
                       cards : SUBSET Catalogs]]

LEMMA LeastIn ==
  ASSUME NEW S \in SUBSET Nat, S # {}
  PROVE  Least(S) \in S
<1>1. \E n \in S : \A m \in S : n <= m
  BY LeastNat, Zenon
<1> QED
  BY <1>1 DEF Least

LEMMA FirstOfferFits ==
  ASSUME ShelfTypeOK, NEW i \in Bases, NEW h
  PROVE  /\ FirstOffer(i, h) \in Given(Offers)
         /\ FirstOffer(i, h) # Nothing => FirstOffer(i, h).catalog = h
<1> DEFINE S == {n \in DOMAIN shelf[i].offers : shelf[i].offers[n].catalog = h}
<1>1. shelf[i].offers \in Seq(Offers)
  BY DEF ShelfTypeOK
<1>2. S \in SUBSET Nat /\ \A n \in S : shelf[i].offers[n] \in Offers
  BY <1>1
<1>3. CASE S = {}
  BY <1>3 DEF FirstOffer, Given
<1>4. CASE S # {}
  <2>1. Least(S) \in S
    BY <1>2, <1>4, LeastIn
  <2>2. FirstOffer(i, h) = shelf[i].offers[Least(S)]
    BY <1>4 DEF FirstOffer
  <2> QED
    BY <1>2, <2>1, <2>2 DEF Given
<1> QED
  BY <1>3, <1>4

LEMMA RowsOfFit ==
  ASSUME ShelfTypeOK, NEW i \in Bases
  PROVE  RowsTyped(RowsOf(i)) /\ \A n \in DOMAIN RowsOf(i) : OfferFits(RowsOf(i)[n])
<1>1. shelf[i].known \in Seq(Catalogs)
  BY DEF ShelfTypeOK
<1> SUFFICES ASSUME NEW n \in DOMAIN RowsOf(i)
             PROVE  n \in Nat /\ RowsOf(i)[n] \in CatalogRow /\ OfferFits(RowsOf(i)[n])
  BY DEF RowsTyped
<1>2. n \in DOMAIN shelf[i].known
  BY DEF RowsOf
<1>3. RowsOf(i)[n] = [catalog |-> shelf[i].known[n], offer |-> FirstOffer(i, shelf[i].known[n])]
  BY DEF RowsOf
<1>4. n \in Nat /\ shelf[i].known[n] \in Catalogs
  BY <1>1, <1>2
<1> QED
  BY <1>3, <1>4, FirstOfferFits DEF CatalogRow, OfferFits

LEMMA StrangeTyped ==
  ASSUME NEW list \in StrangeRows
  PROVE  RowsTyped(list)
  BY DEF StrangeRows, RowsTyped

LEMMA LookupsInitial == DiscoveryInit => ShelfTypeOK /\ SearchInv
<1> SUFFICES ASSUME DiscoveryInit PROVE ShelfTypeOK /\ SearchInv
  OBVIOUS
<1>1. ShelfTypeOK
  BY DiscoveryAssumption DEF DiscoveryInit, ShelfTypeOK, Empty
<1>2. SearchInv
  BY DEF DiscoveryInit, NoSearch, SearchInv, SearchTypeOK, SearchGood, RowsTyped
<1> QED
  BY <1>1, <1>2

LEMMA PlaceStep ==
  ASSUME ShelfTypeOK, NEW i \in Bases, Place(i)
  PROVE  ShelfTypeOK'
<1> DEFINE Shelf == [offers : Seq(Offers), known : Seq(Catalogs), tagged : SUBSET Catalogs,
                     cards : SUBSET Catalogs]
<1>1. shelf[i] \in Shelf
  BY DEF ShelfTypeOK
<1>2. Empty \in Shelf
  BY DEF Empty
<1>3. ASSUME NEW T, NEW s \in Seq(T), NEW x \in T PROVE With(s, x) \in Seq(T)
  BY <1>3 DEF With
<1>4. ASSUME NEW o \in Offers PROVE [shelf[i] EXCEPT !.offers = With(@, o)] \in Shelf
  BY <1>1, <1>3
<1>5. ASSUME NEW h \in Catalogs, NEW b \in BOOLEAN PROVE Tagged(shelf[i], h, b) \in Shelf
  BY <1>1, <1>3 DEF Tagged
<1>6. ASSUME NEW o \in Offers, NEW b \in BOOLEAN
      PROVE  [Tagged(shelf[i], o.catalog, b)
                EXCEPT !.offers = With(@, o), !.cards = @ \cup {o.catalog}] \in Shelf
  <2>1. o.catalog \in Catalogs
    BY DiscoveryAssumption
  <2>2. Tagged(shelf[i], o.catalog, b) \in Shelf
    BY <2>1, <1>5
  <2> QED
    BY <1>3, <2>1, <2>2
<1>7. shelf' \in [Bases -> Shelf]
  <2>1. CASE \E o \in Offers : shelf' = [shelf EXCEPT ![i].offers = With(@, o)]
    BY <2>1, <1>4 DEF ShelfTypeOK
  <2>2. CASE \E h \in Catalogs, b \in BOOLEAN : shelf' = [shelf EXCEPT ![i] = Tagged(@, h, b)]
    BY <2>2, <1>5 DEF ShelfTypeOK
  <2>3. CASE \E o \in Offers, b \in BOOLEAN :
               shelf' = [shelf EXCEPT ![i] = [Tagged(shelf[i], o.catalog, b)
                           EXCEPT !.offers = With(@, o), !.cards = @ \cup {o.catalog}]]
    <3>1. PICK o \in Offers, b \in BOOLEAN :
            shelf' = [shelf EXCEPT ![i] = [Tagged(shelf[i], o.catalog, b)
                        EXCEPT !.offers = With(@, o), !.cards = @ \cup {o.catalog}]]
      BY <2>3, Zenon
    <3> DEFINE new == [Tagged(shelf[i], o.catalog, b)
                         EXCEPT !.offers = With(@, o), !.cards = @ \cup {o.catalog}]
    <3>2. new \in Shelf
      BY <1>6, Zenon
    <3>3. shelf' = [shelf EXCEPT ![i] = new]
      BY <3>1
    <3> HIDE DEF new
    <3> QED
      BY <3>2, <3>3 DEF ShelfTypeOK
  <2>4. CASE shelf' = [shelf EXCEPT ![i] = Empty]
    BY <2>4, <1>2 DEF ShelfTypeOK
  <2> QED
    BY <2>1, <2>2, <2>3, <2>4, Zenon DEF Place
<1>8. placed' \in 0 .. MaxPlaced
  <2>1. placed < MaxPlaced /\ placed' = placed + 1
    BY Zenon DEF Place
  <2> QED
    BY <2>1, DiscoveryAssumption DEF ShelfTypeOK
<1> QED
  BY <1>7, <1>8 DEF ShelfTypeOK

-------------------------------------------------------------------------------
(* catalog_search *)

LEMMA SearchBeginStep ==
  ASSUME NEW matching \in SUBSET Catalogs, SearchBegin(matching)
  PROVE  SearchInv'
<1>1. search' = [step |-> "ask", matching |-> matching, pending |-> Bases, answered |-> {},
                 rows |-> [i \in Bases |-> <<>>], hits |-> {}, titles |-> <<>>, strange |-> FALSE]
  BY DEF SearchBegin, NoSearch
<1> QED
  BY <1>1 DEF SearchInv, SearchTypeOK, SearchGood, RowsTyped

\* An answer adds rows to those of the indexer that gives it.
LEMMA SearchReplyStep ==
  ASSUME ShelfTypeOK, SearchInv, NEW i \in Bases, SearchReply(i)
  PROVE  SearchInv'
<1>1. ASSUME NEW list, NEW strange \in BOOLEAN, RowsTyped(list),
             search.strange => strange, ~strange => \A n \in DOMAIN list : OfferFits(list[n]),
             search' = [search EXCEPT !.pending = @ \ {i}, !.answered = @ \cup {i},
                                      !.rows[i] = list, !.strange = strange]
      PROVE  SearchInv'
  <2>1. /\ search'.step = search.step /\ search'.matching = search.matching
        /\ search'.pending = search.pending \ {i} /\ search'.answered = search.answered \cup {i}
        /\ search'.hits = search.hits /\ search'.titles = search.titles
        /\ search'.strange = strange
        /\ search'.rows = [search.rows EXCEPT ![i] = list]
    BY <1>1 DEF SearchInv, SearchTypeOK
  <2>2. search' = [step |-> search'.step, matching |-> search'.matching, pending |-> search'.pending,
                   answered |-> search'.answered, rows |-> search'.rows, hits |-> search'.hits,
                   titles |-> search'.titles, strange |-> search'.strange]
    BY <1>1 DEF SearchInv, SearchTypeOK
  <2>3. /\ DOMAIN search'.rows = Bases /\ search'.rows = [j \in Bases |-> search'.rows[j]]
        /\ search'.rows[i] = list /\ \A j \in Bases \ {i} : search'.rows[j] = search.rows[j]
    BY <2>1 DEF SearchInv, SearchTypeOK
  <2>4. SearchTypeOK'
    BY <1>1, <2>1, <2>2, <2>3 DEF SearchInv, SearchTypeOK
  <2>5. SearchGood'
    <3>1. ASSUME NEW j \in Bases, NEW n \in DOMAIN search'.rows[j], ~search'.strange
          PROVE  OfferFits(search'.rows[j][n])
      BY <1>1, <2>1, <2>3, <3>1 DEF SearchInv, SearchGood
    <3>2. \A x \in search'.hits : ~search'.strange => OfferFits(x)
      BY <1>1, <2>1 DEF SearchInv, SearchGood
    <3> QED
      BY <2>1, <3>1, <3>2 DEF SearchInv, SearchGood
  <2> QED
    BY <2>4, <2>5 DEF SearchInv
<1>2. CASE search' = [search EXCEPT !.pending = @ \ {i}]
  BY <1>2 DEF SearchInv, SearchTypeOK, SearchGood
<1>3. ASSUME NEW matching \in SUBSET DOMAIN RowsOf(i),
             search' = [search EXCEPT !.pending = @ \ {i}, !.answered = @ \cup {i},
                                      !.rows[i] = [n \in matching |-> RowsOf(i)[n]]]
      PROVE  SearchInv'
  <2> DEFINE list == [n \in matching |-> RowsOf(i)[n]]
  <2>1. RowsTyped(list) /\ \A n \in DOMAIN list : OfferFits(list[n])
    BY RowsOfFit DEF RowsTyped
  <2>2. search' = [search EXCEPT !.pending = @ \ {i}, !.answered = @ \cup {i},
                                 !.rows[i] = list, !.strange = search.strange]
    BY <1>3 DEF SearchInv, SearchTypeOK
  <2>3. search.strange \in BOOLEAN
    BY DEF SearchInv, SearchTypeOK
  <2> HIDE DEF list
  <2> QED
    BY <1>1, <2>1, <2>2, <2>3, Zenon
<1>4. ASSUME NEW list \in StrangeRows,
             search' = [search EXCEPT !.pending = @ \ {i}, !.answered = @ \cup {i},
                                      !.rows[i] = list, !.strange = TRUE]
      PROVE  SearchInv'
  <2>1. RowsTyped(list)
    BY StrangeTyped
  <2> QED
    BY <1>1, <1>4, <2>1, Zenon
<1>5. CASE \E matching \in SUBSET DOMAIN RowsOf(i) :
             search' = [[[search EXCEPT !.pending = @ \ {i}] EXCEPT !.answered = @ \cup {i}]
                          EXCEPT !.rows[i] = [n \in matching |-> RowsOf(i)[n]]]
  <2>1. PICK matching \in SUBSET DOMAIN RowsOf(i) :
             search' = [[[search EXCEPT !.pending = @ \ {i}] EXCEPT !.answered = @ \cup {i}]
                          EXCEPT !.rows[i] = [n \in matching |-> RowsOf(i)[n]]]
    BY <1>5, Zenon
  <2> DEFINE list == [n \in matching |-> RowsOf(i)[n]]
  <2> HIDE DEF list
  <2>2. search' = [search EXCEPT !.pending = @ \ {i}, !.answered = @ \cup {i}, !.rows[i] = list]
    BY <2>1 DEF list, SearchInv, SearchTypeOK
  <2> QED
    BY <1>3, <2>2, Zenon DEF list
<1>6. CASE \E list \in StrangeRows :
             search' = [[[search EXCEPT !.pending = @ \ {i}] EXCEPT !.answered = @ \cup {i}]
                          EXCEPT !.rows[i] = list, !.strange = TRUE]
  <2>1. PICK list \in StrangeRows :
             search' = [[[search EXCEPT !.pending = @ \ {i}] EXCEPT !.answered = @ \cup {i}]
                          EXCEPT !.rows[i] = list, !.strange = TRUE]
    BY <1>6, Zenon
  <2>2. search' = [search EXCEPT !.pending = @ \ {i}, !.answered = @ \cup {i}, !.rows[i] = list,
                                 !.strange = TRUE]
    BY <2>1 DEF SearchInv, SearchTypeOK
  <2> QED
    BY <1>4, <2>2, Zenon
<1>7. {n \in DOMAIN RowsOf(i) : RowsOf(i)[n].catalog \in search.matching} \in SUBSET DOMAIN RowsOf(i)
  OBVIOUS
<1> QED
  BY <1>2, <1>5, <1>6, <1>7, Zenon DEF SearchReply

LEMMA HitsAlone ==
  ASSUME SearchInv
  PROVE  /\ Hits \subseteq CatalogHit
         /\ \A x, y \in Hits : x.catalog = y.catalog => x = y
         /\ ~search.strange => \A x \in Hits : OfferFits(x)
<1>1. \A x \in Found : \E i \in Bases : \E n \in DOMAIN search.rows[i] :
        x = [base |-> i, at |-> n, catalog |-> search.rows[i][n].catalog,
             offer |-> search.rows[i][n].offer]
  BY Zenon DEF Found
<1>2. Found \subseteq CatalogHit
  BY <1>1 DEF SearchInv, SearchTypeOK, RowsTyped, CatalogRow, CatalogHit
<1>3. \A x, y \in Found : x.base = y.base /\ x.at = y.at => x = y
  BY <1>1
<1>4. \A x, y \in CatalogHit : ~Before(x, y) /\ ~Before(y, x) => x.base = y.base /\ x.at = y.at
  BY DiscoveryAssumption DEF CatalogHit, Before, Bases
<1>5. Hits \subseteq Found /\ \A x, y \in Hits : x.catalog = y.catalog => ~Before(x, y) /\ ~Before(y, x)
  BY DEF Hits
<1>6. ~search.strange => \A x \in Found : OfferFits(x)
  BY <1>1 DEF SearchInv, SearchGood, OfferFits
<1> QED
  BY <1>2, <1>3, <1>4, <1>5, <1>6

LEMMA SearchMergeStep ==
  ASSUME SearchInv, NEW limit, SearchMerge(limit)
  PROVE  SearchInv'
<1> DEFINE given == {x \in Hits : Cardinality({y \in Hits : Before(y, x)}) < limit}
<1>1. given \subseteq Hits
  OBVIOUS
<1>2. CASE search' = [NoSearch EXCEPT !.step = "failed"]
  <2>1. search' = [step |-> "failed", matching |-> {}, pending |-> {}, answered |-> {},
                   rows |-> [i \in Bases |-> <<>>], hits |-> {}, titles |-> <<>>, strange |-> FALSE]
    BY <1>2 DEF NoSearch
  <2> QED
    BY <2>1 DEF SearchInv, SearchTypeOK, SearchGood, RowsTyped
<1>3. CASE search' = [NoSearch EXCEPT !.step = "detail", !.hits = given, !.strange = search.strange,
                                      !.titles = [x \in given |-> Waiting]]
  <2> HIDE DEF given
  <2>1. search' = [step |-> "detail", matching |-> {}, pending |-> {}, answered |-> {},
                   rows |-> [i \in Bases |-> <<>>], hits |-> given,
                   titles |-> [x \in given |-> Waiting], strange |-> search.strange]
    BY <1>3 DEF NoSearch
  <2>2. SearchTypeOK'
    BY <1>1, <2>1, HitsAlone DEF SearchInv, SearchTypeOK, RowsTyped
  <2>3. SearchGood'
    BY <1>1, <2>1, HitsAlone DEF SearchGood
  <2> QED
    BY <2>2, <2>3 DEF SearchInv
<1> QED
  BY <1>2, <1>3, Zenon DEF SearchMerge

\* Whoever answers the card, its content is the one the hash covers.
LEMMA SearchDetailStep ==
  ASSUME SearchInv, NEW hit \in search.hits, SearchDetail(hit)
  PROVE  SearchInv'
<1>1. hit.catalog \in Catalogs
  BY DEF SearchInv, SearchTypeOK, CatalogHit
<1>2. PICK title \in {ByTags, hit.catalog} : search' = [search EXCEPT !.titles[hit] = title]
  BY DEF SearchDetail, Covered
<1>3. /\ search'.step = "detail" /\ search'.matching = search.matching
      /\ search'.pending = search.pending /\ search'.answered = search.answered
      /\ search'.hits = search.hits /\ search'.strange = search.strange
      /\ search'.rows = search.rows /\ search'.titles = [search.titles EXCEPT ![hit] = title]
  BY <1>2 DEF SearchDetail, SearchInv, SearchTypeOK
<1>4. search' = [step |-> search'.step, matching |-> search'.matching, pending |-> search'.pending,
                 answered |-> search'.answered, rows |-> search'.rows, hits |-> search'.hits,
                 titles |-> search'.titles, strange |-> search'.strange]
  BY <1>2 DEF SearchInv, SearchTypeOK
<1>5. SearchTypeOK'
  BY <1>1, <1>3, <1>4 DEF SearchInv, SearchTypeOK
<1>6. SearchGood'
  BY <1>3 DEF SearchInv, SearchTypeOK, SearchGood
<1> QED
  BY <1>5, <1>6 DEF SearchInv

LEMMA SearchEndsStep ==
  ASSUME SearchInv, SearchDone \/ SearchEnds
  PROVE  SearchInv'
<1>1. CASE SearchDone
  BY <1>1 DEF SearchDone, SearchInv, SearchTypeOK, SearchGood
<1>2. CASE SearchEnds
  BY <1>2 DEF SearchEnds, NoSearch, SearchInv, SearchTypeOK, SearchGood, RowsTyped
<1> QED
  BY <1>1, <1>2

LEMMA SearchStep ==
  ASSUME ShelfTypeOK, SearchInv, [SearchNext \/ GetNext \/ CastNext]_discoveryVars
  PROVE  ShelfTypeOK' /\ SearchInv'
<1>1. ASSUME UNCHANGED <<shelf, placed>> PROVE ShelfTypeOK'
  BY <1>1 DEF ShelfTypeOK
<1>2. ASSUME UNCHANGED search PROVE SearchInv'
  BY <1>2 DEF SearchInv, SearchTypeOK, SearchGood
<1>3. ASSUME NEW i \in Bases, Place(i) PROVE ShelfTypeOK' /\ SearchInv'
  <2>1. UNCHANGED search
    BY <1>3, Zenon DEF Place
  <2> QED
    BY <1>2, <1>3, <2>1, PlaceStep
<1>4. CASE SearchNext
  <2>1. ASSUME NEW i \in Bases, SearchReply(i) PROVE ShelfTypeOK' /\ SearchInv'
    <3>1. UNCHANGED <<shelf, placed>>
      BY <2>1, Zenon DEF SearchReply
    <3> QED
      BY <1>1, <2>1, <3>1, SearchReplyStep
  <2>2. ASSUME NEW matching \in SUBSET Catalogs, SearchBegin(matching) PROVE ShelfTypeOK' /\ SearchInv'
    <3>1. UNCHANGED <<shelf, placed>>
      BY <2>2, Zenon DEF SearchBegin
    <3> QED
      BY <1>1, <2>2, <3>1, SearchBeginStep
  <2>3. ASSUME NEW limit \in 1 .. RemoteLimit, SearchMerge(limit) PROVE ShelfTypeOK' /\ SearchInv'
    <3>1. UNCHANGED <<shelf, placed>>
      BY <2>3, Zenon DEF SearchMerge
    <3> QED
      BY <1>1, <2>3, <3>1, SearchMergeStep
  <2>4. ASSUME NEW hit \in search.hits, SearchDetail(hit) PROVE ShelfTypeOK' /\ SearchInv'
    <3>1. UNCHANGED <<shelf, placed>>
      BY <2>4, Zenon DEF SearchDetail
    <3> QED
      BY <1>1, <2>4, <3>1, SearchDetailStep
  <2>5. ASSUME SearchDone \/ SearchEnds PROVE ShelfTypeOK' /\ SearchInv'
    <3>1. UNCHANGED <<shelf, placed>>
      BY <2>5, Zenon DEF SearchDone, SearchEnds
    <3> QED
      BY <1>1, <2>5, <3>1, SearchEndsStep
  <2> QED
    BY <1>3, <1>4, <2>1, <2>2, <2>3, <2>4, <2>5, Zenon DEF SearchNext
<1>5. CASE GetNext
  <2>1. ASSUME ~(\E i \in Bases : Place(i)) PROVE UNCHANGED <<shelf, search, placed>>
    BY <1>5, <2>1, Zenon DEF GetNext, GetBegin, Locate, GetCard, GetEnds
  <2> QED
    BY <1>1, <1>2, <1>3, <2>1
<1>6. CASE CastNext
  <2>1. UNCHANGED <<shelf, search, placed>>
    BY <1>6, Zenon
       DEF CastNext, CastBegin, CastUnwritten, CastStops, CastSeeds, CastFails, CastPosted, CloseSeeds, lookups
  <2> QED
    BY <1>1, <1>2, <2>1
<1>7. CASE UNCHANGED discoveryVars
  BY <1>1, <1>2, <1>7 DEF discoveryVars, lookups
<1> QED
  BY <1>4, <1>5, <1>6, <1>7

-------------------------------------------------------------------------------
(* catalog_get_item *)

FetchTypeOK ==
  fetch \in [step : {"idle", "locate", "card", "done", "failed"}, asked : Given(ItemRequest),
             at : Bases, catalog : Given(Catalogs), offer : Given(Offers),
             tried : SUBSET Bases, content : Given(Catalogs), strange : BOOLEAN]

\* The offer found is of the catalog, and is the one asked for or another of its catalog.
FetchFits(f) ==
  /\ f.asked.catalog \in {Nothing, f.catalog}
  /\ ~f.strange /\ f.asked.catalog = Nothing =>
       /\ f.offer \in Offers /\ f.offer.catalog = f.catalog
       /\ OnlyOffer(f.offer) => f.offer = f.asked.offer \/ f.offer.item = f.asked.item

FetchGood ==
  /\ fetch.step = "locate" => fetch.asked \in ItemRequest /\ fetch.asked.catalog = Nothing
  /\ fetch.step \in {"locate", "card"} => fetch.tried # Bases
  /\ fetch.step = "card" => fetch.catalog \in Catalogs
  /\ fetch.step \in {"card", "done"} => FetchFits(fetch)
  /\ fetch.step = "done" => fetch.content = fetch.catalog

FetchInv == FetchTypeOK /\ FetchGood

LEMMA BasesGiven == 1 \in Bases /\ Bases \in SUBSET Nat /\ Bases # {}
  BY DiscoveryAssumption DEF Bases

LEMMA NoFetchTyped == NoFetch \in [step : {"idle", "locate", "card", "done", "failed"},
    asked : Given(ItemRequest), at : Bases, catalog : Given(Catalogs), offer : Given(Offers),
    tried : SUBSET Bases, content : Given(Catalogs), strange : BOOLEAN]
  BY BasesGiven DEF NoFetch, Given

LEMMA FetchInitial == DiscoveryInit => FetchInv
  BY NoFetchTyped DEF DiscoveryInit, NoFetch, FetchInv, FetchTypeOK, FetchGood

LEMMA GetBeginStep ==
  ASSUME FetchInv, NEW r \in ItemRequest, GetBegin(r)
  PROVE  FetchInv'
<1>1. CASE r.catalog = Nothing
  <2>1. fetch' = [NoFetch EXCEPT !.step = "locate", !.asked = r]
    BY <1>1 DEF GetBegin
  <2>2. FetchTypeOK'
    BY <2>1, NoFetchTyped DEF FetchTypeOK, Given
  <2>3. FetchGood'
    BY <1>1, <2>1, BasesGiven DEF FetchGood, NoFetch
  <2> QED
    BY <2>2, <2>3 DEF FetchInv
<1>2. CASE r.catalog # Nothing
  <2>1. fetch' = [NoFetch EXCEPT !.step = "card", !.asked = r, !.catalog = r.catalog, !.offer = r.offer]
    BY <1>2 DEF GetBegin
  <2>2. r.catalog \in Catalogs /\ r.offer \in Given(Offers)
    BY <1>2 DEF ItemRequest, Given
  <2>3. FetchTypeOK'
    BY <2>1, <2>2, NoFetchTyped DEF FetchTypeOK, Given
  <2>4. FetchGood'
    BY <1>2, <2>1, <2>2, BasesGiven DEF FetchGood, FetchFits, NoFetch
  <2> QED
    BY <2>3, <2>4 DEF FetchInv
<1> QED
  BY <1>1, <1>2

\* One answer to the question where the offer is.
LEMMA LocatedFits ==
  ASSUME FetchInv, fetch.step = "locate", NEW list, RowsTyped(list), NEW strange \in BOOLEAN,
         ~strange => \A n \in DOMAIN list : OfferFits(list[n]),
         fetch' = [Located(list) EXCEPT !.strange = strange]
  PROVE  FetchInv'
<1> DEFINE found == {n \in DOMAIN list : Matches(list[n], fetch.asked)}
           row == list[Least(found)]
<1>1. found \in SUBSET Nat
  BY DEF RowsTyped
<1>2. CASE found # {}
  <2>1. Least(found) \in found
    BY <1>1, <1>2, LeastIn
  <2>2. row \in CatalogRow /\ Matches(row, fetch.asked) /\ (~strange => OfferFits(row))
    BY <2>1 DEF RowsTyped
  <2>3. Located(list) = [fetch EXCEPT !.step = "card", !.catalog = row.catalog, !.offer = row.offer]
    BY <1>2, Zenon DEF Located
  <2> HIDE DEF row
  <2>4. fetch' = [fetch EXCEPT !.step = "card", !.catalog = row.catalog, !.offer = row.offer,
                               !.strange = strange]
    BY <2>3 DEF FetchInv, FetchTypeOK
  <2>5. row.catalog \in Catalogs /\ row.offer \in Offers
    BY <2>2 DEF CatalogRow, Given, Matches
  <2>6. row.offer # Nothing
    BY <2>2 DEF Matches
  <2>7. FetchTypeOK'
    BY <2>4, <2>5 DEF FetchInv, FetchTypeOK, Given
  <2>8. fetch.asked.catalog = Nothing /\ fetch.tried # Bases
    BY DEF FetchInv, FetchGood
  <2>9. row.offer = fetch.asked.offer \/ row.offer.item = fetch.asked.item
    BY <2>2 DEF Matches
  <2>10. FetchGood'
    BY <2>2, <2>4, <2>5, <2>6, <2>8, <2>9 DEF FetchInv, FetchTypeOK, FetchGood, FetchFits, OfferFits
  <2> QED
    BY <2>7, <2>10 DEF FetchInv
<1>3. CASE found = {} /\ fetch.at = Sites
  <2>1. Located(list) = [fetch EXCEPT !.step = "failed"]
    BY <1>3, Zenon DEF Located
  <2> QED
    BY <2>1 DEF FetchInv, FetchTypeOK, FetchGood
<1>4. CASE found = {} /\ fetch.at # Sites
  <2>1. Located(list) = [fetch EXCEPT !.at = @ + 1]
    BY <1>4, Zenon DEF Located
  <2>2. fetch.at + 1 \in Bases
    BY <1>4, DiscoveryAssumption DEF Bases, FetchInv, FetchTypeOK
  <2> QED
    BY <2>1, <2>2 DEF FetchInv, FetchTypeOK, FetchGood
<1> QED
  BY <1>2, <1>3, <1>4

LEMMA LocateStep ==
  ASSUME ShelfTypeOK, FetchInv, Locate
  PROVE  FetchInv'
<1>1. fetch.step = "locate" /\ fetch.at \in Bases /\ fetch.strange \in BOOLEAN
  BY DEF Locate, FetchInv, FetchTypeOK
<1>2. ASSUME NEW list \in {<<>>, RowsOf(fetch.at)}, fetch' = Located(list)
      PROVE  FetchInv'
  <2>1. RowsTyped(list) /\ \A n \in DOMAIN list : OfferFits(list[n])
    BY <1>1, RowsOfFit DEF RowsTyped
  <2>2. fetch' = [Located(list) EXCEPT !.strange = fetch.strange]
    <3>1. CASE \E h, o : Located(list) = [fetch EXCEPT !.step = "card", !.catalog = h, !.offer = o]
      <4>1. PICK h, o : Located(list) = [fetch EXCEPT !.step = "card", !.catalog = h, !.offer = o]
        BY <3>1, Zenon
      <4> QED
        BY <1>2, <4>1 DEF FetchInv, FetchTypeOK
    <3>2. CASE Located(list) = [fetch EXCEPT !.step = "failed"]
      BY <1>2, <3>2 DEF FetchInv, FetchTypeOK
    <3>3. CASE Located(list) = [fetch EXCEPT !.at = @ + 1]
      BY <1>2, <3>3 DEF FetchInv, FetchTypeOK
    <3> QED
      BY <3>1, <3>2, <3>3, Zenon DEF Located
  <2> QED
    BY <1>1, <2>1, <2>2, LocatedFits
<1>3. ASSUME NEW list \in StrangeRows, fetch' = [Located(list) EXCEPT !.strange = TRUE]
      PROVE  FetchInv'
  <2>1. RowsTyped(list)
    BY StrangeTyped
  <2> QED
    BY <1>1, <1>3, <2>1, LocatedFits
<1> QED
  BY <1>2, <1>3, Zenon DEF Locate

\* The card of the catalog, with an offer of its own or none.
LEMMA GotFits ==
  ASSUME FetchInv, fetch.step = "card", NEW card \in CatalogCard, Covered(card, fetch.catalog),
         NEW strange \in BOOLEAN, fetch.strange => strange,
         ~strange /\ card.offer # Nothing => card.offer.catalog = fetch.catalog,
         fetch' = [Got(card) EXCEPT !.strange = strange]
  PROVE  FetchInv'
<1> DEFINE offer == IF card.offer # Nothing THEN card.offer ELSE fetch.offer
<1>1. offer \in Given(Offers) /\ card.json = fetch.catalog /\ card.json \in Catalogs
  BY DEF CatalogCard, Covered, FetchInv, FetchTypeOK
<1>2. fetch' = [fetch EXCEPT !.step = "done", !.content = card.json, !.offer = offer, !.strange = strange]
  BY DEF Got, FetchInv, FetchTypeOK
<1>3. FetchFits(fetch)
  BY DEF FetchInv, FetchGood
<1>4. ~strange /\ fetch.asked.catalog = Nothing =>
        /\ offer \in Offers /\ offer.catalog = fetch.catalog
        /\ OnlyOffer(offer) => offer = fetch.asked.offer \/ offer.item = fetch.asked.item
  BY <1>1, <1>3 DEF FetchFits, OnlyOffer, Given
<1> HIDE DEF offer
<1>5. FetchTypeOK'
  BY <1>1, <1>2 DEF FetchInv, FetchTypeOK, Given
<1>6. FetchGood'
  BY <1>1, <1>2, <1>3, <1>4 DEF FetchInv, FetchTypeOK, FetchGood, FetchFits
<1> QED
  BY <1>5, <1>6 DEF FetchInv

LEMMA GetCardStep ==
  ASSUME ShelfTypeOK, FetchInv, GetCard
  PROVE  FetchInv'
<1>1. fetch.step = "card" /\ fetch.strange \in BOOLEAN /\ fetch.catalog \in Catalogs
  BY DEF GetCard, FetchInv, FetchTypeOK, FetchGood
<1>2. NextBase \in Bases
  <2>1. Bases \ fetch.tried \in SUBSET Nat /\ Bases \ fetch.tried # {}
    BY <1>1, BasesGiven DEF FetchInv, FetchTypeOK, FetchGood
  <2>2. Least(Bases \ fetch.tried) \in Bases
    BY <2>1, LeastIn
  <2> QED
    BY <2>2 DEF NextBase, FetchInv, FetchTypeOK
<1>3. ASSUME NEW card \in CardsOf(NextBase, fetch.catalog), Covered(card, fetch.catalog),
             fetch' = Got(card)
      PROVE  FetchInv'
  <2>1. card \in CatalogCard /\ (card.offer # Nothing => card.offer.catalog = fetch.catalog)
    BY <1>1, <1>2, FirstOfferFits DEF CardsOf, CatalogCard
  <2>2. fetch' = [Got(card) EXCEPT !.strange = fetch.strange]
    BY <1>3 DEF Got, FetchInv, FetchTypeOK
  <2> QED
    BY <1>1, <1>3, <2>1, <2>2, GotFits
<1>4. ASSUME NEW card \in CatalogCard, Covered(card, fetch.catalog),
             fetch' = [Got(card) EXCEPT !.strange = TRUE]
      PROVE  FetchInv'
  BY <1>1, <1>4, GotFits
<1>5. ASSUME NEW tried, tried = fetch.tried \cup {NextBase},
             fetch' = [fetch EXCEPT !.tried = tried, !.step = IF tried = Bases THEN "failed" ELSE @]
      PROVE  FetchInv'
  <2>1. tried \subseteq Bases
    BY <1>2, <1>5 DEF FetchInv, FetchTypeOK
  <2>2. FetchTypeOK'
    <3>1. PICK step \in {"card", "failed"} : fetch' = [fetch EXCEPT !.tried = tried, !.step = step]
      BY <1>1, <1>5
    <3> QED
      BY <2>1, <3>1 DEF FetchInv, FetchTypeOK
  <2>3. FetchGood'
    BY <1>1, <1>5 DEF FetchInv, FetchTypeOK, FetchGood, FetchFits
  <2> QED
    BY <2>2, <2>3 DEF FetchInv
<1> QED
  BY <1>3, <1>4, <1>5, Zenon DEF GetCard

LEMMA GetEndsStep == ASSUME GetEnds PROVE FetchInv'
  BY NoFetchTyped DEF GetEnds, NoFetch, FetchInv, FetchTypeOK, FetchGood

LEMMA FetchStep ==
  ASSUME ShelfTypeOK, FetchInv, [SearchNext \/ GetNext \/ CastNext]_discoveryVars
  PROVE  FetchInv'
<1>1. ASSUME UNCHANGED fetch PROVE FetchInv'
  BY <1>1 DEF FetchInv, FetchTypeOK, FetchGood, FetchFits
<1>2. ASSUME NEW i \in Bases, Place(i) \/ SearchReply(i) PROVE UNCHANGED fetch
  <2>1. CASE Place(i)
    BY <2>1, Zenon DEF Place
  <2>2. CASE SearchReply(i)
    BY <2>2, Zenon DEF SearchReply
  <2> QED
    BY <1>2, <2>1, <2>2
<1>3. CASE GetNext
  BY <1>1, <1>2, <1>3, GetBeginStep, LocateStep, GetCardStep, GetEndsStep, Zenon DEF GetNext
<1>4. CASE SearchNext
  <2>1. UNCHANGED fetch
    BY <1>2, <1>4, Zenon
       DEF SearchNext, SearchBegin, SearchMerge, SearchDetail, SearchDone, SearchEnds
  <2> QED
    BY <1>1, <2>1
<1>5. CASE CastNext
  <2>1. UNCHANGED fetch
    BY <1>5, Zenon
       DEF CastNext, CastBegin, CastUnwritten, CastStops, CastSeeds, CastFails, CastPosted, CloseSeeds, lookups
  <2> QED
    BY <1>1, <2>1
<1>6. CASE UNCHANGED discoveryVars
  BY <1>1, <1>6 DEF discoveryVars, lookups
<1> QED
  BY <1>3, <1>4, <1>5, <1>6

LEMMA LookupsGood == SearchInv /\ FetchInv => AnswersFit
<1> SUFFICES ASSUME SearchInv, FetchInv PROVE AnswersFit
  OBVIOUS
<1>1. search.step = "done" =>
        \A hit \in search.hits :
          /\ search.titles[hit] \in {hit.catalog, ByTags}
          /\ \A other \in search.hits : other.catalog = hit.catalog => other = hit
          /\ ~search.strange /\ hit.offer # Nothing => hit.offer.catalog = hit.catalog
  BY DEF SearchInv, SearchGood, OfferFits
<1>2. fetch.step = "done" => FetchFits(fetch) /\ fetch.content = fetch.catalog
  BY DEF FetchInv, FetchGood
<1> QED
  BY <1>1, <1>2, Zenon DEF FetchFits, AnswersFit

-------------------------------------------------------------------------------
(* All of it *)

DiscoveryInv == CastsInv /\ ShelfTypeOK /\ SearchInv /\ FetchInv

LEMMA DiscoveryInitial == DiscoveryInit => DiscoveryInv
  BY CastsInitial, LookupsInitial, FetchInitial DEF DiscoveryInv

LEMMA DiscoveryStep ==
  DiscoveryInv /\ [SearchNext \/ GetNext \/ CastNext]_discoveryVars => DiscoveryInv'
  BY CastsStep, SearchStep, FetchStep DEF DiscoveryInv

LEMMA DiscoveryTyped == DiscoveryInv => DiscoveryTypeOK
  BY DEF DiscoveryInv, CastsInv, CastsTypeOK, ShelfTypeOK, SearchInv, SearchTypeOK, RowsTyped,
         FetchInv, FetchTypeOK, DiscoveryTypeOK

-------------------------------------------------------------------------------
(* Mail *)

Active(s) == sending[s].step # "idle"

\* Uids and mails are numbered by the sends that began; no two sends have one mail.
Numbered ==
  /\ \A u \in Uids : spool[u].eml # NoMail => u <= begun
  /\ \A s \in Senders : Active(s) =>
       /\ sending[s].uid <= begun /\ sending[s].mail \in 1 .. begun /\ sending[s].mail \notin sent
       /\ \A t \in Senders : Active(t) /\ sending[t].mail = sending[s].mail => t = s
  /\ \A m \in sent : m <= begun

\* As long as no two sends took one uid, a send finds its files as it wrote them, ...
SendingAlone(s) ==
  LET u == sending[s].uid  m == sending[s].mail IN
  /\ \A t \in Senders : Active(t) /\ sending[t].uid = u => t = s
  /\ sending[s].step # "renameMeta" => spool[u].eml = NoMail
  /\ sending[s].step = "renameMeta" => spool[u].eml = m
  /\ sending[s].step \in {"meta", "renameEml"} => spool[u].emlTmp = m
  /\ sending[s].step \in {"renameEml", "renameMeta"} => spool[u].metaTmp = m

\* ... an entry is of one mail, and what was sent is there.
Whole ==
  ~collided =>
    /\ \A s \in Senders : Active(s) => SendingAlone(s)
    /\ \A u \in Uids : spool[u].meta # NoMail => spool[u].meta = spool[u].eml
    /\ \A m \in sent : \E u \in Uids : spool[u].eml = m /\ spool[u].meta = m

BoxTypeOK ==
  /\ spool \in [Uids -> Files] /\ begun \in 0 .. MaxMails /\ sent \subseteq Mails
  /\ sending \in [Senders -> [step : {"idle", "eml", "meta", "renameEml", "renameMeta"},
                              mail : Mails \cup {NoMail}, uid : Uids]]
  /\ collided \in BOOLEAN

BoxInv == BoxTypeOK /\ Numbered /\ Whole

LEMMA NextUidFree ==
  ASSUME BoxInv, begun < MaxMails
  PROVE  /\ NextUid \in Uids /\ spool[NextUid].eml = NoMail
         /\ NextUid <= begun + 1
<1> DEFINE Free(u) == \A v \in Uids : v >= u => spool[v].eml = NoMail
           S == {u \in Uids : Free(u)}
<1>1. MaxMails \in Nat /\ begun \in Nat /\ begun + 1 \in Uids /\ Uids \in SUBSET Nat
  BY MailAssumption DEF BoxInv, BoxTypeOK, Uids
<1>2. begun + 1 \in S
  BY <1>1 DEF BoxInv, Numbered
<1>3. PICK u \in S : \A v \in S : u <= v
  <2>1. S \in SUBSET Nat /\ S # {}
    BY <1>1, <1>2
  <2> QED
    BY <2>1, LeastNat
<1>4. u = 1 \/ spool[u - 1].eml # NoMail
  <2> SUFFICES ASSUME u # 1, spool[u - 1].eml = NoMail PROVE FALSE
    OBVIOUS
  <2>1. u - 1 \in Uids /\ u \in Nat
    BY <1>1, <1>3 DEF Uids
  <2>2. \A v \in Uids : v >= u - 1 => v >= u \/ v = u - 1
    BY <1>1, <2>1
  <2>3. u - 1 \in S
    BY <1>3, <2>1, <2>2
  <2> QED
    BY <1>3, <2>1, <2>3
<1>5. \E v \in Uids : Free(v) /\ (v = 1 \/ spool[v - 1].eml # NoMail)
  BY <1>3, <1>4
<1>6. NextUid \in Uids /\ Free(NextUid) /\ (NextUid = 1 \/ spool[NextUid - 1].eml # NoMail)
  BY <1>5, Zenon DEF NextUid
<1>7. NextUid <= begun + 1
  <2>1. CASE NextUid = 1
    BY <1>1, <2>1
  <2>2. CASE NextUid # 1
    <3>1. NextUid - 1 \in Uids /\ spool[NextUid - 1].eml # NoMail
      BY <1>1, <1>6, <2>2 DEF Uids
    <3>2. NextUid - 1 <= begun
      BY <3>1 DEF BoxInv, Numbered
    <3> QED
      BY <1>1, <1>6, <3>2
  <2> QED
    BY <2>1, <2>2
<1> QED
  BY <1>1, <1>6, <1>7

LEMMA BoxInitial == MailInit => BoxInv
<1> SUFFICES ASSUME MailInit PROVE BoxInv
  OBVIOUS
<1>1. BoxTypeOK
  <2>1. 1 \in Uids /\ 0 \in 0 .. MaxMails
    BY MailAssumption DEF Uids
  <2>2. spool \in [Uids -> Files]
    BY DEF MailInit, Files, NoFiles
  <2>3. sending \in [Senders -> [step : {"idle", "eml", "meta", "renameEml", "renameMeta"},
                                mail : Mails \cup {NoMail}, uid : Uids]]
    BY <2>1 DEF MailInit, NotSending
  <2> QED
    BY <2>1, <2>2, <2>3 DEF MailInit, BoxTypeOK
<1>2. Numbered /\ Whole
  BY DEF MailInit, Numbered, Whole, Active, NoFiles, NotSending, NoMail
<1> QED
  BY <1>1, <1>2 DEF BoxInv

LEMMA BoxKept == ASSUME BoxInv, UNCHANGED mailbox PROVE BoxInv'
  BY DEF BoxInv, BoxTypeOK, Numbered, Whole, SendingAlone, Active, mailbox

\* A new send has a mail of its own, and a uid whose files are nobody's.
LEMMA BeginSendStep ==
  ASSUME BoxInv, NEW s \in Senders, BeginSend(s)
  PROVE  BoxInv'
<1> DEFINE u == NextUid
           new == [step |-> "eml", mail |-> begun + 1, uid |-> u]
<1>1. begun < MaxMails /\ sending[s].step = "idle" /\ begun' = begun + 1 /\ UNCHANGED <<spool, sent>>
  BY DEF BeginSend
<1>2. u \in Uids /\ spool[u].eml = NoMail /\ u <= begun + 1
  BY <1>1, NextUidFree
<1> HIDE DEF u
<1>3. begun \in Nat /\ MaxMails \in Nat /\ begun + 1 \in Mails /\ Uids \in SUBSET Nat
  BY <1>1, MailAssumption DEF BoxInv, BoxTypeOK, Mails, Uids
<1>4. sending' = [sending EXCEPT ![s] = new]
  BY DEF BeginSend, u
<1>5. sending'[s] = new /\ \A t \in Senders : t # s => sending'[t] = sending[t]
  BY <1>4 DEF BoxInv, BoxTypeOK
<1>6. BoxTypeOK'
  <2>1. new \in [step : {"idle", "eml", "meta", "renameEml", "renameMeta"},
                 mail : Mails \cup {NoMail}, uid : Uids]
    BY <1>2, <1>3
  <2>2. collided' \in BOOLEAN
    BY DEF BeginSend, BoxInv, BoxTypeOK
  <2> HIDE DEF new
  <2> QED
    BY <1>1, <1>3, <1>4, <2>1, <2>2, MailAssumption DEF BoxInv, BoxTypeOK
<1>7. Numbered'
  <2>1. \A v \in Uids : spool'[v].eml # NoMail => v <= begun'
    BY <1>1, <1>3 DEF BoxInv, Numbered
  <2>2. \A m \in sent' : m <= begun'
    <3>1. \A m \in sent : m \in Nat
      BY DEF BoxInv, BoxTypeOK, Mails
    <3> QED
      BY <1>1, <1>3, <3>1 DEF BoxInv, Numbered
  <2>3. begun + 1 \notin sent /\ \A t \in Senders : Active(t) => sending[t].mail # begun + 1
    BY <1>3 DEF BoxInv, Numbered
  <2>4. \A t \in Senders : Active(t) => sending[t].uid <= begun + 1 /\ sending[t].mail \in 1 .. begun + 1
    <3>1. \A t \in Senders : sending[t].uid \in Nat
      BY <1>3 DEF BoxInv, BoxTypeOK
    <3> QED
      BY <1>3, <3>1 DEF BoxInv, Numbered
  <2>5. \A t \in Senders : (Active(t))' => t = s \/ Active(t)
    BY <1>5 DEF Active
  <2>6. ASSUME NEW t \in Senders, (Active(t))'
        PROVE  /\ sending'[t].uid <= begun' /\ sending'[t].mail \in 1 .. begun'
               /\ sending'[t].mail \notin sent'
               /\ \A r \in Senders : (Active(r))' /\ sending'[r].mail = sending'[t].mail => r = t
    BY <1>1, <1>2, <1>3, <1>5, <2>3, <2>4, <2>5, <2>6 DEF BoxInv, Numbered
  <2> QED
    BY <2>1, <2>2, <2>6 DEF Numbered
<1>8. ASSUME ~collided' PROVE Whole'
  <2>1. ~collided /\ \A t \in Senders : Active(t) => sending[t].uid # u
    BY <1>8 DEF BeginSend, Active, u
  <2>2. \A t \in Senders : t # s => ((Active(t))' <=> Active(t))
    BY <1>5 DEF Active
  <2>3. ASSUME NEW t \in Senders, t # s, Active(t) PROVE SendingAlone(t)'
    <3>1. SendingAlone(t)
      BY <2>1, <2>3 DEF BoxInv, Whole
    <3>2. \A r \in Senders : (Active(r))' /\ sending'[r].uid = sending'[t].uid => r = t
      BY <1>5, <2>1, <2>2, <2>3, <3>1 DEF SendingAlone
    <3> QED
      BY <1>1, <1>5, <2>3, <3>1, <3>2 DEF SendingAlone
  <2>4. SendingAlone(s)'
    BY <1>1, <1>2, <1>5, <2>1, <2>2 DEF SendingAlone
  <2> QED
    BY <1>1, <2>1, <2>2, <2>3, <2>4 DEF BoxInv, Whole
<1> QED
  BY <1>6, <1>7, <1>8 DEF BoxInv, Whole

SendRecord == [step : {"idle", "eml", "meta", "renameEml", "renameMeta"},
               mail : Mails \cup {NoMail}, uid : Uids]

\* A send under way writes files of its own uid, and goes on or ends.
LEMMA SendMoves ==
  ASSUME BoxInv, NEW s \in Senders, Active(s), NEW f \in Files, NEW r \in SendRecord,
         spool' = [spool EXCEPT ![sending[s].uid] = f], sending' = [sending EXCEPT ![s] = r],
         begun' = begun, collided' = collided,
         r.step # "idle" => r.mail = sending[s].mail /\ r.uid = sending[s].uid,
         \/ sent' = sent
         \/ /\ r.step = "idle" /\ sent' = sent \cup {sending[s].mail}
            /\ ~collided => f.eml = sending[s].mail /\ f.meta = sending[s].mail,
         ~collided =>
           /\ f.meta # NoMail => f.meta = f.eml
           /\ r.step \notin {"idle", "renameMeta"} => f.eml = NoMail
           /\ r.step = "renameMeta" => f.eml = r.mail
           /\ r.step \in {"meta", "renameEml"} => f.emlTmp = r.mail
           /\ r.step \in {"renameEml", "renameMeta"} => f.metaTmp = r.mail
  PROVE  BoxInv'
<1> DEFINE u == sending[s].uid
           m == sending[s].mail
<1>1. u \in Uids /\ u <= begun /\ m \in 1 .. begun /\ m \in Mails /\ m \notin sent
  BY MailAssumption DEF BoxInv, BoxTypeOK, Numbered, Mails
<1>2. sending'[s] = r /\ \A t \in Senders : t # s => sending'[t] = sending[t]
  BY DEF BoxInv, BoxTypeOK
<1>3. spool'[u] = f /\ \A v \in Uids : v # u => spool'[v] = spool[v]
  BY <1>1 DEF BoxInv, BoxTypeOK
<1>4. BoxTypeOK'
  BY <1>1 DEF BoxInv, BoxTypeOK, SendRecord
<1>5. \A t \in Senders : (Active(t))' => Active(t) /\ sending'[t].mail = sending[t].mail
                                              /\ sending'[t].uid = sending[t].uid
  BY <1>2 DEF Active
<1>6. Numbered'
  <2>1. \A v \in Uids : spool'[v].eml # NoMail => v <= begun'
    BY <1>1, <1>3 DEF BoxInv, Numbered
  <2>2. \A x \in sent' : x <= begun'
    BY <1>1 DEF BoxInv, Numbered
  <2>3. ASSUME NEW t \in Senders, (Active(t))'
        PROVE  /\ sending'[t].uid <= begun' /\ sending'[t].mail \in 1 .. begun'
               /\ \A x \in Senders : (Active(x))' /\ sending'[x].mail = sending'[t].mail => x = t
    BY <1>5, <2>3 DEF BoxInv, Numbered
  <2>4. ASSUME NEW t \in Senders, (Active(t))' PROVE sending'[t].mail \notin sent'
    <3>1. sending[t].mail \notin sent /\ (sending[t].mail = m => t = s)
      BY <1>5, <2>4 DEF BoxInv, Numbered
    <3> QED
      BY <1>2, <1>5, <2>4, <3>1 DEF Active
  <2> QED
    BY <2>1, <2>2, <2>3, <2>4 DEF Numbered
<1>7. ASSUME ~collided PROVE Whole'
  <2>1. SendingAlone(s) /\ \A t \in Senders : Active(t) /\ t # s => sending[t].uid # u
    BY <1>7 DEF BoxInv, Whole, SendingAlone
  <2>2. ASSUME NEW t \in Senders, (Active(t))' PROVE SendingAlone(t)'
    <3>1. SendingAlone(t) /\ Active(t) /\ sending[t].uid \in Uids
      BY <1>5, <1>7, <2>2 DEF BoxInv, BoxTypeOK, Whole
    <3>2. \A x \in Senders : (Active(x))' /\ sending'[x].uid = sending'[t].uid => x = t
      BY <1>5, <2>2, <3>1 DEF SendingAlone
    <3>3. CASE t = s
      <4>1. sending'[t] = r /\ r.step # "idle" /\ r.uid = u
        BY <1>2, <2>2, <3>3 DEF Active
      <4> QED
        BY <1>3, <1>7, <3>2, <4>1 DEF SendingAlone
    <3>4. CASE t # s
      <4>1. sending'[t] = sending[t] /\ spool'[sending[t].uid] = spool[sending[t].uid]
        BY <1>2, <1>3, <2>1, <3>1, <3>4
      <4> QED
        BY <3>1, <3>2, <4>1 DEF SendingAlone
    <3> QED
      BY <3>3, <3>4
  <2>3. \A v \in Uids : spool'[v].meta # NoMail => spool'[v].meta = spool'[v].eml
    BY <1>3, <1>7 DEF BoxInv, Whole
  <2>4. ASSUME NEW x \in sent PROVE \E v \in Uids : spool'[v].eml = x /\ spool'[v].meta = x
    <3>1. PICK v \in Uids : spool[v].eml = x /\ spool[v].meta = x
      BY <1>7 DEF BoxInv, Whole
    <3>2. x # NoMail /\ x # m
      BY <1>1 DEF BoxInv, BoxTypeOK, Mails, NoMail
    <3>3. v # u
      BY <2>1, <3>1, <3>2 DEF SendingAlone
    <3> QED
      BY <1>3, <3>1, <3>3
  <2>5. ASSUME sent' # sent PROVE spool'[u].eml = m /\ spool'[u].meta = m
    BY <1>3, <1>7, <2>5
  <2>6. \A x \in sent' : \E v \in Uids : spool'[v].eml = x /\ spool'[v].meta = x
    BY <1>1, <2>4, <2>5
  <2> QED
    BY <2>2, <2>3, <2>6 DEF Whole
<1> QED
  BY <1>4, <1>6, <1>7 DEF BoxInv, Whole

LEMMA SendStep ==
  ASSUME BoxInv, NEW s \in Senders,
         BeginSend(s) \/ WriteTmp(s) \/ RenameEml(s) \/ RenameMeta(s) \/ SenderDies(s)
  PROVE  BoxInv'
<1> DEFINE u == sending[s].uid
           m == sending[s].mail
           moved(step) == [sending[s] EXCEPT !.step = step]
<1>1. sending[s] \in SendRecord /\ spool[u] \in Files /\ NotSending \in SendRecord
  BY MailAssumption DEF BoxInv, BoxTypeOK, SendRecord, NotSending, Uids
<1>2. \A step \in {"meta", "renameEml", "renameMeta"} :
        /\ moved(step) \in SendRecord /\ moved(step).step = step
        /\ moved(step).mail = m /\ moved(step).uid = u
  BY <1>1 DEF SendRecord
<1>3. Active(s) /\ ~collided => SendingAlone(s) /\ (spool[u].meta # NoMail => spool[u].meta = spool[u].eml)
                              /\ m # NoMail
  BY <1>1 DEF BoxInv, Whole, SendRecord, Numbered, NoMail
<1>4. CASE BeginSend(s)
  BY <1>4, BeginSendStep
<1>5. CASE WriteTmp(s) /\ sending[s].step = "eml"
  <2> DEFINE f == [spool[u] EXCEPT !.emlTmp = m]
  <2>1. f \in Files /\ f.eml = spool[u].eml /\ f.meta = spool[u].meta /\ f.emlTmp = m
    BY <1>1 DEF Files, SendRecord
  <2>2. spool' = [spool EXCEPT ![u] = f] /\ sending' = [sending EXCEPT ![s] = moved("meta")]
    BY <1>5 DEF WriteTmp, GoOn
  <2>3. Active(s) /\ UNCHANGED <<begun, sent, collided>>
    BY <1>5 DEF WriteTmp, Active
  <2> HIDE DEF f, moved
  <2> QED
    BY <1>2, <1>3, <1>5, <2>1, <2>2, <2>3, SendMoves DEF SendingAlone
<1>6. CASE WriteTmp(s) /\ sending[s].step = "meta"
  <2> DEFINE f == [spool[u] EXCEPT !.metaTmp = m]
  <2>1. /\ f \in Files /\ f.eml = spool[u].eml /\ f.meta = spool[u].meta /\ f.emlTmp = spool[u].emlTmp
        /\ f.metaTmp = m
    BY <1>1 DEF Files, SendRecord
  <2>2. spool' = [spool EXCEPT ![u] = f] /\ sending' = [sending EXCEPT ![s] = moved("renameEml")]
    BY <1>6 DEF WriteTmp, GoOn
  <2>3. Active(s) /\ UNCHANGED <<begun, sent, collided>>
    BY <1>6 DEF WriteTmp, Active
  <2> HIDE DEF f, moved
  <2> QED
    BY <1>2, <1>3, <1>6, <2>1, <2>2, <2>3, SendMoves DEF SendingAlone
<1>7. CASE RenameEml(s) /\ spool[u].emlTmp # NoMail
  <2> DEFINE f == [spool[u] EXCEPT !.eml = spool[u].emlTmp, !.emlTmp = NoMail]
  <2>1. /\ f \in Files /\ f.eml = spool[u].emlTmp /\ f.meta = spool[u].meta
        /\ f.metaTmp = spool[u].metaTmp
    BY <1>1 DEF Files
  <2>2. spool' = [spool EXCEPT ![u] = f] /\ sending' = [sending EXCEPT ![s] = moved("renameMeta")]
    BY <1>1, <1>7 DEF RenameEml, GoOn, BoxInv, BoxTypeOK, Files
  <2>3. Active(s) /\ UNCHANGED <<begun, sent, collided>> /\ sending[s].step = "renameEml"
    BY <1>7 DEF RenameEml, Active
  <2> HIDE DEF f, moved
  <2> QED
    BY <1>2, <1>3, <1>7, <2>1, <2>2, <2>3, SendMoves DEF SendingAlone
<1>8. CASE RenameMeta(s) /\ spool[u].metaTmp # NoMail
  <2> DEFINE f == [spool[u] EXCEPT !.meta = spool[u].metaTmp, !.metaTmp = NoMail]
  <2>1. f \in Files /\ f.eml = spool[u].eml /\ f.meta = spool[u].metaTmp
    BY <1>1 DEF Files
  <2>2. spool' = [spool EXCEPT ![u] = f] /\ sending' = [sending EXCEPT ![s] = NotSending]
    BY <1>1, <1>8 DEF RenameMeta, BoxInv, BoxTypeOK, Files
  <2>3. /\ Active(s) /\ UNCHANGED <<begun, collided>> /\ sent' = sent \cup {m}
        /\ sending[s].step = "renameMeta" /\ NotSending.step = "idle"
    BY <1>8 DEF RenameMeta, Active, NotSending
  <2> HIDE DEF f, moved
  <2> QED
    BY <1>1, <1>3, <1>8, <2>1, <2>2, <2>3, SendMoves DEF SendingAlone
<1>9. CASE \/ RenameEml(s) /\ spool[u].emlTmp = NoMail
           \/ RenameMeta(s) /\ spool[u].metaTmp = NoMail
           \/ SenderDies(s)
  <2>1. sending' = [sending EXCEPT ![s] = NotSending] /\ UNCHANGED <<spool, begun, sent, collided>>
    BY <1>9 DEF RenameEml, RenameMeta, SenderDies
  <2>2. Active(s) /\ NotSending.step = "idle"
    BY <1>9 DEF RenameEml, RenameMeta, SenderDies, Active, NotSending
  <2>3. spool' = [spool EXCEPT ![u] = spool[u]]
    BY <2>1 DEF BoxInv, BoxTypeOK
  <2> QED
    BY <1>1, <1>3, <2>1, <2>2, <2>3, SendMoves
<1>10. WriteTmp(s) => sending[s].step \in {"eml", "meta"}
  BY DEF WriteTmp
<1> QED
  BY <1>4, <1>5, <1>6, <1>7, <1>8, <1>9, <1>10

-------------------------------------------------------------------------------
(* What is seen *)

\* Of entries in the mailbox: they stay, and stay as they are unless uids were mixed.
EntriesStay ==
  \A u \in Uids :
    /\ spool[u].eml # NoMail => spool'[u].eml # NoMail
    /\ ~collided' /\ spool[u].meta # NoMail =>
         spool'[u].eml = spool[u].eml /\ spool'[u].meta = spool[u].meta

LEMMA SendKeepsEntries ==
  ASSUME BoxInv, NEW s \in Senders,
         BeginSend(s) \/ WriteTmp(s) \/ RenameEml(s) \/ RenameMeta(s) \/ SenderDies(s)
  PROVE  EntriesStay
<1> DEFINE u == sending[s].uid
<1>1. u \in Uids /\ spool[u] \in Files /\ \A v \in Uids : spool[v] = [spool EXCEPT ![u] = spool[u]][v]
  BY DEF BoxInv, BoxTypeOK
<1>2. CASE BeginSend(s) \/ SenderDies(s)
  BY <1>2 DEF BeginSend, SenderDies, EntriesStay
<1>3. ASSUME NEW f \in Files, spool' = [spool EXCEPT ![u] = f], spool[u].eml # NoMail => f.eml # NoMail,
             ~collided' /\ spool[u].meta # NoMail => f.eml = spool[u].eml /\ f.meta = spool[u].meta
      PROVE  EntriesStay
  BY <1>1, <1>3 DEF BoxInv, BoxTypeOK, EntriesStay
<1>4. Active(s) /\ ~collided => SendingAlone(s) /\ (spool[u].meta # NoMail => spool[u].meta = spool[u].eml)
  BY <1>1 DEF BoxInv, Whole
<1>5. CASE WriteTmp(s)
  <2>1. PICK f \in {[spool[u] EXCEPT !.emlTmp = sending[s].mail], [spool[u] EXCEPT !.metaTmp = sending[s].mail]} :
          spool' = [spool EXCEPT ![u] = f]
    BY <1>5 DEF WriteTmp
  <2>2. f \in Files /\ f.eml = spool[u].eml /\ f.meta = spool[u].meta
    BY <1>1, <2>1 DEF Files, BoxInv, BoxTypeOK
  <2> QED
    BY <1>3, <2>1, <2>2
<1>6. CASE RenameEml(s)
  <2>1. CASE spool[u].emlTmp = NoMail
    BY <1>6, <2>1 DEF RenameEml, EntriesStay
  <2>2. CASE spool[u].emlTmp # NoMail
    <3> DEFINE f == [spool[u] EXCEPT !.eml = spool[u].emlTmp, !.emlTmp = NoMail]
    <3>1. f \in Files /\ f.eml = spool[u].emlTmp /\ f.meta = spool[u].meta
      BY <1>1 DEF Files
    <3>2. spool' = [spool EXCEPT ![u] = f]
      BY <1>1, <1>6, <2>2 DEF RenameEml, BoxInv, BoxTypeOK, Files
    <3>3. ~collided' => spool[u].meta = NoMail
      BY <1>4, <1>6 DEF RenameEml, Active, SendingAlone
    <3> HIDE DEF f
    <3> QED
      BY <1>3, <2>2, <3>1, <3>2, <3>3
  <2> QED
    BY <2>1, <2>2
<1>7. CASE RenameMeta(s)
  <2>1. CASE spool[u].metaTmp = NoMail
    BY <1>7, <2>1 DEF RenameMeta, EntriesStay
  <2>2. CASE spool[u].metaTmp # NoMail
    <3> DEFINE f == [spool[u] EXCEPT !.meta = spool[u].metaTmp, !.metaTmp = NoMail]
    <3>1. f \in Files /\ f.eml = spool[u].eml /\ f.meta = spool[u].metaTmp
      BY <1>1 DEF Files
    <3>2. spool' = [spool EXCEPT ![u] = f]
      BY <1>1, <1>7, <2>2 DEF RenameMeta, BoxInv, BoxTypeOK, Files
    <3>3. ~collided' /\ spool[u].meta # NoMail => spool[u].metaTmp = spool[u].meta
      BY <1>4, <1>7 DEF RenameMeta, Active, SendingAlone
    <3> HIDE DEF f
    <3> QED
      BY <1>3, <3>1, <3>2, <3>3
  <2> QED
    BY <2>1, <2>2
<1> QED
  BY <1>2, <1>5, <1>6, <1>7

\* What a poll knows of itself.
PollOK(r) ==
  /\ r.step \notin {"idle", "open"} => r.store \in Polls
  /\ r.step = "idle" => r.out = <<>>
  /\ r.step \in {"pick", "land"} => r.mail \in Mails
  /\ r.step = "land" => r.path \in Paths
  /\ \A e \in r.todo : spool[e[1]].eml # NoMail

Accounted(m) ==
  \/ m \in dropped \/ \E x \in shown : x[1] = m
  \/ \E k \in Polls : m \in Ids(poll[k].out)

\* What is seen, on disk, in memory, or about to be saved.
Marked(m) == m \in seenFile \/ \E k \in Polls : m \in seenStore[k].ids \/ m \in poll[k].save

ReadTypeOK ==
  /\ daemon \in BOOLEAN /\ current \in Polls \cup {NoStore}
  /\ seenStore \in [Polls -> [ids : SUBSET Mails, dirty : BOOLEAN]]
  /\ seenFile \subseteq Mails /\ inbox \in [Paths -> Mails \cup {NoMail}]
  /\ shown \subseteq Mails \X Paths /\ dropped \subseteq Mails
  /\ twice \in BOOLEAN /\ beside \in BOOLEAN /\ failures \in 0 .. MailFaults

PollInv ==
  /\ ReadTypeOK /\ poll \in [Polls -> Polling]
  /\ \A k \in Polls : PollOK(poll[k])
  /\ \A m : Marked(m) => Accounted(m)

LEMMA PollMoves ==
  ASSUME PollInv, NEW k \in Polls, NEW r \in Polling, PollOK(r), SetPoll(k, r), UNCHANGED spool,
         ReadTypeOK', shown \subseteq shown', dropped \subseteq dropped',
         \A m \in Ids(poll[k].out) \ Ids(r.out) : m \in dropped' \/ \E x \in shown' : x[1] = m,
         \A m \in seenFile' \cup r.save : Marked(m),
         \A j \in Polls : \A m \in seenStore'[j].ids : Marked(m) \/ m \in Ids(r.out)
  PROVE  PollInv'
<1>1. poll'[k] = r /\ \A j \in Polls : j # k => poll'[j] = poll[j]
  BY DEF PollInv, SetPoll
<1>2. poll' \in [Polls -> Polling]
  BY DEF PollInv, SetPoll
<1>3. \A j \in Polls : PollOK(poll[j])'
  BY <1>1 DEF PollInv, PollOK
<1>4. \A m : Accounted(m) => Accounted(m)'
  <2> SUFFICES ASSUME NEW m, NEW j \in Polls, m \in Ids(poll[j].out) PROVE Accounted(m)'
    BY DEF Accounted
  <2>1. CASE j = k /\ m \notin Ids(r.out)
    BY <2>1 DEF Accounted
  <2>2. CASE j # k \/ m \in Ids(r.out)
    BY <1>1, <2>2 DEF Accounted
  <2> QED
    BY <2>1, <2>2
<1>5. \A m \in Ids(r.out) : Accounted(m)'
  BY <1>1 DEF Accounted
<1>6. \A m : Marked(m)' => Marked(m) \/ m \in Ids(r.out)
  BY <1>1, Zenon DEF Marked
<1> QED
  BY <1>2, <1>3, <1>4, <1>5, <1>6 DEF PollInv

LEMMA PollInitial == MailInit => PollInv
<1> SUFFICES ASSUME MailInit PROVE PollInv
  OBVIOUS
<1>1. ReadTypeOK
  <2>1. 0 \in 0 .. MailFaults
    BY MailAssumption
  <2> QED
    BY <2>1 DEF MailInit, ReadTypeOK, NewStore
<1>2. NotPolling \in Polling /\ PollOK(NotPolling)
  BY DEF NotPolling, Polling, PollOK
<1>3. poll \in [Polls -> Polling] /\ \A k \in Polls : PollOK(poll[k])
  BY <1>2 DEF MailInit
<1>4. \A m : ~Marked(m)
  BY DEF MailInit, Marked, NewStore, NotPolling
<1> QED
  BY <1>1, <1>3, <1>4 DEF PollInv

\* A poll that starts, opens its store or lists the mailbox.
LEMMA PollStartsStep ==
  ASSUME BoxInv, PollInv, NEW k \in Polls, StartPoll(k) \/ OpenStore(k) \/ List(k)
  PROVE  PollInv'
<1>1. poll[k] \in Polling /\ PollOK(poll[k])
  BY DEF PollInv
<1>2. CASE StartPoll(k)
  <2> DEFINE r == IF current = NoStore THEN [NotPolling EXCEPT !.step = "open"]
                  ELSE [NotPolling EXCEPT !.step = "list", !.store = current]
  <2>1. r \in Polling /\ PollOK(r) /\ r.save = {}
    <3>1. CASE current = NoStore
      <4>1. r = [step |-> "open", store |-> NoStore, todo |-> {}, mail |-> NoMail,
                 path |-> 1, out |-> <<>>, save |-> {}]
        BY <3>1 DEF NotPolling
      <4> HIDE DEF r
      <4> QED
        BY <4>1 DEF Polling, PollOK
    <3>2. CASE current # NoStore
      <4>1. current \in Polls /\ r = [step |-> "list", store |-> current, todo |-> {}, mail |-> NoMail,
                                      path |-> 1, out |-> <<>>, save |-> {}]
        BY <3>2 DEF PollInv, ReadTypeOK, NotPolling
      <4> HIDE DEF r
      <4> QED
        BY <4>1 DEF Polling, PollOK
    <3> QED
      BY <3>1, <3>2
  <2>2. poll[k].out = <<>>
    BY <1>1, <1>2 DEF StartPoll, PollOK
  <2>3. SetPoll(k, r) /\ UNCHANGED <<spool, daemon, current, seenStore, landed, answers, failures>>
    BY <1>2 DEF StartPoll, mailbox
  <2>4. ReadTypeOK'
    BY <1>2 DEF StartPoll, PollInv, ReadTypeOK, landed, answers
  <2> HIDE DEF r
  <2> QED
    BY <2>1, <2>2, <2>3, <2>4, PollMoves DEF Ids, landed, answers, Marked
<1>3. CASE OpenStore(k)
  <2> DEFINE r == [poll[k] EXCEPT !.step = "list", !.store = k]
  <2>1. r \in Polling /\ PollOK(r) /\ r.save = poll[k].save /\ r.out = poll[k].out
    BY <1>1 DEF Polling, PollOK
  <2>2. SetPoll(k, r) /\ UNCHANGED <<spool, landed, answers>>
    BY <1>3 DEF OpenStore, mailbox
  <2>3. \A j \in Polls : seenStore'[j].ids = IF j = k THEN seenFile ELSE seenStore[j].ids
    BY <1>3 DEF OpenStore, Opened, PollInv, ReadTypeOK
  <2>4. ReadTypeOK'
    BY <1>3 DEF OpenStore, Opened, PollInv, ReadTypeOK, landed, answers
  <2> HIDE DEF r
  <2> QED
    BY <2>1, <2>2, <2>3, <2>4, PollMoves DEF landed, answers, Marked
<1>4. CASE List(k)
  <2> DEFINE r == [poll[k] EXCEPT !.step = "next", !.todo = {<<u, spool[u].meta>> : u \in Listed}]
  <2>1. {<<u, spool[u].meta>> : u \in Listed} \subseteq Uids \X Mails
    BY DEF Listed, BoxInv, BoxTypeOK, Files
  <2> DEFINE l == {<<u, spool[u].meta>> : u \in Listed}
  <2>2. r \in Polling /\ r.save = poll[k].save /\ r.out = poll[k].out
    <3> HIDE DEF l
    <3>1. l \in SUBSET (Uids \X Mails) /\ r = [poll[k] EXCEPT !.step = "next", !.todo = l]
      BY <2>1 DEF l
    <3> HIDE DEF r
    <3> QED
      BY <1>1, <3>1 DEF Polling
  <2>3. \A e \in {<<u, spool[u].meta>> : u \in Listed} : spool[e[1]].eml # NoMail
    BY DEF Listed
  <2>4. PollOK(r)
    BY <1>1, <1>4, <2>3 DEF Polling, PollOK, List
  <2>5. SetPoll(k, r) /\ UNCHANGED <<spool, daemon, current, seenStore, landed, answers, beside, failures>>
    BY <1>4 DEF List, mailbox
  <2> HIDE DEF r
  <2>6. ReadTypeOK'
    BY <2>5 DEF PollInv, ReadTypeOK, landed, answers
  <2> QED
    BY <2>2, <2>4, <2>5, <2>6, PollMoves DEF landed, answers, Marked
<1> QED
  BY <1>2, <1>3, <1>4

\* The entry with the least uid.
LEMMA FirstEntry ==
  ASSUME NEW todo \in SUBSET (Uids \X Mails), todo # {}
  PROVE  (CHOOSE x \in todo : \A y \in todo : x[1] <= y[1]) \in todo
<1>1. {x[1] : x \in todo} \in SUBSET Nat /\ {x[1] : x \in todo} # {}
  BY DEF Uids
<1>2. PICK n \in {x[1] : x \in todo} : \A m \in {x[1] : x \in todo} : n <= m
  BY <1>1, LeastNat
<1>3. \E x \in todo : \A y \in todo : x[1] <= y[1]
  BY <1>2
<1> QED
  BY <1>3

LEMMA NextEntryStep ==
  ASSUME BoxInv, PollInv, NEW k \in Polls, NextEntry(k)
  PROVE  PollInv'
<1> DEFINE e == CHOOSE x \in poll[k].todo : \A y \in poll[k].todo : x[1] <= y[1]
           rest == [poll[k] EXCEPT !.todo = @ \ {e}]
<1>1. poll[k] \in Polling /\ PollOK(poll[k]) /\ poll[k].step = "next" /\ poll[k].store \in Polls
  BY DEF PollInv, NextEntry, PollOK
<1>2. UNCHANGED <<spool, daemon, current, seenStore, landed, answers, beside, failures>>
  BY DEF NextEntry, mailbox
<1>3. ReadTypeOK'
  BY <1>2 DEF PollInv, ReadTypeOK, landed, answers
<1>4. ASSUME NEW r \in Polling, PollOK(r), SetPoll(k, r), \A m \in r.save : Marked(m), r.out = poll[k].out
      PROVE  PollInv'
  BY <1>2, <1>3, <1>4, PollMoves DEF landed, answers, Marked
<1>5. CASE poll[k].todo = {} /\ seenStore[poll[k].store].dirty
  <2> DEFINE r == [poll[k] EXCEPT !.step = "save", !.save = Seen(k)]
  <2>1. Seen(k) \subseteq Mails /\ \A m \in Seen(k) : Marked(m)
    BY <1>1 DEF Seen, PollInv, ReadTypeOK, Marked
  <2>2. r \in Polling /\ PollOK(r) /\ r.save = Seen(k) /\ r.out = poll[k].out
    BY <1>1, <2>1 DEF Polling, PollOK
  <2>3. SetPoll(k, r)
    BY <1>5 DEF NextEntry
  <2> HIDE DEF r
  <2> QED
    BY <1>4, <2>1, <2>2, <2>3
<1>6. CASE poll[k].todo = {} /\ ~seenStore[poll[k].store].dirty
  <2> DEFINE r == [poll[k] EXCEPT !.step = "answer"]
  <2>1. r \in Polling /\ PollOK(r) /\ (\A m \in r.save : Marked(m)) /\ r.out = poll[k].out
    BY <1>1 DEF Polling, PollOK, Marked
  <2>2. SetPoll(k, r)
    BY <1>6 DEF NextEntry
  <2> HIDE DEF r
  <2> QED
    BY <1>4, <2>1, <2>2
<1>7. CASE poll[k].todo # {}
  <2>1. e \in poll[k].todo /\ poll[k].todo \subseteq Uids \X Mails
    BY <1>1, <1>7, FirstEntry DEF Polling
  <2>2. spool[e[1]].eml \in Mails
    BY <1>1, <2>1 DEF PollOK, BoxInv, BoxTypeOK, Files
  <2> HIDE DEF e
  <2>3. /\ rest \in Polling /\ PollOK(rest) /\ (\A m \in rest.save : Marked(m)) /\ rest.out = poll[k].out
    BY <1>1 DEF Polling, PollOK, Marked
  <2> DEFINE r == [rest EXCEPT !.step = "pick", !.mail = spool[e[1]].eml]
  <2>4. r \in Polling /\ PollOK(r) /\ r.save = rest.save /\ r.out = rest.out
    BY <1>1, <2>2, <2>3 DEF Polling, PollOK
  <2>5. SetPoll(k, rest) \/ SetPoll(k, r)
    BY <1>7 DEF NextEntry, e
  <2> HIDE DEF r, rest
  <2> QED
    BY <1>4, <2>3, <2>4, <2>5
<1> QED
  BY <1>5, <1>6, <1>7

LEMMA FreePathIs ==
  ASSUME \E p \in Paths : inbox[p] = NoMail
  PROVE  FreePath \in Paths /\ inbox[FreePath] = NoMail
<1> DEFINE S == {p \in Paths : inbox[p] = NoMail}
<1>1. S \in SUBSET Nat /\ S # {}
  BY DEF Paths
<1>2. PICK p \in S : \A q \in S : p <= q
  BY <1>1, LeastNat
<1>3. \A q \in Paths : q < p => inbox[q] # NoMail
  BY <1>2 DEF Paths
<1>4. \E r \in Paths : inbox[r] = NoMail /\ \A q \in Paths : q < r => inbox[q] # NoMail
  BY <1>2, <1>3
<1> QED
  BY <1>4, Zenon DEF FreePath

LEMMA IdsAppend ==
  ASSUME NEW T, NEW got \in Seq(T), NEW x
  PROVE  Ids(Append(got, x)) = Ids(got) \cup {x[1]}
<1>1. DOMAIN Append(got, x) = DOMAIN got \cup {Len(got) + 1}
  OBVIOUS
<1>2. /\ \A i \in DOMAIN got : Append(got, x)[i] = got[i]
      /\ Append(got, x)[Len(got) + 1] = x
  OBVIOUS
<1> QED
  BY <1>1, <1>2 DEF Ids

LEMMA LandingStep ==
  ASSUME BoxInv, PollInv, NEW k \in Polls, PickPath(k) \/ Land(k) \/ SkipMail(k)
  PROVE  PollInv'
<1>1. /\ poll[k] \in Polling /\ PollOK(poll[k]) /\ poll[k].step \in {"pick", "land"}
      /\ poll[k].store \in Polls /\ poll[k].mail \in Mails
  BY DEF PollInv, PickPath, Land, SkipMail, PollOK
<1>2. CASE PickPath(k)
  <2> DEFINE r == [poll[k] EXCEPT !.step = "land", !.path = FreePath]
  <2>1. FreePath \in Paths
    BY <1>2, FreePathIs DEF PickPath
  <2>2. r \in Polling /\ PollOK(r) /\ (\A m \in r.save : Marked(m)) /\ r.out = poll[k].out
    BY <1>1, <2>1 DEF Polling, PollOK, Marked
  <2>3. SetPoll(k, r) /\ UNCHANGED <<spool, daemon, current, seenStore, landed, answers, beside, failures>>
    BY <1>2 DEF PickPath, mailbox
  <2> HIDE DEF r
  <2>4. ReadTypeOK'
    BY <2>3 DEF PollInv, ReadTypeOK, landed, answers
  <2> QED
    BY <2>2, <2>3, <2>4, PollMoves DEF landed, answers, Marked
<1>3. CASE Land(k)
  <2> DEFINE x == <<poll[k].mail, poll[k].path>>
             r == [poll[k] EXCEPT !.step = "next", !.mail = NoMail, !.path = 1, !.out = Append(@, x)]
  <2>1. poll[k].path \in Paths
    BY <1>1, <1>3 DEF Land, PollOK
  <2>2. Append(poll[k].out, x) \in Seq(Mails \X Paths)
    BY <1>1, <2>1 DEF Polling
  <2>3. r \in Polling /\ PollOK(r) /\ (\A m \in r.save : Marked(m)) /\ r.out = Append(poll[k].out, x)
    BY <1>1, <2>2 DEF Polling, PollOK, Marked
  <2>4. Ids(r.out) = Ids(poll[k].out) \cup {poll[k].mail}
    BY <1>1, <2>3, IdsAppend DEF Polling
  <2>5. /\ SetPoll(k, r) /\ UNCHANGED <<spool, daemon, current, seenFile, answers, beside, failures>>
        /\ WriteAttachment(k) /\ Add(k, poll[k].mail)
    BY <1>3 DEF Land, mailbox
  <2> HIDE DEF r
  <2>6. /\ seenStore' \in [Polls -> [ids : SUBSET Mails, dirty : BOOLEAN]]
        /\ \A j \in Polls : seenStore'[j].ids \subseteq seenStore[j].ids \cup {poll[k].mail}
    BY <1>1, <2>5 DEF Add, PollInv, ReadTypeOK
  <2>7. ReadTypeOK'
    BY <1>1, <2>5, <2>6 DEF WriteAttachment, PollInv, ReadTypeOK, answers
  <2>8. \A j \in Polls : \A m \in seenStore'[j].ids : Marked(m) \/ m \in Ids(r.out)
    BY <2>4, <2>6 DEF Marked
  <2> QED
    BY <2>3, <2>4, <2>5, <2>7, <2>8, PollMoves DEF answers, Marked
<1>4. CASE SkipMail(k)
  <2> DEFINE r == [poll[k] EXCEPT !.step = "next", !.mail = NoMail, !.path = 1]
  <2>1. r \in Polling /\ PollOK(r) /\ (\A m \in r.save : Marked(m)) /\ r.out = poll[k].out
    BY <1>1 DEF Polling, PollOK, Marked
  <2>2. SetPoll(k, r) /\ UNCHANGED <<spool, daemon, current, seenStore, landed, answers, beside>>
    BY <1>4 DEF SkipMail, Skipped, mailbox
  <2> HIDE DEF r
  <2>3. failures' \in 0 .. MailFaults
    BY <1>4, MailAssumption DEF SkipMail, MailFault, PollInv, ReadTypeOK
  <2>4. ReadTypeOK'
    BY <2>2, <2>3 DEF PollInv, ReadTypeOK, landed, answers
  <2> QED
    BY <2>1, <2>2, <2>4, PollMoves DEF landed, answers, Marked
<1> QED
  BY <1>2, <1>3, <1>4

LEMMA PollEndsStep ==
  ASSUME BoxInv, PollInv, NEW k \in Polls, Save(k) \/ SaveFails(k) \/ Answer(k)
  PROVE  PollInv'
<1>1. poll[k] \in Polling /\ PollOK(poll[k]) /\ \A m \in poll[k].save : Marked(m)
  BY DEF PollInv, Marked
<1>2. NotPolling \in Polling /\ PollOK(NotPolling) /\ NotPolling.save = {} /\ NotPolling.out = <<>>
  BY DEF NotPolling, Polling, PollOK
<1>3. Ids(poll[k].out) \subseteq Mails /\ Ids(<<>>) = {}
  BY <1>1 DEF Polling, Ids
<1>4. CASE Save(k)
  <2> DEFINE r == [poll[k] EXCEPT !.step = "answer", !.save = {}]
  <2>1. r \in Polling /\ PollOK(r) /\ r.save = {} /\ r.out = poll[k].out
    BY <1>1, <1>4 DEF Save, Polling, PollOK
  <2>2. SetPoll(k, r) /\ UNCHANGED <<spool, daemon, current, inbox, answers, beside, failures>>
        /\ seenFile' = poll[k].save
    BY <1>4 DEF Save, mailbox
  <2> HIDE DEF r
  <2>3. /\ seenStore' \in [Polls -> [ids : SUBSET Mails, dirty : BOOLEAN]]
        /\ \A j \in Polls : seenStore'[j].ids = seenStore[j].ids
    BY <1>4 DEF Save, PollInv, ReadTypeOK
  <2>4. ReadTypeOK'
    BY <1>1, <2>2, <2>3 DEF PollInv, ReadTypeOK, Polling, answers
  <2> QED
    BY <1>1, <2>1, <2>2, <2>3, <2>4, PollMoves DEF answers, Marked
<1>5. CASE SaveFails(k)
  <2>1. /\ SetPoll(k, NotPolling) /\ dropped' = dropped \cup Ids(poll[k].out)
        /\ UNCHANGED <<spool, daemon, current, seenStore, landed, shown, twice, beside>>
    BY <1>5 DEF SaveFails, mailbox
  <2>2. failures' \in 0 .. MailFaults
    BY <1>5, MailAssumption DEF SaveFails, MailFault, PollInv, ReadTypeOK
  <2>3. ReadTypeOK'
    BY <1>3, <2>1, <2>2 DEF PollInv, ReadTypeOK, landed
  <2> QED
    BY <1>2, <1>3, <2>1, <2>3, PollMoves DEF landed, Marked
<1>6. CASE Answer(k)
  <2> DEFINE got == poll[k].out
  <2>1. PICK n \in {0, MaxShown} :
          LET heard == {i \in DOMAIN got : i <= n} IN
          /\ shown' = shown \cup {got[i] : i \in heard}
          /\ twice' = (twice \/ \E i \in heard : \E x \in shown : x[1] = got[i][1])
          /\ dropped' = dropped \cup (Ids(got) \ {got[i][1] : i \in heard})
    BY <1>6 DEF Answer
  <2> DEFINE heard == {i \in DOMAIN got : i <= n}
  <2>2. /\ SetPoll(k, NotPolling)
        /\ UNCHANGED <<spool, daemon, current, seenStore, landed, beside, failures>>
    BY <1>6 DEF Answer, mailbox
  <2>3. \A i \in DOMAIN got : got[i] \in Mails \X Paths
    BY <1>1 DEF Polling
  <2>4. ReadTypeOK'
    BY <1>3, <2>1, <2>2, <2>3 DEF PollInv, ReadTypeOK, landed
  <2>5. \A m \in Ids(got) : m \in dropped' \/ \E x \in shown' : x[1] = m
    BY <2>1 DEF Ids
  <2>6. shown \subseteq shown' /\ dropped \subseteq dropped'
    BY <2>1
  <2> QED
    BY <1>2, <1>3, <2>2, <2>4, <2>5, <2>6, PollMoves DEF landed, Marked
<1> QED
  BY <1>4, <1>5, <1>6

LEMMA DaemonEndsStep ==
  ASSUME BoxInv, PollInv, DaemonEnds
  PROVE  PollInv'
<1>1. NotPolling \in Polling /\ PollOK(NotPolling)' /\ NotPolling.save = {} /\ NotPolling.out = <<>>
  BY DEF NotPolling, Polling, PollOK
<1>2. /\ poll' = [k \in Polls |-> NotPolling] /\ seenStore' = [k \in Polls |-> NewStore]
      /\ dropped' = dropped \cup UNION {Ids(poll[k].out) : k \in Polls}
      /\ UNCHANGED <<landed, shown, twice, beside>> /\ daemon' = FALSE /\ current' = NoStore
  BY DEF DaemonEnds
<1>3. \A k \in Polls : Ids(poll[k].out) \subseteq Mails
  BY DEF PollInv, Polling, Ids
<1>4. failures' \in 0 .. MailFaults
  BY MailAssumption DEF DaemonEnds, MailFault, PollInv, ReadTypeOK
<1>5. dropped' \subseteq Mails
  BY <1>2, <1>3 DEF PollInv, ReadTypeOK
<1>6. ReadTypeOK'
  BY <1>2, <1>4, <1>5 DEF PollInv, ReadTypeOK, landed, NewStore
<1>7. \A m : Marked(m)' => m \in seenFile
  BY <1>1, <1>2 DEF Marked, NewStore, landed
<1>8. \A m : Accounted(m) => Accounted(m)'
  BY <1>2 DEF Accounted
<1>9. \A m \in seenFile : Accounted(m)
  BY DEF PollInv, Marked
<1> QED
  BY <1>1, <1>2, <1>6, <1>7, <1>8, <1>9 DEF PollInv
LEMMA SendersLeavePolls ==
  ASSUME BoxInv, PollInv, NEW s \in Senders,
         BeginSend(s) \/ WriteTmp(s) \/ RenameEml(s) \/ RenameMeta(s) \/ SenderDies(s)
  PROVE  PollInv'
<1>1. UNCHANGED <<reading, landed, answers, beside>>
  BY DEF BeginSend, WriteTmp, RenameEml, RenameMeta, SenderDies
<1>2. UNCHANGED <<daemon, current, seenStore, poll, seenFile, inbox, shown, twice, dropped, beside>>
  BY <1>1 DEF reading, landed, answers
<1>3. failures' \in 0 .. MailFaults
  BY MailAssumption DEF BeginSend, WriteTmp, RenameEml, RenameMeta, SenderDies, MailFault, PollInv, ReadTypeOK
<1>4. \A k \in Polls : PollOK(poll[k])'
  <2> SUFFICES ASSUME NEW k \in Polls PROVE PollOK(poll[k])'
    OBVIOUS
  <2>1. poll[k].todo \subseteq Uids \X Mails /\ PollOK(poll[k]) /\ poll'[k] = poll[k]
    BY <1>2 DEF PollInv, Polling
  <2>2. \A e \in poll[k].todo : spool'[e[1]].eml # NoMail
    BY <2>1, SendKeepsEntries DEF EntriesStay, PollOK
  <2> QED
    BY <2>1, <2>2 DEF PollOK
<1>5. \A m : Marked(m)' => Accounted(m)'
  BY <1>2 DEF PollInv, Marked, Accounted
<1> QED
  BY <1>2, <1>3, <1>4, <1>5 DEF PollInv, ReadTypeOK

LEMMA MailStep == BoxInv /\ PollInv /\ [MailNext]_mailVars => BoxInv' /\ PollInv'
<1> SUFFICES ASSUME BoxInv, PollInv, [MailNext]_mailVars PROVE BoxInv' /\ PollInv'
  OBVIOUS
<1>1. ASSUME NEW s \in Senders,
             BeginSend(s) \/ WriteTmp(s) \/ RenameEml(s) \/ RenameMeta(s) \/ SenderDies(s)
      PROVE  BoxInv' /\ PollInv'
  BY <1>1, SendStep, SendersLeavePolls
<1>2. CASE StartDaemon \/ DaemonEnds
  <2>1. UNCHANGED mailbox
    BY <1>2 DEF StartDaemon, DaemonEnds
  <2>2. StartDaemon => PollInv'
    BY DEF StartDaemon, mailbox, landed, answers, PollInv, PollOK, ReadTypeOK, Marked, Accounted
  <2> QED
    BY <1>2, <2>1, <2>2, BoxKept, DaemonEndsStep
<1>3. ASSUME NEW k \in Polls,
             \/ StartPoll(k) \/ OpenStore(k) \/ List(k) \/ NextEntry(k) \/ PickPath(k)
             \/ Land(k) \/ SkipMail(k) \/ Save(k) \/ SaveFails(k) \/ Answer(k)
      PROVE  BoxInv' /\ PollInv'
  <2>1. UNCHANGED mailbox
    BY <1>3 DEF StartPoll, OpenStore, List, NextEntry, PickPath, Land, SkipMail, Save, SaveFails, Answer
  <2> QED
    BY <1>3, <2>1, BoxKept, PollStartsStep, NextEntryStep, LandingStep, PollEndsStep
<1>4. CASE UNCHANGED mailVars
  <2>1. UNCHANGED mailbox /\ UNCHANGED <<reading, landed, answers, beside, failures>>
    BY <1>4 DEF mailVars
  <2>2. UNCHANGED <<spool, daemon, current, seenStore, poll, seenFile, inbox, shown, twice, dropped,
                    beside, failures>>
    BY <2>1 DEF mailbox, reading, landed, answers
  <2>3. PollInv'
    BY <2>2 DEF PollInv, PollOK, ReadTypeOK, Marked, Accounted
  <2> QED
    BY <2>1, <2>3, BoxKept
<1>5. QED
  BY <1>1, <1>2, <1>3, <1>4, Zenon DEF MailNext

LEMMA MailGood == BoxInv /\ PollInv => MailTypeOK /\ SeenWasReceived
<1> SUFFICES ASSUME BoxInv, PollInv PROVE MailTypeOK /\ SeenWasReceived
  OBVIOUS
<1>1. MailTypeOK
  BY DEF BoxInv, BoxTypeOK, PollInv, ReadTypeOK, MailTypeOK
<1>2. \A m \in seenFile \cup UNION {seenStore[k].ids : k \in Polls} : Marked(m)
  BY DEF Marked
<1>3. SeenWasReceived
  BY <1>2, Zenon DEF PollInv, SeenWasReceived, Accounted
<1> QED
  BY <1>1, <1>3

-------------------------------------------------------------------------------
(* What is answered *)

\* What a poll that is alone with the store knows: it reads whole entries; what it
\* holds is seen, in its place, and was never answered.
Once(r) ==
  /\ r.step = "open" => current = NoStore /\ r.out = <<>>
  /\ r.step # "open" => r.store = current
  /\ r.step = "save" => r.save = seenStore[current].ids
  /\ r.step = "answer" => seenStore[current].ids \subseteq seenFile
  /\ r.step \in {"pick", "land"} => r.mail \notin seenStore[current].ids
  /\ r.step = "land" => inbox[r.path] = NoMail
  /\ \A e \in r.todo : spool[e[1]].eml = e[2] /\ spool[e[1]].meta = e[2]
  /\ \A i \in DOMAIN r.out :
       /\ r.out[i][1] \in seenStore[current].ids /\ inbox[r.out[i][2]] = r.out[i][1]
       /\ \A x \in shown : x[1] # r.out[i][1]

\* The store in memory is ahead of its file by no more than it says; what was
\* answered is in the file, so it stays seen.
StoreAhead ==
  current \in Polls =>
    /\ seenFile \subseteq seenStore[current].ids
    /\ ~seenStore[current].dirty => seenStore[current].ids \subseteq seenFile

AnsweredKept == ~twice /\ \A x \in shown : inbox[x[2]] = x[1] /\ x[1] \in seenFile

Clean == ~beside /\ ~collided

OnceInv ==
  Clean =>
    /\ \A j, k \in Polls : poll[j].step # "idle" /\ poll[k].step # "idle" => j = k
    /\ \A k \in Polls : poll[k].step # "idle" => Once(poll[k])
    /\ StoreAhead /\ AnsweredKept

\* The only poll under way goes on, or ends.
LEMMA OnceMoves ==
  ASSUME PollInv, OnceInv, Clean, NEW k \in Polls, NEW r, SetPoll(k, r),
         \A j \in Polls : j # k => poll[j].step = "idle",
         r.step = "idle" \/ Once(r)', StoreAhead', AnsweredKept'
  PROVE  OnceInv'
<1>1. poll'[k] = r /\ \A j \in Polls : j # k => poll'[j] = poll[j]
  BY DEF PollInv, SetPoll
<1>2. \A j \in Polls : poll'[j].step # "idle" => j = k
  BY <1>1
<1>3. poll'[k].step # "idle" => Once(poll[k])'
  <2>1. poll'[k].step # "idle" => Once(r)'
    BY <1>1
  <2> QED
    BY <1>1, <2>1, Zenon DEF Once
<1>4. \A j \in Polls : poll'[j].step # "idle" => Once(poll[j])'
  BY <1>2, <1>3, Zenon
<1> QED
  BY <1>2, <1>4, Zenon DEF OnceInv
\* At the mailbox alone, with its store.
LEMMA AtWork ==
  ASSUME PollInv, OnceInv, Clean, NEW k \in Polls, poll[k].step # "idle"
  PROVE  /\ poll[k] \in Polling /\ PollOK(poll[k]) /\ Once(poll[k])
         /\ \A j \in Polls : j # k => poll[j].step = "idle"
         /\ poll[k].step # "open" => poll[k].store = current /\ current \in Polls
         /\ StoreAhead /\ AnsweredKept
  BY DEF PollInv, PollOK, OnceInv, Once

LEMMA OnceBegins ==
  ASSUME BoxInv, PollInv, OnceInv, NEW k \in Polls, StartPoll(k) \/ OpenStore(k) \/ List(k), Clean'
  PROVE  OnceInv'
<1>1. Clean
  <2>1. collided' = collided
    BY DEF StartPoll, OpenStore, List, mailbox
  <2>2. beside = TRUE => beside' = TRUE
    BY DEF StartPoll, OpenStore, List
  <2>3. beside \in BOOLEAN
    BY DEF PollInv, ReadTypeOK
  <2> QED
    BY <2>1, <2>2, <2>3 DEF Clean
<1>2. CASE StartPoll(k)
  <2>1. /\ \A j \in Polls : poll[j].step = "idle"
        /\ UNCHANGED <<spool, daemon, current, seenStore, seenFile, inbox, shown, twice>>
    BY <1>2 DEF StartPoll, Clean, mailbox, landed, answers
  <2>2. StoreAhead' /\ AnsweredKept'
    BY <1>1, <2>1, Zenon DEF OnceInv, StoreAhead, AnsweredKept
  <2>3. CASE current = NoStore
    <3> PICK r : r = [NotPolling EXCEPT !.step = "open"]
      OBVIOUS
    <3>1. SetPoll(k, r)
      BY <1>2, <2>3 DEF StartPoll
    <3>2. r.step = "open" /\ r.out = <<>> /\ r.todo = {}
      BY DEF NotPolling
    <3>3. Once(r)'
      BY <2>1, <2>3, <3>2 DEF Once
    <3> QED
      BY <1>1, <2>1, <2>2, <3>1, <3>3, OnceMoves
  <2>4. CASE current # NoStore
    <3> PICK r : r = [NotPolling EXCEPT !.step = "list", !.store = current]
      OBVIOUS
    <3>1. SetPoll(k, r)
      BY <1>2, <2>4 DEF StartPoll
    <3>2. r.step = "list" /\ r.out = <<>> /\ r.todo = {} /\ r.store = current
      BY DEF NotPolling
    <3>3. Once(r)'
      BY <2>1, <3>2 DEF Once
    <3> QED
      BY <1>1, <2>1, <2>2, <3>1, <3>3, OnceMoves
  <2> QED
    BY <2>3, <2>4
<1>3. CASE OpenStore(k)
  <2> PICK r : r = [poll[k] EXCEPT !.step = "list", !.store = k]
    OBVIOUS
  <2>1. poll[k].step = "open"
    BY <1>3 DEF OpenStore
  <2>2. /\ poll[k] \in Polling /\ Once(poll[k]) /\ AnsweredKept
        /\ \A j \in Polls : j # k => poll[j].step = "idle"
    BY <1>1, <2>1, AtWork
  <2>3. r.step = "list" /\ r.store = k /\ r.out = <<>> /\ r.todo = poll[k].todo
    BY <2>1, <2>2 DEF Polling, Once
  <2>4. SetPoll(k, r) /\ current' = k /\ UNCHANGED <<spool, seenFile, inbox, shown, twice>>
    BY <1>3 DEF OpenStore, mailbox, landed, answers
  <2>5. seenStore'[k] = Opened
    BY <1>3 DEF OpenStore, PollInv, ReadTypeOK
  <2>6. Once(r)'
    BY <2>2, <2>3, <2>4 DEF Once
  <2>7. StoreAhead' /\ AnsweredKept'
    BY <2>2, <2>4, <2>5 DEF StoreAhead, AnsweredKept, Opened
  <2> QED
    BY <1>1, <2>2, <2>4, <2>6, <2>7, OnceMoves
<1>4. CASE List(k)
  <2> DEFINE l == {<<u, spool[u].meta>> : u \in Listed}
  <2> HIDE DEF l
  <2> PICK r : r = [poll[k] EXCEPT !.step = "next", !.todo = l]
    OBVIOUS
  <2>1. poll[k].step = "list"
    BY <1>4 DEF List
  <2>2. /\ poll[k] \in Polling /\ Once(poll[k]) /\ poll[k].store = current /\ StoreAhead /\ AnsweredKept
        /\ \A j \in Polls : j # k => poll[j].step = "idle"
    BY <1>1, <2>1, AtWork
  <2>3. \A e \in l : spool[e[1]].eml = e[2] /\ spool[e[1]].meta = e[2]
    BY <1>1 DEF l, Listed, BoxInv, Whole, Clean
  <2>4. SetPoll(k, r) /\ UNCHANGED <<spool, current, seenStore, seenFile, inbox, shown, twice>>
    BY <1>4 DEF l, List, mailbox, landed, answers
  <2>5. r.step = "next" /\ r.todo = l /\ r.store = poll[k].store /\ r.out = poll[k].out
    BY <2>2 DEF Polling
  <2>6. Once(r)'
    BY <2>2, <2>3, <2>4, <2>5 DEF Once
  <2>7. StoreAhead' /\ AnsweredKept'
    BY <2>2, <2>4, Zenon DEF StoreAhead, AnsweredKept
  <2> QED
    BY <1>1, <2>2, <2>4, <2>6, <2>7, OnceMoves
<1> QED
  BY <1>2, <1>3, <1>4

LEMMA OnceReads ==
  ASSUME BoxInv, PollInv, OnceInv, NEW k \in Polls, NextEntry(k) \/ PickPath(k), Clean'
  PROVE  OnceInv'
<1>1. Clean /\ poll[k].step \in {"next", "pick"}
  BY DEF Clean, NextEntry, PickPath, mailbox
<1>2. /\ poll[k] \in Polling /\ PollOK(poll[k]) /\ Once(poll[k]) /\ StoreAhead /\ AnsweredKept
      /\ \A j \in Polls : j # k => poll[j].step = "idle"
      /\ poll[k].store = current /\ current \in Polls
  BY <1>1, AtWork
<1>3. UNCHANGED <<spool, current, seenStore, seenFile, inbox, shown, twice>>
  BY DEF NextEntry, PickPath, mailbox, landed, answers
<1>4. StoreAhead' /\ AnsweredKept'
  BY <1>2, <1>3, Zenon DEF StoreAhead, AnsweredKept
<1>5. ASSUME NEW r, SetPoll(k, r), r.step \in {"next", "save", "answer", "pick", "land"},
             r.todo \subseteq poll[k].todo, r.out = poll[k].out, r.store = current,
             r.step = "save" => r.save = seenStore[current].ids,
             r.step = "answer" => seenStore[current].ids \subseteq seenFile,
             r.step \in {"pick", "land"} => r.mail \notin seenStore[current].ids,
             r.step = "land" => inbox[r.path] = NoMail
      PROVE  OnceInv'
  <2>1. Once(r)'
    BY <1>2, <1>3, <1>5 DEF Once
  <2> QED
    BY <1>1, <1>2, <1>4, <1>5, <2>1, OnceMoves
<1>6. CASE NextEntry(k) /\ poll[k].todo = {} /\ seenStore[poll[k].store].dirty
  <2> DEFINE r == [poll[k] EXCEPT !.step = "save", !.save = Seen(k)]
  <2>1. SetPoll(k, r)
    BY <1>6 DEF NextEntry
  <2>2. r.step = "save" /\ r.todo = poll[k].todo /\ r.out = poll[k].out /\ r.store = current
        /\ r.save = seenStore[current].ids
    BY <1>2 DEF Polling, Seen
  <2> HIDE DEF r
  <2> QED
    BY <1>5, <2>1, <2>2
<1>7. CASE NextEntry(k) /\ poll[k].todo = {} /\ ~seenStore[poll[k].store].dirty
  <2> DEFINE r == [poll[k] EXCEPT !.step = "answer"]
  <2>1. SetPoll(k, r)
    BY <1>7 DEF NextEntry
  <2>2. r.step = "answer" /\ r.todo = poll[k].todo /\ r.out = poll[k].out /\ r.store = current
    BY <1>2 DEF Polling
  <2>3. seenStore[current].ids \subseteq seenFile
    BY <1>2, <1>7 DEF StoreAhead
  <2> HIDE DEF r
  <2> QED
    BY <1>5, <2>1, <2>2, <2>3
<1>8. CASE NextEntry(k) /\ poll[k].todo # {}
  <2> DEFINE e == CHOOSE x \in poll[k].todo : \A y \in poll[k].todo : x[1] <= y[1]
             rest == [poll[k] EXCEPT !.todo = @ \ {e}]
             r == [rest EXCEPT !.step = "pick", !.mail = spool[e[1]].eml]
  <2>1. e \in poll[k].todo
    BY <1>2, <1>8, FirstEntry DEF Polling
  <2>2. SetPoll(k, IF e[2] \in Seen(k) THEN rest ELSE r) /\ poll[k].step = "next"
    BY <1>8 DEF NextEntry
  <2> HIDE DEF e
  <2>3. rest.step = poll[k].step /\ rest.todo = poll[k].todo \ {e} /\ rest.out = poll[k].out /\ rest.store = current
    BY <1>2 DEF Polling
  <2>4. r.step = "pick" /\ r.todo = poll[k].todo \ {e} /\ r.out = poll[k].out /\ r.store = current
        /\ r.mail = spool[e[1]].eml
    BY <1>2 DEF Polling
  <2> HIDE DEF r, rest
  <2>5. spool[e[1]].eml = e[2] /\ Seen(k) = seenStore[current].ids
    BY <1>2, <2>1 DEF Once, Seen
  <2>6. CASE e[2] \in Seen(k)
    BY <1>5, <2>2, <2>3, <2>6
  <2>7. CASE e[2] \notin Seen(k)
    BY <1>5, <2>2, <2>4, <2>5, <2>7
  <2> QED
    BY <2>6, <2>7
<1>9. CASE PickPath(k)
  <2> DEFINE r == [poll[k] EXCEPT !.step = "land", !.path = FreePath]
  <2>1. SetPoll(k, r) /\ poll[k].step = "pick" /\ inbox[FreePath] = NoMail
    BY <1>9, FreePathIs DEF PickPath
  <2>2. r.step = "land" /\ r.todo = poll[k].todo /\ r.out = poll[k].out /\ r.store = current
        /\ r.mail = poll[k].mail /\ r.path = FreePath
    BY <1>2 DEF Polling
  <2>3. poll[k].mail \notin seenStore[current].ids
    BY <1>2, <2>1 DEF Once
  <2> HIDE DEF r
  <2> QED
    BY <1>5, <2>1, <2>2, <2>3
<1> QED
  BY <1>6, <1>7, <1>8, <1>9
LEMMA OnceLands ==
  ASSUME BoxInv, PollInv, OnceInv, NEW k \in Polls, Land(k) \/ SkipMail(k), Clean'
  PROVE  OnceInv'
<1>1. Clean /\ poll[k].step \in {"pick", "land"}
  BY DEF Clean, Land, SkipMail, mailbox
<1>2. /\ poll[k] \in Polling /\ PollOK(poll[k]) /\ Once(poll[k]) /\ StoreAhead /\ AnsweredKept
      /\ \A j \in Polls : j # k => poll[j].step = "idle"
      /\ poll[k].store = current /\ current \in Polls
  BY <1>1, AtWork
<1>3. UNCHANGED <<spool, current, seenFile, shown, twice>>
  BY DEF Land, SkipMail, mailbox, landed, answers
<1>4. CASE Land(k)
  <2> DEFINE m == poll[k].mail
             p == poll[k].path
  <2>1. poll[k].step = "land" /\ m \in Mails /\ m \notin seenStore[current].ids /\ p \in Paths /\ inbox[p] = NoMail
    BY <1>2, <1>4 DEF Land, PollOK, Once
  <2>2. m # NoMail
    BY <2>1 DEF Mails, NoMail
  <2>3. inbox' = [inbox EXCEPT ![p] = m] /\ Add(k, m)
    BY <1>4 DEF Land, WriteAttachment
  <2>4. inbox'[p] = m /\ \A q \in Paths : q # p => inbox'[q] = inbox[q]
    BY <2>1, <2>3 DEF PollInv, ReadTypeOK
  <2>5. seenStore'[current].ids = seenStore[current].ids \cup {m} /\ seenStore'[current].dirty = TRUE
    BY <1>2, <2>1, <2>3 DEF Add, Seen, PollInv, ReadTypeOK
  <2>6. \A x \in shown : x[1] \in seenStore[current].ids /\ x[2] \in Paths /\ x[2] # p
    <3>1. \A x \in shown : x \in Mails \X Paths
      BY DEF PollInv, ReadTypeOK
    <3>2. \A x \in shown : x[1] \in Mails /\ x[1] # NoMail
      BY <3>1 DEF Mails, NoMail
    <3> QED
      BY <1>2, <2>1, <3>1, <3>2 DEF AnsweredKept, StoreAhead
  <2>7. StoreAhead' /\ AnsweredKept'
    <3>1. StoreAhead'
      BY <1>2, <1>3, <2>5 DEF StoreAhead
    <3>2. AnsweredKept'
      BY <1>2, <1>3, <2>4, <2>6 DEF AnsweredKept
    <3> QED
      BY <3>1, <3>2
  <2> PICK r : r = [poll[k] EXCEPT !.step = "next", !.mail = NoMail, !.path = 1, !.out = Append(@, <<m, p>>)]
    OBVIOUS
  <2>8. SetPoll(k, r)
    BY <1>4 DEF Land
  <2>9. r.step = "next" /\ r.store = current /\ r.todo = poll[k].todo /\ r.out = Append(poll[k].out, <<m, p>>)
    BY <1>2 DEF Polling
  <2>10. ASSUME NEW i \in DOMAIN r.out
         PROVE  /\ r.out[i][1] \in seenStore'[current].ids /\ inbox'[r.out[i][2]] = r.out[i][1]
                /\ \A x \in shown : x[1] # r.out[i][1]
    <3>1. poll[k].out \in Seq(Mails \X Paths)
      BY <1>2 DEF Polling
    <3>2. CASE i \in DOMAIN poll[k].out
      <4>1. r.out[i] = poll[k].out[i] /\ poll[k].out[i] \in Mails \X Paths
        BY <2>9, <3>1, <3>2
      <4>2. /\ r.out[i][1] \in seenStore[current].ids /\ inbox[r.out[i][2]] = r.out[i][1]
            /\ \A x \in shown : x[1] # r.out[i][1]
        BY <1>2, <3>2, <4>1 DEF Once
      <4>3. r.out[i][2] # p /\ r.out[i][2] \in Paths
        BY <2>1, <4>1, <4>2 DEF Mails, NoMail
      <4> QED
        BY <2>4, <2>5, <4>2, <4>3
    <3>3. CASE i \notin DOMAIN poll[k].out
      <4>1. r.out[i] = <<m, p>>
        BY <2>9, <2>10, <3>1, <3>3
      <4> QED
        BY <2>1, <2>4, <2>5, <2>6, <4>1
    <3> QED
      BY <3>2, <3>3
  <2>11. \A e \in r.todo : spool[e[1]].eml = e[2] /\ spool[e[1]].meta = e[2]
    BY <1>2, <2>9 DEF Once
  <2>12. Once(r)'
    BY <1>3, <2>9, <2>10, <2>11 DEF Once
  <2> QED
    BY <1>1, <1>2, <2>7, <2>8, <2>12, OnceMoves
<1>5. CASE SkipMail(k)
  <2> PICK r : r = [poll[k] EXCEPT !.step = "next", !.mail = NoMail, !.path = 1]
    OBVIOUS
  <2>1. SetPoll(k, r) /\ UNCHANGED <<seenStore, inbox>>
    BY <1>5 DEF SkipMail, Skipped, landed
  <2>2. r.step = "next" /\ r.store = current /\ r.todo = poll[k].todo /\ r.out = poll[k].out
    BY <1>2 DEF Polling
  <2>3. Once(r)'
    BY <1>2, <1>3, <2>1, <2>2 DEF Once
  <2>4. StoreAhead' /\ AnsweredKept'
    BY <1>2, <1>3, <2>1, Zenon DEF StoreAhead, AnsweredKept
  <2> QED
    BY <1>1, <1>2, <2>1, <2>3, <2>4, OnceMoves
<1> QED
  BY <1>4, <1>5

LEMMA OnceEnds ==
  ASSUME BoxInv, PollInv, OnceInv, NEW k \in Polls, Save(k) \/ SaveFails(k) \/ Answer(k), Clean'
  PROVE  OnceInv'
<1>1. Clean /\ poll[k].step \in {"save", "answer"}
  BY DEF Clean, Save, SaveFails, Answer, mailbox
<1>2. /\ poll[k] \in Polling /\ PollOK(poll[k]) /\ Once(poll[k]) /\ StoreAhead /\ AnsweredKept
      /\ \A j \in Polls : j # k => poll[j].step = "idle"
      /\ poll[k].store = current /\ current \in Polls
  BY <1>1, AtWork
<1>3. UNCHANGED <<spool, current, inbox>>
  BY DEF Save, SaveFails, Answer, mailbox, landed
<1>4. NotPolling.step = "idle"
  BY DEF NotPolling
<1>5. CASE Save(k)
  <2> PICK r : r = [poll[k] EXCEPT !.step = "answer", !.save = {}]
    OBVIOUS
  <2>1. /\ SetPoll(k, r) /\ UNCHANGED <<shown, twice>> /\ seenFile' = poll[k].save
        /\ seenStore' = [seenStore EXCEPT ![poll[k].store].dirty = FALSE] /\ poll[k].step = "save"
    BY <1>5 DEF Save, answers
  <2>2. r.step = "answer" /\ r.store = current /\ r.todo = poll[k].todo /\ r.out = poll[k].out
    BY <1>2 DEF Polling
  <2>3. seenStore'[current].ids = seenStore[current].ids /\ seenFile' = seenStore[current].ids
    BY <1>2, <2>1 DEF Once, PollInv, ReadTypeOK
  <2>4. Once(r)'
    BY <1>2, <1>3, <2>1, <2>2, <2>3 DEF Once
  <2>5. StoreAhead' /\ AnsweredKept'
    BY <1>2, <1>3, <2>1, <2>3 DEF StoreAhead, AnsweredKept
  <2> QED
    BY <1>1, <1>2, <2>1, <2>4, <2>5, OnceMoves
<1>6. CASE SaveFails(k)
  <2>1. SetPoll(k, NotPolling) /\ UNCHANGED <<seenStore, seenFile, shown, twice>>
    BY <1>6 DEF SaveFails, landed
  <2>2. StoreAhead' /\ AnsweredKept'
    BY <1>2, <1>3, <2>1, Zenon DEF StoreAhead, AnsweredKept
  <2> QED
    BY <1>1, <1>2, <1>4, <2>1, <2>2, OnceMoves
<1>7. CASE Answer(k)
  <2> DEFINE got == poll[k].out
  <2>1. PICK n \in {0, MaxShown} :
          LET heard == {i \in DOMAIN got : i <= n} IN
          /\ shown' = shown \cup {got[i] : i \in heard}
          /\ twice' = (twice \/ \E i \in heard : \E x \in shown : x[1] = got[i][1])
    BY <1>7 DEF Answer
  <2>2. SetPoll(k, NotPolling) /\ UNCHANGED <<seenStore, seenFile>> /\ poll[k].step = "answer"
    BY <1>7 DEF Answer, landed
  <2>3. \A i \in DOMAIN got : /\ got[i][1] \in seenFile /\ inbox[got[i][2]] = got[i][1]
                              /\ \A x \in shown : x[1] # got[i][1]
    BY <1>2, <2>2 DEF Once
  <2>4. StoreAhead'
    BY <1>2, <1>3, <2>2, Zenon DEF StoreAhead
  <2>5. AnsweredKept'
    BY <1>2, <1>3, <2>1, <2>2, <2>3 DEF AnsweredKept
  <2> QED
    BY <1>1, <1>2, <1>4, <2>2, <2>4, <2>5, OnceMoves
<1> QED
  BY <1>5, <1>6, <1>7

\* Senders write beside what is there, and a daemon that ends leaves the file.
LEMMA OnceKept ==
  ASSUME BoxInv, PollInv, OnceInv, Clean',
         \/ StartDaemon \/ DaemonEnds \/ UNCHANGED mailVars
         \/ \E s \in Senders : BeginSend(s) \/ WriteTmp(s) \/ RenameEml(s) \/ RenameMeta(s) \/ SenderDies(s)
  PROVE  OnceInv'
<1>1. CASE DaemonEnds
  <2>1. Clean /\ UNCHANGED <<inbox, seenFile, shown, twice>> /\ current' = NoStore
    BY <1>1 DEF DaemonEnds, Clean, mailbox, landed
  <2>2. \A k \in Polls : poll'[k].step = "idle"
    BY <1>1 DEF DaemonEnds, NotPolling
  <2>3. StoreAhead' /\ AnsweredKept'
    BY <2>1, MailAssumption DEF OnceInv, StoreAhead, AnsweredKept
  <2> QED
    BY <2>2, <2>3 DEF OnceInv
<1>2. CASE \/ StartDaemon \/ UNCHANGED mailVars
           \/ \E s \in Senders : BeginSend(s) \/ WriteTmp(s) \/ RenameEml(s) \/ RenameMeta(s) \/ SenderDies(s)
  <2>1. UNCHANGED <<current, seenStore, poll, seenFile, inbox, shown, twice, beside>>
    BY <1>2, Zenon DEF StartDaemon, BeginSend, WriteTmp, RenameEml, RenameMeta, SenderDies, mailVars, reading,
                       landed, answers
  <2>2. EntriesStay /\ ~collided
    <3>1. CASE StartDaemon \/ UNCHANGED mailVars
      BY <3>1 DEF StartDaemon, mailVars, mailbox, Clean, EntriesStay
    <3>2. CASE \E s \in Senders : BeginSend(s) \/ WriteTmp(s) \/ RenameEml(s) \/ RenameMeta(s) \/ SenderDies(s)
      <4>1. PICK s \in Senders : BeginSend(s) \/ WriteTmp(s) \/ RenameEml(s) \/ RenameMeta(s) \/ SenderDies(s)
        BY <3>2
      <4>2. collided = TRUE => collided' = TRUE
        BY <4>1 DEF BeginSend, WriteTmp, RenameEml, RenameMeta, SenderDies
      <4> QED
        BY <4>1, <4>2, SendKeepsEntries DEF Clean, BoxInv, BoxTypeOK
    <3> QED
      BY <1>2, <3>1, <3>2
  <2>3. Clean
    BY <2>1, <2>2 DEF Clean
  <2>4. StoreAhead' /\ AnsweredKept'
    BY <2>1, <2>3, Zenon DEF OnceInv, StoreAhead, AnsweredKept
  <2>5. ASSUME NEW k \in Polls, poll'[k].step # "idle" PROVE Once(poll[k])'
    <3>1. Once(poll[k]) /\ poll[k].todo \subseteq Uids \X Mails
      BY <2>1, <2>3, <2>5 DEF OnceInv, PollInv, Polling
    <3>2. \A e \in poll[k].todo : spool'[e[1]].eml = e[2] /\ spool'[e[1]].meta = e[2]
      <4> SUFFICES ASSUME NEW e \in poll[k].todo
                   PROVE  spool'[e[1]].eml = e[2] /\ spool'[e[1]].meta = e[2]
        OBVIOUS
      <4>1. e[1] \in Uids /\ e[2] \in Mails /\ spool[e[1]].eml = e[2] /\ spool[e[1]].meta = e[2]
        BY <3>1 DEF Once
      <4>2. spool[e[1]].meta # NoMail
        BY <4>1 DEF Mails, NoMail
      <4> QED
        BY <2>2, <4>1, <4>2 DEF EntriesStay, Clean
    <3> QED
      BY <2>1, <3>1, <3>2 DEF Once
  <2> QED
    BY <2>1, <2>3, <2>4, <2>5 DEF OnceInv
<1> QED
  BY <1>1, <1>2

LEMMA OnceStep == BoxInv /\ PollInv /\ OnceInv /\ [MailNext]_mailVars => OnceInv'
<1> SUFFICES ASSUME BoxInv, PollInv, OnceInv, [MailNext]_mailVars, Clean' PROVE OnceInv'
  BY Zenon DEF OnceInv
<1>1. ASSUME NEW k \in Polls,
             \/ StartPoll(k) \/ OpenStore(k) \/ List(k) \/ NextEntry(k) \/ PickPath(k)
             \/ Land(k) \/ SkipMail(k) \/ Save(k) \/ SaveFails(k) \/ Answer(k)
      PROVE  OnceInv'
  BY <1>1, OnceBegins, OnceReads, OnceLands, OnceEnds
<1> QED
  BY <1>1, OnceKept, Zenon DEF MailNext

MailInv == BoxInv /\ PollInv /\ OnceInv

LEMMA MailInitial == MailInit => MailInv
<1> SUFFICES ASSUME MailInit PROVE OnceInv
  BY BoxInitial, PollInitial DEF MailInv
<1>1. \A k \in Polls : poll[k].step = "idle"
  BY DEF MailInit, NotPolling
<1>2. StoreAhead /\ AnsweredKept
  BY MailAssumption DEF MailInit, StoreAhead, AnsweredKept
<1> QED
  BY <1>1, <1>2 DEF OnceInv

LEMMA MailInvStep == MailInv /\ [MailNext]_mailVars => MailInv'
  BY MailStep, OnceStep DEF MailInv

LEMMA MailInvGood == MailInv => MailTypeOK /\ SeenWasReceived /\ ShownOnceIntact
<1>1. OnceInv => ShownOnceIntact
  BY Zenon DEF OnceInv, Clean, AnsweredKept, ShownOnceIntact
<1> QED
  BY <1>1, MailGood DEF MailInv

\* SeenWasReceived: a mail marked as seen, on disk or in memory, was answered, is held
\* by a poll, or was received by a poll that did not answer it; no failed save, failed
\* mail, overlapping poll, death or restart marks one nobody received
\* (adapter.ts:95-114, seen.ts:39-58).
THEOREM SeenWasReceivedAlways == MailSpec => []SeenWasReceived
<1>1. MailSpec => []MailInv
  BY MailInitial, MailInvStep, PTL DEF MailSpec
<1> QED
  BY <1>1, MailInvGood, PTL

\* ShownOnceIntact: through failed saves, failed mails, deaths and restarts of the
\* daemon, no mail is answered twice and the attachment at an answered path stays that
\* of its mail.  Not covered: polls beside each other, where the run mail_twice shows a
\* second answer, and two senders that mix their files under one uid
\* (adapter.ts:67-119, 146-164, maildrop.ts:160-178).
THEOREM ShownOnceIntactAlways == MailSpec => []ShownOnceIntact
<1>1. MailSpec => []MailInv
  BY MailInitial, MailInvStep, PTL DEF MailSpec
<1> QED
  BY <1>1, MailInvGood, PTL

-------------------------------------------------------------------------------
(* All matters *)

\* OneBroadcastSeed: as long as no two broadcasts stop or seed at once, one seeder at
\* most runs, it seeds the receipt as the last broadcast wrote it, and it runs from the
\* end of a broadcast until the next, unless that one failed (broadcast.ts:46-67,
\* app.ts:142-149).
THEOREM OneBroadcastSeedAlways == DiscoverySpec => []OneBroadcastSeed
<1>1. DiscoveryInv => OneBroadcastSeed
  BY CastsGood DEF DiscoveryInv
<1> QED
  BY <1>1, DiscoveryInitial, DiscoveryStep, PTL DEF DiscoverySpec

\* AnswersFit: for any number of indexers, whatever they answered and however they
\* changed between the requests, the content a tool shows of a catalog is what its hash
\* covers and no catalog is shown twice; and as long as all who answered were indexers,
\* the object_id of a hit is one of its catalog, and who asks for an offer or an item
\* gets it, or that of another offer of the same catalog.  Titles made from tags, and
\* the object_id and item of a row, are covered by no hash and nothing is said of them
\* beyond that (catalog.ts:158-185, 206-290, 332-379).
THEOREM AnswersFitAlways == DiscoverySpec => []AnswersFit
<1>1. DiscoveryInv => AnswersFit
  BY LookupsGood DEF DiscoveryInv
<1> QED
  BY <1>1, DiscoveryInitial, DiscoveryStep, PTL DEF DiscoverySpec

\* What agents leave to each other shares no state: a run of Peers is a run of each of
\* its parts, so what is proved of a part holds of it in Peers
\* (event.ts:44-76, maildrop.ts:160-178, indexer.ts:287-345,
\* catalog.ts:158-185, broadcast.ts:46-67, store.ts:97-144).
THEOREM PeersRunsParts ==
  PeersSpec => ExchangeSpec /\ MailSpec /\ ReceiptsSpec /\ DiscoverySpec /\ TasksSpec
<1>1. PeersInit => ExchangeInit /\ MailInit /\ ReceiptsInit /\ DiscoveryInit /\ TasksInit
  BY Zenon DEF PeersInit, NewIndex
<1>2. ASSUME [PeersNext]_peersVars
      PROVE  /\ [ExchangeNext]_exchangeVars /\ [MailNext]_mailVars /\ [ReceiptsNext]_receiptsVars
             /\ [SearchNext \/ GetNext \/ CastNext]_discoveryVars /\ [TasksNext]_tasksVars
  <2>1. CASE UNCHANGED peersVars
    BY <2>1 DEF peersVars
  <2>2. CASE PeersNext
    <3>1. ServerNext => ProcessNext
      <4>1. Server \in Procs
        BY DEF Procs
      <4> QED
        BY <4>1, Zenon DEF ServerNext, ProcessNext
    <3> QED
      BY <2>2, <3>1, Zenon DEF PeersNext, ReceiptsNext
  <2> QED
    BY <1>2, <2>1, <2>2
<1> QED
  BY <1>1, <1>2, PTL DEF PeersSpec, ExchangeSpec, MailSpec, ReceiptsSpec, DiscoverySpec, TasksSpec

\* PeersTypeOK: whatever is explored, the records of the parties, the mailbox and its
\* polls, the index, the requests and the task files keep their types
\* (maildrop.ts:160-178, indexer.ts:287-345, catalog.ts:158-185,
\* store.ts:97-144).
THEOREM PeersTypeCorrect == PeersSpec => []PeersTypeOK
<1>1. ExchangeInv /\ MailInv /\ TypedInv /\ DiscoveryInv /\ TasksInv => PeersTypeOK
  <2>1. ExchangeInv => ExchangeTypeOK
    BY DEF ExchangeInv
  <2>2. TasksInv => TasksTypeOK
    BY DEF TasksInv
  <2> QED
    BY <2>1, <2>2, MailInvGood, TypedGood, DiscoveryTyped, Zenon DEF PeersTypeOK
<1>2. MailSpec => []MailInv
  BY MailInitial, MailInvStep, PTL DEF MailSpec
<1>3. ReceiptsSpec => []TypedInv
  BY TypedInitial, TypedStep, PTL DEF ReceiptsSpec
<1>4. DiscoverySpec => []DiscoveryInv
  BY DiscoveryInitial, DiscoveryStep, PTL DEF DiscoverySpec
<1>5. TasksSpec => []TasksInv
  BY TasksInvInitial, TasksInvStep, PTL DEF TasksSpec
<1> QED
  BY <1>1, <1>2, <1>3, <1>4, <1>5, PeersRunsParts, ExchangeInvAlways, PTL

\* What the run of Peers checks holds of it: parties that know the same events agree
\* and never get stuck, what is marked as seen was received and is answered once unless
\* polls overlap, receipts are stored, weighed and counted as they were answered, tools
\* show what was asked, one seeder runs unless broadcasts overlap, and tasks end once
\* (store.ts:351-385, adapter.ts:67-119, indexer.ts:269-413, catalog.ts:158-290,
\* broadcast.ts:46-67, local-store/src/store.ts:97-144).
THEOREM PeersSafe ==
  PeersSpec => [](/\ SameEventsAgree /\ TurnsConverge
                  /\ ShownOnceIntact /\ SeenWasReceived
                  /\ FactsMatchRows /\ TierEarned /\ SnapshotCountsAnswered /\ QueryVerifies
                  /\ AnswersFit /\ OneBroadcastSeed /\ TasksStand)
BY PeersRunsParts, SameEventsAgreeAlways, TurnsConvergeAlways,
   ShownOnceIntactAlways, SeenWasReceivedAlways, FactsMatchRowsAlways, TierEarnedAlways,
   SnapshotCountsAnsweredAlways, QueryVerifiesAlways, AnswersFitAlways,
   OneBroadcastSeedAlways, TasksStandAlways, PTL
===============================================================================
