---------------------------------- MODULE Tasks ----------------------------------
(***************************************************************************)
(* adapters/human-task: the task files of one data directory, their mirror *)
(* in index.sqlite, and the processes that work on them.  A call runs      *)
(* without interruption in its process; another process may come between   *)
(* any two accesses to the disk.  A change reads the file, writes a        *)
(* temporary file whose name is that of the task, and renames it; nothing  *)
(* locks.                                                                  *)
(*                                                                         *)
(* A task stands for its id, and its file for the status in it.            *)
(***************************************************************************)
EXTENDS Naturals

CONSTANTS
  Clients,       \* processes
  TaskIds,       \* ids create may draw
  Void,          \* no file, no row
  MaxMishaps     \* bound: deaths, failed writes, indexes lost

Ends == {"DONE", "CANCELLED"}
Status == {"PENDING"} \cup Ends

ASSUME TasksAssumption == MaxMishaps \in Nat /\ Void \notin TaskIds \cup Status \cup {"torn"}

VARIABLES
  taskFile,  \* .data/tasks/<id>.json
  temp,      \* .data/tasks/<id>.json.tmp
  table,     \* the tasks table of index.sqlite
  job,       \* the call each process is in
  told,      \* history: the ends reported to a caller
  cited,     \* history: tasks an event was made of
  doubled,   \* history: tasks two processes changed at once
  quiet,     \* history: nothing ran beside anything or failed since a list ran alone
  mishaps

taskHistory == <<told, cited, doubled>>
tasksVars == <<taskFile, temp, table, job, taskHistory, quiet, mishaps>>

Nobody == [step |-> "idle", task |-> Void, status |-> Void, left |-> {}, read |-> {}, alone |-> FALSE]

TasksTypeOK ==
  /\ taskFile \in [TaskIds -> Status \cup {"torn", Void}]
  /\ temp \in [TaskIds -> Status \cup {"torn", Void}]
  /\ table \in [TaskIds -> Status \cup {Void}]
  /\ job \in [Clients -> [step : {"idle", "open", "write", "rename", "list", "sync"},
                          task : TaskIds \cup {Void}, status : Status \cup {Void},
                          left : SUBSET TaskIds, read : SUBSET (TaskIds \X Status), alone : BOOLEAN]]
  /\ told \subseteq TaskIds \X Ends /\ cited \subseteq TaskIds /\ doubled \subseteq TaskIds
  /\ quiet \in BOOLEAN /\ mishaps \in 0 .. MaxMishaps

TasksInit ==
  /\ taskFile = [t \in TaskIds |-> Void] /\ temp = taskFile /\ table = taskFile
  /\ job = [c \in Clients |-> Nobody]
  /\ told = {} /\ cited = {} /\ doubled = {} /\ quiet = TRUE /\ mishaps = 0

-------------------------------------------------------------------------------

Writing == {"open", "write", "rename"}
Changing(t) == {c \in Clients : job[c].task = t /\ job[c].step \in Writing}
Alone == \A c \in Clients : job[c].step = "idle"

\* A call begins; it is alone until another begins.
Call(c, call) ==
  /\ job[c].step = "idle"
  /\ job' = [d \in Clients |-> IF d = c THEN [call EXCEPT !.alone = Alone]
                               ELSE [job[d] EXCEPT !.alone = FALSE]]
  /\ quiet' = (quiet /\ Alone)

GoTo(c, step) == job' = [job EXCEPT ![c].step = step]

\* writeTaskFile is about to begin.
Write(c, t, status) ==
  Call(c, [Nobody EXCEPT !.step = "open", !.task = t, !.status = status])

\* The id is new.
Create(c, t) ==
  /\ taskFile[t] = Void /\ temp[t] = Void /\ Changing(t) = {}
  /\ Write(c, t, "PENDING")
  /\ UNCHANGED <<taskFile, temp, table, taskHistory, mishaps>>

\* Mutant: a task that has ended ends again.
OpenTaskAny(t) == taskFile[t] \in Status

OpenTask(t) == taskFile[t] = "PENDING"

\* complete, cancel
EndTask(c, t, status) ==
  /\ OpenTask(t)
  /\ Write(c, t, status)
  /\ doubled' = IF Changing(t) = {} THEN doubled ELSE doubled \cup {t}
  /\ UNCHANGED <<taskFile, temp, table, told, cited, mishaps>>

\* The temporary file is truncated, then written.
OpenTemp(c) ==
  /\ job[c].step = "open"
  /\ temp' = [temp EXCEPT ![job[c].task] = "torn"] /\ GoTo(c, "write")
  /\ UNCHANGED <<taskFile, table, taskHistory, quiet, mishaps>>

\* It lands in the file that was opened: the task's own, if another process has
\* renamed it since.  What two write into one file may fit neither.
Written(file, status) == IF file = "torn" THEN {status} ELSE {status, "torn"}

WriteTemp(c) ==
  LET t == job[c].task IN
  /\ job[c].step = "write" /\ GoTo(c, "rename")
  /\ \/ /\ temp[t] # Void /\ UNCHANGED taskFile
        /\ \E w \in Written(temp[t], job[c].status) : temp' = [temp EXCEPT ![t] = w]
     \/ /\ temp[t] = Void /\ UNCHANGED temp
        /\ \E w \in Written(taskFile[t], job[c].status) : taskFile' = [taskFile EXCEPT ![t] = w]
  /\ UNCHANGED <<table, taskHistory, quiet, mishaps>>

\* The rename takes what is there; another process may have taken it.
RenameTemp(c) ==
  LET t == job[c].task IN
  /\ job[c].step = "rename"
  /\ \/ /\ temp[t] # Void
        /\ taskFile' = [taskFile EXCEPT ![t] = temp[t]] /\ temp' = [temp EXCEPT ![t] = Void]
        /\ job' = [job EXCEPT ![c].step = "sync", ![c].read = {<<t, job[c].status>>}]
     \/ temp[t] = Void /\ job' = [job EXCEPT ![c] = Nobody] /\ UNCHANGED <<taskFile, temp>>
  /\ UNCHANGED <<table, taskHistory, quiet, mishaps>>

\* list reads one file after the other; a corrupt one is skipped.
ListTasks(c) ==
  /\ Call(c, [Nobody EXCEPT !.step = "list", !.left = {t \in TaskIds : taskFile[t] # Void}])
  /\ UNCHANGED <<taskFile, temp, table, taskHistory, mishaps>>

ListRead(c, t) ==
  /\ job[c].step = "list" /\ t \in job[c].left
  /\ job' = [job EXCEPT ![c].left = @ \ {t},
                        ![c].read = IF taskFile[t] \in Status THEN @ \cup {<<t, taskFile[t]>>} ELSE @]
  /\ UNCHANGED <<taskFile, temp, table, taskHistory, quiet, mishaps>>

\* The rows of the tasks at hand are replaced.
Upserted(read) ==
  [t \in TaskIds |-> IF \E s \in Status : <<t, s>> \in read
                     THEN CHOOSE s \in Status : <<t, s>> \in read ELSE table[t]]

\* The call returns, whether or not the mirror could be written.
Sync(c) ==
  LET listed == job[c].step = "list" IN
  /\ job[c].step = "sync" \/ (listed /\ job[c].left = {})
  /\ job' = [job EXCEPT ![c] = Nobody]
  /\ \/ /\ table' = Upserted(job[c].read) /\ quiet' = (quiet \/ (listed /\ job[c].alone))
        /\ UNCHANGED mishaps
     \/ /\ mishaps < MaxMishaps /\ mishaps' = mishaps + 1
        /\ quiet' = FALSE /\ UNCHANGED table
  /\ told' = IF listed \/ job[c].status \notin Ends THEN told
             ELSE told \cup {<<job[c].task, job[c].status>>}
  /\ UNCHANGED <<taskFile, temp, cited, doubled>>

\* An event that cites the task is made and applied.
ToEvent(c, t) ==
  /\ job[c].step = "idle" /\ taskFile[t] = "DONE" /\ t \notin cited
  /\ cited' = cited \cup {t}
  /\ UNCHANGED <<taskFile, temp, table, job, told, doubled, quiet, mishaps>>

\* The process dies, or a write throws; the mirror is left behind if the file was
\* renamed.
Breaks(c) ==
  /\ job[c].step # "idle" /\ mishaps < MaxMishaps /\ mishaps' = mishaps + 1
  /\ job' = [job EXCEPT ![c] = Nobody]
  /\ quiet' = (quiet /\ job[c].step # "sync")
  /\ UNCHANGED <<taskFile, temp, table, taskHistory>>

\* rebuildIndex deletes index.sqlite; the table is made again when it is written.
IndexLost ==
  /\ mishaps < MaxMishaps /\ mishaps' = mishaps + 1
  /\ table' = [t \in TaskIds |-> Void] /\ quiet' = FALSE
  /\ job' = [c \in Clients |-> [job[c] EXCEPT !.alone = FALSE]]
  /\ UNCHANGED <<taskFile, temp, taskHistory>>

TasksNext ==
  \/ \E c \in Clients :
       \/ \E t \in TaskIds :
            Create(c, t) \/ ListRead(c, t) \/ ToEvent(c, t) \/ \E s \in Ends : EndTask(c, t, s)
       \/ OpenTemp(c) \/ WriteTemp(c) \/ RenameTemp(c) \/ ListTasks(c)
       \/ Sync(c) \/ Breaks(c)
  \/ IndexLost

TasksSpec == TasksInit /\ [][TasksNext]_tasksVars

-------------------------------------------------------------------------------
(* Properties *)

\* A task ends once: what complete or cancel reported, and what an event cites,
\* stays in its file whatever dies or fails afterwards, unless two processes changed
\* the task at once.  And from a list that ran alone the mirror is a faithful copy of
\* all task files that can be read, until calls run beside each other, one fails after
\* its rename, or the index is lost (store.ts:97-144, 217-252).
TasksStand ==
  /\ \A t \in TaskIds \ doubled :
       /\ \A s \in Ends : <<t, s>> \in told => taskFile[t] = s
       /\ t \in cited => taskFile[t] = "DONE"
  /\ quiet /\ (\A c \in Clients : job[c].step # "sync") =>
       \A t \in TaskIds : taskFile[t] \in {table[t], "torn"}
===============================================================================
