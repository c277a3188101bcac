------------------------------- MODULE WakeQueue -------------------------------
(***************************************************************************)
(* FileWakeQueue of packages/contact-core: a directory of pending tasks    *)
(* and one of done tasks.  A task file is named after its message, so the  *)
(* message stands for its task; several writers (the deliveries of two     *)
(* connections, or of two processes) enqueue and several readers           *)
(* acknowledge without any lock.  Every await of enqueue and ack is a      *)
(* place where others run.                                                 *)
(***************************************************************************)
EXTENDS Naturals

CONSTANTS
  Messages,   \* provider messages, by (provider, inbox, message id)
  Writers,    \* deliveries that can run enqueue at the same time
  Readers     \* agents that acknowledge tasks

NoMessage == "none"

ASSUME QueueAssumption == NoMessage \notin Messages

VARIABLES
  pending,    \* tasks with a file in pending/
  done,       \* tasks with a file in done/
  work,       \* the enqueue each writer is in, and what it returned
  acking,     \* the task each reader is about to rename
  accepted,   \* history: tasks that enqueue accepted at some time
  raced       \* history: an ack came after the writer's look into done/

qvars == <<pending, done, work, acking, accepted, raced>>

Running == {"check", "link", "chmod"}
Results == {"accepted", "duplicate", "failed"}
Idle == [step |-> "idle", msg |-> NoMessage]

QTypeOK ==
  /\ pending \subseteq Messages /\ done \subseteq Messages
  /\ work \in [Writers -> [step : Running \cup Results, msg : Messages] \cup {Idle}]
  /\ acking \in [Readers -> Messages \cup {NoMessage}]
  /\ accepted \subseteq Messages
  /\ raced \in [Writers -> BOOLEAN]

QInit ==
  /\ pending = {} /\ done = {}
  /\ work = [w \in Writers |-> Idle]
  /\ acking = [r \in Readers |-> NoMessage]
  /\ accepted = {}
  /\ raced = [w \in Writers |-> FALSE]

-------------------------------------------------------------------------------
(* enqueue *)

GoTo(w, s) == work' = [work EXCEPT ![w].step = s]

EnqueueStart(w, m) ==
  /\ work[w] = Idle
  /\ work' = [work EXCEPT ![w] = [step |-> "check", msg |-> m]]
  /\ UNCHANGED <<pending, done, acking, accepted, raced>>

\* Mutant: only pending tasks are looked for.
AcknowledgedNever(m) == FALSE

Acknowledged(m) == m \in done

\* A task in done/ is a duplicate.  Otherwise the temporary file is written.
EnqueueCheck(w) ==
  /\ work[w].step = "check"
  /\ GoTo(w, IF Acknowledged(work[w].msg) THEN "duplicate" ELSE "link")
  /\ raced' = [raced EXCEPT ![w] = FALSE]
  /\ UNCHANGED <<pending, done, acking, accepted>>

\* link() fails with EEXIST when the task is pending, and is atomic otherwise.
EnqueueLink(w) ==
  /\ work[w].step = "link"
  /\ IF work[w].msg \in pending
     THEN GoTo(w, "duplicate") /\ UNCHANGED <<pending, accepted>>
     ELSE /\ GoTo(w, "chmod")
          /\ pending' = pending \cup {work[w].msg}
          /\ accepted' = accepted \cup {work[w].msg}
  /\ UNCHANGED <<done, acking, raced>>

\* chmod() of the pending file: it throws when the task was acknowledged since.
EnqueueChmod(w) ==
  /\ work[w].step = "chmod"
  /\ GoTo(w, IF work[w].msg \in pending THEN "accepted" ELSE "failed")
  /\ UNCHANGED <<pending, done, acking, accepted, raced>>

Throw(w) == GoTo(w, "failed")

\* mkdir, chmod or writeFile throws; a task that was linked stays pending.
EnqueueFail(w) ==
  /\ work[w].step \in Running
  /\ Throw(w)
  /\ UNCHANGED <<pending, done, acking, accepted, raced>>

\* The caller takes the result.
EnqueueReturn(w, result) ==
  /\ work[w].step = result
  /\ work' = [work EXCEPT ![w] = Idle]
  /\ raced' = [raced EXCEPT ![w] = FALSE]
  /\ UNCHANGED <<pending, done, acking, accepted>>

-------------------------------------------------------------------------------
(* ack *)

\* A task already in done/ is answered at once and nothing changes.
AckCheck(r, m) ==
  /\ acking[r] = NoMessage /\ m \notin done
  /\ acking' = [acking EXCEPT ![r] = m]
  /\ UNCHANGED <<pending, done, work, accepted, raced>>

\* rename() replaces a task of the same name in done/; it throws when the task
\* is not pending (any more).
AckRename(r) ==
  /\ acking[r] # NoMessage
  /\ acking' = [acking EXCEPT ![r] = NoMessage]
  /\ IF acking[r] \in pending
     THEN /\ pending' = pending \ {acking[r]}
          /\ done' = done \cup {acking[r]}
          /\ raced' = [w \in Writers |-> raced[w] \/ work[w].msg = acking[r]]
     ELSE UNCHANGED <<pending, done, raced>>
  /\ UNCHANGED <<work, accepted>>

-------------------------------------------------------------------------------
(* Properties *)

\* A message that was accepted before is accepted again, and so wakes an agent
\* a second time, only if it was acknowledged between this enqueue's look into
\* done/ and its link: however many connections redeliver it, in whatever
\* process.  (queue.ts:57 and 66-73; queue.test.ts:59-71.)
ReacceptedOnlyIfRaced ==
  [][\A w \in Writers :
       work[w].step = "link" /\ work'[w].step = "chmod" /\ work[w].msg \in accepted
         => raced[w]]_qvars

\* "ack only moves the task into done/": a task is pending or done, never both.
\* (docs/agent-contact-runtime-email-selection-v0.1.md:269.)
PendingOrDone == pending \cap done = {}
===============================================================================
