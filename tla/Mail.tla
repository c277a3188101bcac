---------------------------------- MODULE Mail ----------------------------------
(***************************************************************************)
(* adapters/email and the file mailbox of the plugin: one mailbox          *)
(* directory, the processes that send into it, and the daemon whose        *)
(* EmailAdapter polls it and answers trade_contact_seller.  A send reads   *)
(* the directory, takes the next uid, writes two temporary files and       *)
(* renames them, without a lock; polls of one daemon interleave at every   *)
(* await and share the SeenStore, or open one each.                        *)
(*                                                                         *)
(* A mail stands for its Message-ID, its content and its one attachment;   *)
(* all attachments have one name.  An entry of the mailbox is a .eml file, *)
(* whose mail is downloaded, and a .meta.json file, whose id is listed.    *)
(***************************************************************************)
EXTENDS Naturals, FiniteSets, Sequences

CONSTANTS
  Senders,    \* processes that send, one mail at a time
  Polls,      \* polls of the daemon that can be under way at once
  MaxMails,   \* bound: mails sent
  Oversize,   \* mails larger than maxMailBytes
  MaxShown,   \* MAX_MSGS
  MaxPaths,   \* bound: attachments in inboxDir
  MailFaults  \* bound: failures and deaths

Mails == 1 .. MaxMails
Uids == 1 .. MaxMails + 1
Paths == 1 .. MaxPaths
NoMail == 0
NoStore == "none"

ASSUME MailAssumption ==
  /\ MaxMails \in Nat /\ MaxShown \in Nat /\ MaxPaths \in Nat /\ MailFaults \in Nat
  /\ NoStore \notin Polls

VARIABLES
  spool,      \* the mailbox: the four files of each uid
  sending,    \* the send each process is in
  begun,      \* mails begun to be sent
  sent,       \* mails whose send returned
  daemon,     \* it runs
  current,    \* this.#seen: the poll that opened it
  seenStore,  \* SeenStore each poll opened
  poll,       \* polls under way
  seenFile,   \* seen store on disk
  inbox,      \* inboxDir: the attachment at each path
  shown,      \* history: <<mail, path>> answered
  twice,      \* history: some mail was answered twice
  dropped,    \* history: mails received that no answer showed
  beside,     \* history: a poll began beside another
  collided,   \* history: a send took the uid of another under way
  failures    \* history: failures so far

mailbox == <<spool, sending, begun, sent, collided>>
reading == <<daemon, current, seenStore, poll>>
landed == <<seenFile, inbox>>
answers == <<shown, twice, dropped>>
mailVars == <<mailbox, reading, landed, answers, beside, failures>>

Files == [eml : Mails \cup {NoMail}, meta : Mails \cup {NoMail},
          emlTmp : Mails \cup {NoMail}, metaTmp : Mails \cup {NoMail}]
NoFiles == [eml |-> NoMail, meta |-> NoMail, emlTmp |-> NoMail, metaTmp |-> NoMail]
NotSending == [step |-> "idle", mail |-> NoMail, uid |-> 1]
NotPolling == [step |-> "idle", store |-> NoStore, todo |-> {}, mail |-> NoMail,
               path |-> 1, out |-> <<>>, save |-> {}]
Polling == [step : {"idle", "open", "list", "next", "pick", "land", "save", "answer"},
            store : Polls \cup {NoStore}, todo : SUBSET (Uids \X Mails), mail : Mails \cup {NoMail},
            path : Paths \cup {1}, out : Seq(Mails \X Paths), save : SUBSET Mails]
NewStore == [ids |-> {}, dirty |-> FALSE]

MailTypeOK ==
  /\ spool \in [Uids -> Files] /\ begun \in 0 .. MaxMails /\ sent \subseteq Mails
  /\ sending \in [Senders -> [step : {"idle", "eml", "meta", "renameEml", "renameMeta"},
                              mail : Mails \cup {NoMail}, uid : Uids]]
  /\ daemon \in BOOLEAN /\ current \in Polls \cup {NoStore}
  /\ seenStore \in [Polls -> [ids : SUBSET Mails, dirty : BOOLEAN]]
  /\ poll \in [Polls -> Polling]
  /\ seenFile \subseteq Mails /\ inbox \in [Paths -> Mails \cup {NoMail}]
  /\ shown \subseteq Mails \X Paths /\ dropped \subseteq Mails
  /\ twice \in BOOLEAN /\ beside \in BOOLEAN /\ collided \in BOOLEAN
  /\ failures \in 0 .. MailFaults

MailInit ==
  /\ spool = [u \in Uids |-> NoFiles] /\ sending = [s \in Senders |-> NotSending]
  /\ begun = 0 /\ sent = {} /\ collided = FALSE
  /\ daemon = FALSE /\ current = NoStore
  /\ seenStore = [k \in Polls |-> NewStore] /\ poll = [k \in Polls |-> NotPolling]
  /\ seenFile = {} /\ inbox = [p \in Paths |-> NoMail]
  /\ shown = {} /\ twice = FALSE /\ dropped = {} /\ beside = FALSE /\ failures = 0

MailFault == failures < MailFaults /\ failures' = failures + 1

-------------------------------------------------------------------------------
(* Sending *)

\* One more than the largest uid with a .eml file.
NextUid == CHOOSE u \in Uids : /\ \A v \in Uids : v >= u => spool[v].eml = NoMail
                               /\ u = 1 \/ spool[u - 1].eml # NoMail

\* readdir; the Message-ID is new.
BeginSend(s) ==
  /\ sending[s].step = "idle" /\ begun < MaxMails
  /\ begun' = begun + 1
  /\ sending' = [sending EXCEPT ![s] = [step |-> "eml", mail |-> begun + 1, uid |-> NextUid]]
  /\ collided' = (collided \/ \E t \in Senders : sending[t].step # "idle" /\ sending[t].uid = NextUid)
  /\ UNCHANGED <<spool, sent, reading, landed, answers, beside, failures>>

GoOn(s, step) == sending' = [sending EXCEPT ![s].step = step]

WriteTmp(s) ==
  LET u == sending[s].uid  m == sending[s].mail IN
  /\ \/ /\ sending[s].step = "eml" /\ GoOn(s, "meta")
        /\ spool' = [spool EXCEPT ![u].emlTmp = m]
     \/ /\ sending[s].step = "meta" /\ GoOn(s, "renameEml")
        /\ spool' = [spool EXCEPT ![u].metaTmp = m]
  /\ UNCHANGED <<begun, sent, collided, reading, landed, answers, beside, failures>>

\* A rename takes whatever is in the temporary file, and throws if there is none.
RenameEml(s) ==
  LET u == sending[s].uid IN
  /\ sending[s].step = "renameEml"
  /\ IF spool[u].emlTmp = NoMail
     THEN sending' = [sending EXCEPT ![s] = NotSending] /\ UNCHANGED spool
     ELSE /\ GoOn(s, "renameMeta")
          /\ spool' = [spool EXCEPT ![u].eml = spool[u].emlTmp, ![u].emlTmp = NoMail]
  /\ UNCHANGED <<begun, sent, collided, reading, landed, answers, beside, failures>>

RenameMeta(s) ==
  LET u == sending[s].uid IN
  /\ sending[s].step = "renameMeta"
  /\ sending' = [sending EXCEPT ![s] = NotSending]
  /\ IF spool[u].metaTmp = NoMail THEN UNCHANGED <<spool, sent>>
     ELSE /\ spool' = [spool EXCEPT ![u].meta = spool[u].metaTmp, ![u].metaTmp = NoMail]
          /\ sent' = sent \cup {sending[s].mail}
  /\ UNCHANGED <<begun, collided, reading, landed, answers, beside, failures>>

\* A sender dies between two of its writes.
SenderDies(s) ==
  /\ sending[s].step # "idle" /\ MailFault
  /\ sending' = [sending EXCEPT ![s] = NotSending]
  /\ UNCHANGED <<spool, begun, sent, collided, reading, landed, answers, beside>>

-------------------------------------------------------------------------------
(* Polling *)

SetPoll(k, r) == poll' = [poll EXCEPT ![k] = r]

StartDaemon ==
  /\ ~daemon /\ daemon' = TRUE
  /\ UNCHANGED <<mailbox, current, seenStore, poll, landed, answers, beside, failures>>

\* The store is opened unless there is one; polls that come before it is open
\* open one each.
StartPoll(k) ==
  /\ daemon /\ poll[k].step = "idle"
  /\ SetPoll(k, IF current = NoStore THEN [NotPolling EXCEPT !.step = "open"]
                ELSE [NotPolling EXCEPT !.step = "list", !.store = current])
  /\ beside' = (beside \/ \E j \in Polls : poll[j].step # "idle")
  /\ UNCHANGED <<mailbox, daemon, current, seenStore, landed, answers, failures>>

Opened == [ids |-> seenFile, dirty |-> FALSE]

OpenStore(k) ==
  /\ poll[k].step = "open"
  /\ seenStore' = [seenStore EXCEPT ![k] = Opened] /\ current' = k
  /\ SetPoll(k, [poll[k] EXCEPT !.step = "list", !.store = k])
  /\ UNCHANGED <<mailbox, daemon, landed, answers, beside, failures>>

\* Entries with both files; those too large are never downloaded.
Listed ==
  {u \in Uids : spool[u].eml # NoMail /\ spool[u].meta # NoMail /\ spool[u].eml \notin Oversize}

List(k) ==
  /\ poll[k].step = "list"
  /\ SetPoll(k, [poll[k] EXCEPT !.step = "next", !.todo = {<<u, spool[u].meta>> : u \in Listed}])
  /\ UNCHANGED <<mailbox, daemon, current, seenStore, landed, answers, beside, failures>>

Seen(k) == seenStore[poll[k].store].ids

\* In the order of their uids: what is seen is passed over, anything else is
\* downloaded and parsed.  After the last one the store is saved if it changed.
NextEntry(k) ==
  /\ poll[k].step = "next"
  /\ SetPoll(k,
       IF poll[k].todo = {}
       THEN IF seenStore[poll[k].store].dirty THEN [poll[k] EXCEPT !.step = "save", !.save = Seen(k)]
            ELSE [poll[k] EXCEPT !.step = "answer"]
       ELSE LET e == CHOOSE x \in poll[k].todo : \A y \in poll[k].todo : x[1] <= y[1]
                rest == [poll[k] EXCEPT !.todo = @ \ {e}] IN
            IF e[2] \in Seen(k) THEN rest
            ELSE [rest EXCEPT !.step = "pick", !.mail = spool[e[1]].eml])
  /\ UNCHANGED <<mailbox, daemon, current, seenStore, landed, answers, beside, failures>>

\* The first path that does not exist.
FreePath == CHOOSE p \in Paths : inbox[p] = NoMail /\ \A q \in Paths : q < p => inbox[q] # NoMail

PickPath(k) ==
  /\ poll[k].step = "pick" /\ \E p \in Paths : inbox[p] = NoMail
  /\ SetPoll(k, [poll[k] EXCEPT !.step = "land", !.path = FreePath])
  /\ UNCHANGED <<mailbox, daemon, current, seenStore, landed, answers, beside, failures>>

Add(k, m) ==
  seenStore' = [seenStore EXCEPT ![poll[k].store].ids = @ \cup {m},
                         ![poll[k].store].dirty = @ \/ m \notin Seen(k)]

\* Mutant: a write that fails goes unnoticed.
WriteUnnoticed(k) == inbox' \in {inbox, [inbox EXCEPT ![poll[k].path] = poll[k].mail]}

WriteAttachment(k) == inbox' = [inbox EXCEPT ![poll[k].path] = poll[k].mail]

\* The attachment is written, and the mail is one of the answer and seen.
Land(k) ==
  /\ poll[k].step = "land"
  /\ WriteAttachment(k)
  /\ Add(k, poll[k].mail)
  /\ SetPoll(k, [poll[k] EXCEPT !.step = "next", !.mail = NoMail, !.path = 1,
                                !.out = Append(@, <<poll[k].mail, poll[k].path>>)])
  /\ UNCHANGED <<mailbox, daemon, current, seenFile, answers, beside, failures>>

\* Mutant: a mail that fails is seen.
SkippedSeen(k) == Add(k, poll[k].mail)

Skipped(k) == UNCHANGED seenStore

\* Downloading, parsing or landing fails: the mail is left for the next poll.
SkipMail(k) ==
  /\ poll[k].step \in {"pick", "land"} /\ MailFault
  /\ SetPoll(k, [poll[k] EXCEPT !.step = "next", !.mail = NoMail, !.path = 1])
  /\ Skipped(k)
  /\ UNCHANGED <<mailbox, daemon, current, landed, answers, beside>>

Save(k) ==
  /\ poll[k].step = "save"
  /\ seenFile' = poll[k].save
  /\ seenStore' = [seenStore EXCEPT ![poll[k].store].dirty = FALSE]
  /\ SetPoll(k, [poll[k] EXCEPT !.step = "answer", !.save = {}])
  /\ UNCHANGED <<mailbox, daemon, current, inbox, answers, beside, failures>>

Ids(received) == {received[i][1] : i \in DOMAIN received}

\* The poll is rejected; what it received stays seen in memory.
SaveFails(k) ==
  /\ poll[k].step = "save" /\ MailFault
  /\ dropped' = dropped \cup Ids(poll[k].out)
  /\ SetPoll(k, NotPolling)
  /\ UNCHANGED <<mailbox, daemon, current, seenStore, landed, shown, twice, beside>>

\* The first MAX_MSGS are answered, or, if the answer is longer than its cap, none.
Answer(k) ==
  LET got == poll[k].out IN
  /\ poll[k].step = "answer"
  /\ \E n \in {0, MaxShown} :
       LET told == {i \in DOMAIN got : i <= n} IN
       /\ shown' = shown \cup {got[i] : i \in told}
       /\ twice' = (twice \/ \E i \in told : \E x \in shown : x[1] = got[i][1])
       /\ dropped' = dropped \cup (Ids(got) \ {got[i][1] : i \in told})
  /\ SetPoll(k, NotPolling)
  /\ UNCHANGED <<mailbox, daemon, current, seenStore, landed, beside, failures>>

\* The daemon dies; its shutdown does not wait for the polls or for the last save
\* either.
DaemonEnds ==
  /\ daemon /\ daemon' = FALSE /\ MailFault
  /\ current' = NoStore /\ seenStore' = [k \in Polls |-> NewStore]
  /\ poll' = [k \in Polls |-> NotPolling]
  /\ dropped' = dropped \cup UNION {Ids(poll[k].out) : k \in Polls}
  /\ UNCHANGED <<mailbox, landed, shown, twice, beside>>

MailNext ==
  \/ \E s \in Senders : BeginSend(s) \/ WriteTmp(s) \/ RenameEml(s) \/ RenameMeta(s) \/ SenderDies(s)
  \/ StartDaemon \/ DaemonEnds
  \/ \E k \in Polls : \/ StartPoll(k) \/ OpenStore(k) \/ List(k) \/ NextEntry(k) \/ PickPath(k)
                      \/ Land(k) \/ SkipMail(k) \/ Save(k) \/ SaveFails(k) \/ Answer(k)

MailSpec == MailInit /\ [][MailNext]_mailVars

-------------------------------------------------------------------------------
(* Properties *)

\* What SeenStore says of itself: a Message-ID that was handled is never delivered
\* twice (seen.ts:4-7).  A poll looks it up before it downloads the mail and adds it
\* after the attachment is written, with other polls between (adapter.ts:92-108).
DeliveredOnce == ~twice

\* What is left of it: no mail is answered twice, whatever failures and restarts lie
\* between, and the attachment an answer points to is that of its mail for good, as
\* long as polls come one after the other and no two senders mix their files under one
\* uid, which the rename does not prevent (adapter.ts:67-119, 146-164, maildrop.ts:160-178).
ShownOnceIntact ==
  ~beside /\ ~collided =>
    ~twice /\ \A x \in shown : inbox[x[2]] = x[1]

\* What is marked as seen, on disk or in memory, was answered, is in the hands of a
\* poll, or was received by one that did not answer it: no failure, overlap or
\* restart marks a mail nobody received, which no later poll would deliver
\* (adapter.ts:95-114, seen.ts:39-58).
SeenWasReceived ==
  \A m \in seenFile \cup UNION {seenStore[k].ids : k \in Polls} :
    \/ m \in dropped \/ \E x \in shown : x[1] = m
    \/ \E k \in Polls : m \in Ids(poll[k].out)
===============================================================================
