-------------------------------- MODULE Receipts --------------------------------
(***************************************************************************)
(* apps/demo-indexer: the receipts index of one data directory, its site   *)
(* key, its signed snapshots, and the processes that open it, the HTTP     *)
(* server and the export command.  submitReceipt checks, awaits the        *)
(* evidence, and then writes the fact file and the row; what happens       *)
(* between the check and the row, between the row and the answer, and      *)
(* between the reads of an export, is what this module is about.           *)
(*                                                                         *)
(* A receipt stands for its body, so for body_hash and object_id as well.  *)
(* Who signed it is not part of the body: one body may be submitted in the *)
(* envelopes of several signers.                                           *)
(***************************************************************************)
EXTENDS Integers, FiniteSets, FiniteSetsExt

CONSTANTS
  Agents,     \* agents that sign receipts and bundle entries
  Receipts,   \* receipt bodies
  Deals,      \* deals a receipt may cite
  Server,     \* the process that serves HTTP
  Exporters,  \* processes of the export command
  Calls,      \* requests that can be in flight at once
  Weights,    \* weight configurations a process may be started with
  Absent,
  MaxKeys,    \* bound: site keys generated
  MaxExports, \* bound: snapshots signed
  MaxFaults   \* bound: processes that die

Procs == {Server} \cup Exporters
Keys == 1 .. MaxKeys
NoKey == 0
Ratings == {"POSITIVE", "NEUTRAL", "NEGATIVE", "FACT_ONLY"}
Tiers == {"bundle", "referenced", "none"}

ASSUME ReceiptsAssumption ==
  /\ \A r \in Receipts :
       /\ r.bundle \subseteq Agents       \* signers of the entries of evidence.bundle
       /\ r.deal \in Deals \cup {Absent}    \* deal_ref, Absent if absent or malformed
       /\ r.urls \in Nat                  \* number of distribution_refs
       /\ r.settled \in BOOLEAN           \* a settlement_event_ref is given
       /\ r.rating \in Ratings
  /\ Absent \notin Agents \cup Deals /\ Absent \notin Receipts
  /\ Absent \notin Weights /\ Absent \notin Tiers
  /\ MaxKeys \in Nat \ {0} /\ MaxExports \in Nat /\ MaxFaults \in Nat

VARIABLES
  trusted,    \* agents in the key ring; it is on disk and only grows
  facts,      \* .data/objects: signer of each receipt stored
  deals,      \* .data/objects: deals stored, by other programs
  rows,       \* receipts.sqlite, table receipts
  seed,       \* keys/<indexerId>.key
  proc,       \* memory of each process
  call,       \* requests of the server, up to the row
  replying,   \* receipts that have their row, whose answer is not out yet
  gathered,   \* each export: subjects left to read, views read, answers before it
  out,        \* output of the export command: snapshot file and .sig file
  reader,     \* the snapshot a query has read
  served,     \* history: deals some URL has delivered
  keyRace,    \* history: two processes generated the site key at once
  exports,    \* history: number of snapshots signed
  clashed,    \* history: receipts written although they or their id were indexed
  answered,   \* history: receipts answered "indexed"
  faults      \* history: faults so far

store == <<trusted, facts, deals, rows>>
history == <<served, keyRace, exports, clashed, answered, faults>>
inFlight == <<call, replying>>
receiptsVars == <<store, seed, proc, inFlight, gathered, out, reader, history>>

Row == [receipt : Receipts, issuer : Agents, tier : Tiers]
Request == [receipt : Receipts, signer : Agents, tier : Tiers \cup {Absent}, left : Nat]
NoExport == [number |-> 0, key |-> NoKey, pub |-> NoKey, views |-> Absent, after |-> {}]
Down == [step |-> "down", pub |-> NoKey, weights |-> Absent, signed |-> NoExport]
NotGathering == [todo |-> {}, views |-> <<>>, after |-> {}]
Subjects == {r.subject : r \in Receipts}

\* The snapshots still in a file or in some memory.
Snapshots == ({out.snapshot, out.sig, reader} \cup {proc[p].signed : p \in Procs}) \ {NoExport}
Known == Snapshots \cup {NoExport}

ReceiptsTypeOK ==
  /\ trusted \subseteq Agents
  /\ facts \in [Receipts -> Agents \cup {Absent}]
  /\ deals \subseteq Deals /\ served \subseteq Deals
  /\ rows \subseteq Row
  /\ seed \in Keys \cup {NoKey}
  /\ proc \in [Procs -> [step : {"down", "loaded", "generate", "up", "read", "sign"},
                         pub : Keys \cup {NoKey}, weights : Weights \cup {Absent},
                         signed : Known]]
  /\ call \in [Calls -> Request \cup {Absent}] /\ replying \subseteq Receipts
  /\ \A p \in Procs : gathered[p].todo \subseteq Subjects /\ gathered[p].after \subseteq answered
  /\ out \in [snapshot : Known, sig : Known]
  /\ keyRace \in BOOLEAN
  /\ exports \in 0 .. MaxExports /\ \A e \in Snapshots : e.number \in 1 .. exports
  /\ clashed \subseteq Receipts
  /\ answered \subseteq Receipts
  /\ faults \in Nat

\* The directory is new, or was opened before and has a site key.
ReceiptsInit ==
  /\ trusted = {} /\ facts = [r \in Receipts |-> Absent] /\ deals \in SUBSET Deals /\ rows = {}
  /\ seed \in {NoKey, 1} /\ proc = [p \in Procs |-> Down] /\ call = [c \in Calls |-> Absent]
  /\ replying = {} /\ gathered = [p \in Procs |-> NotGathering]
  /\ out = [snapshot |-> NoExport, sig |-> NoExport] /\ reader = NoExport
  /\ served = {} /\ keyRace = FALSE /\ exports = 0
  /\ clashed = {} /\ answered = {} /\ faults = 0

-------------------------------------------------------------------------------
(* Evidence and price *)

\* Mutant: one good entry vouches for the whole bundle.
BundleVerifiesOne(r) == r.bundle \cap trusted # {}

\* Every entry verifies; an empty or absent bundle is not applicable.
BundleVerifies(r) == r.bundle # {} /\ r.bundle \subseteq trusted

HasDealRef(r) == r.deal # Absent

\* What is known before anything is fetched, Absent if a fetch has to decide:
\* bundle first, then the local store.
EvidenceAtHand(r) ==
  CASE BundleVerifies(r) -> "bundle"
    [] ~BundleVerifies(r) /\ HasDealRef(r) /\ r.deal \in deals -> "referenced"
    [] ~BundleVerifies(r) /\ HasDealRef(r) /\ r.deal \notin deals -> Absent
    [] OTHER -> "none"

\* Price of a row with the weights of the process that is asked.
Score(row, w) ==
  w.evidence[row.tier]
  + (IF HasDealRef(row.receipt) THEN w.deal ELSE IF w.requireDeal THEN w.noDeal ELSE 0)
  + (IF row.receipt.settled THEN w.settled ELSE IF w.requireSettled THEN w.notSettled ELSE 0)
  + w.rating[row.receipt.rating]

Priced(S, w) == MapThenSumSet(LAMBDA row : Score(row, w), S)

\* subjectView: one SELECT.
View(s, w) ==
  LET of == {row \in rows : row.receipt.subject = s} IN
  [score |-> Priced(of, w), count |-> Cardinality(of), receipts |-> {row.receipt : row \in of}]

-------------------------------------------------------------------------------
(* Opening the directory *)

SetProc(p, r) == proc' = [proc EXCEPT ![p] = r]

\* The constructor reads the ring, ...
Load(p, w) ==
  /\ proc[p].step = "down"
  /\ SetProc(p, [step |-> "loaded", pub |-> seed, weights |-> w, signed |-> NoExport])
  /\ UNCHANGED <<store, seed, inFlight, gathered, out, reader, history>>

\* ... looks for the site key file, ...
MustGenerate(p) == seed = NoKey

\* ... fails when the file came after the ring was read, ...
FindKey(p) ==
  /\ proc[p].step = "loaded"
  /\ IF MustGenerate(p) THEN SetProc(p, [proc[p] EXCEPT !.step = "generate"])
     ELSE IF proc[p].pub = NoKey THEN SetProc(p, Down)
     ELSE SetProc(p, [proc[p] EXCEPT !.step = "up"])
  /\ UNCHANGED <<store, seed, inFlight, gathered, out, reader, history>>

\* ... and saves a new one when there is none.
Generate(p) ==
  LET fresh == Keys \ ({seed} \cup {proc[q].pub : q \in Procs} \cup {e.pub : e \in Snapshots}) IN
  /\ proc[p].step = "generate"
  /\ \E k \in fresh :
       /\ \A j \in fresh : k <= j
       /\ seed' = k
       /\ SetProc(p, [step |-> "up", pub |-> k, weights |-> proc[p].weights, signed |-> NoExport])
  /\ keyRace' = (keyRace \/ \E q \in Procs \ {p} : proc[q].step = "generate")
  /\ UNCHANGED <<store, inFlight, gathered, out, reader, served, exports, clashed, answered, faults>>

\* A process ends, or dies: what it holds in memory is gone.
Close(p) ==
  /\ proc[p].step = "up"
  /\ p = Server => replying = {} /\ \A c \in Calls : call[c] = Absent
  /\ SetProc(p, Down)
  /\ UNCHANGED <<store, seed, inFlight, gathered, out, reader, history>>

-------------------------------------------------------------------------------
(* Trust, deals and receipts *)

\* addTrusted, addTrustedPublicKey: a key of another agent is never replaced.
Trust(a) ==
  /\ proc[Server].step = "up"
  /\ trusted' = trusted \cup {a}
  /\ UNCHANGED <<facts, deals, rows, seed, proc, inFlight, gathered, out, reader, history>>

SameId(r, q) == r.id = q.id

\* Neither the body nor its receipt_id is indexed: otherwise the answer is
\* "duplicate" or "conflict" and nothing changes.
NotIndexed(r) == \A row \in rows : row.receipt # r /\ ~SameId(row.receipt, r)

\* submitReceipt up to its await.
Submit(c, r, a) ==
  /\ proc[Server].step = "up" /\ call[c] = Absent
  /\ a \in trusted /\ NotIndexed(r)
  /\ call' = [call EXCEPT ![c] =
       [receipt |-> r, signer |-> a, tier |-> EvidenceAtHand(r), left |-> r.urls]]
  /\ UNCHANGED <<store, seed, proc, replying, gathered, out, reader, history>>

\* Mutant: the list of URLs is read past its end.
HasUrlAlways(c) == TRUE

HasUrl(c) == call[c].left > 0

\* One distribution_ref: unreachable, too large, not JSON or not the object
\* cited; or the object cited.  When all have failed the tier is "none".
Fetch(c) ==
  /\ call[c] # Absent /\ call[c].tier = Absent
  /\ \/ ~HasUrl(c) /\ call' = [call EXCEPT ![c].tier = "none"] /\ UNCHANGED served
     \/ HasUrl(c) /\ call' = [call EXCEPT ![c].left = @ - 1] /\ UNCHANGED served
     \/ /\ HasUrl(c)
        /\ call' = [call EXCEPT ![c].tier = "referenced"]
        /\ served' = served \cup {call[c].receipt.deal}
  /\ UNCHANGED <<store, seed, proc, replying, gathered, out, reader, keyRace, exports, clashed, answered, faults>>

WriteFact(r, a) == facts' = [facts EXCEPT ![r] = a]

NewRow(c) ==
  [receipt |-> call[c].receipt, issuer |-> call[c].signer, tier |-> call[c].tier]

\* Mutant: INSERT OR REPLACE.
InsertRowReplacing(c) ==
  rows' = {row \in rows : ~SameId(row.receipt, call[c].receipt)} \cup {NewRow(c)}

\* INSERT INTO receipts, which the UNIQUE clauses refuse when another call has
\* indexed the receipt or its id since the check.
InsertRow(c) ==
  rows' = IF NotIndexed(call[c].receipt) THEN rows \cup {NewRow(c)} ELSE rows

\* Mutant: the row comes first.
FirstWriteRow(c) == InsertRow(c) /\ UNCHANGED <<facts, clashed>>

\* The fact file is replaced even if the receipt was indexed during the await.
FirstWrite(c) ==
  LET r == call[c].receipt IN
  /\ WriteFact(r, call[c].signer) /\ UNCHANGED rows
  /\ clashed' = IF NotIndexed(r) THEN clashed ELSE clashed \cup {r}

Decided(c) == call[c] # Absent /\ call[c].tier # Absent

\* submitReceipt after its await: the fact file, then the row.
Persist(c) ==
  LET r == call[c].receipt IN
  /\ Decided(c)
  /\ WriteFact(r, call[c].signer) /\ InsertRow(c)
  /\ IF NotIndexed(r)
     THEN replying' = replying \cup {r} /\ UNCHANGED clashed
     ELSE clashed' = clashed \cup {r} /\ UNCHANGED replying
  /\ call' = [call EXCEPT ![c] = Absent]
  /\ UNCHANGED <<trusted, deals, seed, proc, gathered, out, reader, served, keyRace, exports, answered, faults>>

\* The answer "indexed" is out.
Reply(r) ==
  /\ r \in replying
  /\ replying' = replying \ {r} /\ answered' = answered \cup {r}
  /\ UNCHANGED <<store, seed, proc, call, gathered, out, reader, served, keyRace, exports, clashed, faults>>

\* A process dies at any time, the server also between the two writes, or between the
\* row and the answer.
Die(p) ==
  /\ proc[p].step # "down"
  /\ faults < MaxFaults /\ faults' = faults + 1
  /\ SetProc(p, Down) /\ gathered' = [gathered EXCEPT ![p] = NotGathering]
  /\ IF p = Server THEN call' = [c \in Calls |-> Absent] /\ replying' = {} ELSE UNCHANGED inFlight
  /\ \/ UNCHANGED <<facts, rows, clashed>>
     \/ p = Server /\ \E c \in Calls : Decided(c) /\ FirstWrite(c)
  /\ UNCHANGED <<trusted, deals, seed, out, reader, served, keyRace, exports, answered>>

-------------------------------------------------------------------------------
(* Snapshots *)

\* allSubjects begins: SELECT DISTINCT subject.
StartExport(p) ==
  /\ proc[p].step = "up" /\ p \in Exporters
  /\ SetProc(p, [proc[p] EXCEPT !.step = "read"])
  /\ gathered' = [gathered EXCEPT ![p] =
       [todo |-> {row.receipt.subject : row \in rows}, views |-> <<>>, after |-> answered]]
  /\ UNCHANGED <<store, seed, inFlight, out, reader, history>>

\* The rows of one subject; the server may insert others meanwhile.
ReadSubject(p, s) ==
  LET g == gathered[p]
      view == View(s, proc[p].weights) IN
  /\ proc[p].step = "read" /\ s \in g.todo
  /\ gathered' = [gathered EXCEPT ![p] =
       [todo |-> g.todo \ {s}, after |-> g.after,
        views |-> [x \in DOMAIN g.views \cup {s} |-> IF x = s THEN view ELSE g.views[x]]]]
  /\ UNCHANGED <<store, seed, proc, inFlight, out, reader, history>>

\* exportSnapshot: the body names the public key in memory, the signature is
\* made with the seed on disk.  The export command writes the snapshot file ...
WriteSnapshot(p) ==
  /\ proc[p].step = "read" /\ gathered[p].todo = {} /\ exports < MaxExports
  /\ LET e == [number |-> exports + 1, key |-> seed, pub |-> proc[p].pub,
                views |-> gathered[p].views, after |-> gathered[p].after] IN
       /\ exports' = exports + 1
       /\ out' = [out EXCEPT !.snapshot = e]
       /\ SetProc(p, [step |-> "sign", pub |-> proc[p].pub, weights |-> proc[p].weights,
                    signed |-> e])
  /\ gathered' = [gathered EXCEPT ![p] = NotGathering]
  /\ UNCHANGED <<store, seed, inFlight, reader, served, keyRace, clashed, answered, faults>>

\* ... and then the detached signature, and ends.
WriteSig(p) ==
  /\ proc[p].step = "sign"
  /\ out' = [out EXCEPT !.sig = proc[p].signed]
  /\ SetProc(p, Down)
  /\ UNCHANGED <<store, seed, inFlight, gathered, reader, history>>

\* Mutant: the signature is checked against the hash that came with it.
VerifiesItself(snapshot, sig) == sig.number # 0 /\ sig.key = snapshot.pub

\* verifySnapshot: the signature is over this body, by the key the body names.
Verifies(snapshot, sig) ==
  snapshot.number # 0 /\ sig.number = snapshot.number /\ sig.key = snapshot.pub

\* The query command reads the one file and then the other; what it answers,
\* if they verify, is in the first.
ReadSnapshot ==
  /\ reader = NoExport /\ out.snapshot # NoExport
  /\ reader' = out.snapshot
  /\ UNCHANGED <<store, seed, proc, inFlight, gathered, out, history>>

ReadSig ==
  /\ reader # NoExport /\ reader' = NoExport
  /\ UNCHANGED <<store, seed, proc, inFlight, gathered, out, history>>

-------------------------------------------------------------------------------
\* The processes and what they export.
ProcessNext ==
  \E p \in Procs : \/ \E w \in Weights : Load(p, w)
                   \/ FindKey(p) \/ Generate(p) \/ Close(p) \/ Die(p)
                   \/ StartExport(p) \/ WriteSnapshot(p) \/ WriteSig(p)
                   \/ \E s \in Subjects : ReadSubject(p, s)

\* The requests to the server.
RequestNext ==
  \/ \E a \in Agents : Trust(a)
  \/ \E c \in Calls : \/ \E r \in Receipts, a \in Agents : Submit(c, r, a)
                      \/ Fetch(c) \/ Persist(c)
  \/ \E r \in Receipts : Reply(r)

QueryNext == ReadSnapshot \/ ReadSig

ReceiptsNext == ProcessNext \/ RequestNext \/ QueryNext

ReceiptsSpec == ReceiptsInit /\ [][ReceiptsNext]_receiptsVars

-------------------------------------------------------------------------------
(* Properties *)

\* The fact file is the source of truth (indexer.ts:314): every row has one,
\* and a fact file that no row of its signer speaks of is left only by a death,
\* or by a submission that lost the race for the receipt or for its id while it
\* awaited its evidence (indexer.ts:287-342).
FactsMatchRows ==
  /\ \A row \in rows : facts[row.receipt] # Absent
  /\ \A r \in Receipts :
       \/ facts[r] = Absent \/ r \in clashed \/ faults > 0
       \/ \E row \in rows : row.receipt = r /\ row.issuer = facts[r]

\* The tier stored with a row is one its evidence deserved, whatever else was
\* submitted, trusted or stored while it was fetched (evidence.ts:115-163).
TierEarned ==
  \A row \in rows :
    /\ row.tier = "bundle" => row.receipt.bundle # {} /\ row.receipt.bundle \subseteq trusted
    /\ row.tier = "referenced" => row.receipt.deal \in deals \cup served

\* A receipt answered "indexed" is in every snapshot whose export begins afterwards, in
\* whatever process, although the server inserts rows between the reads of an export;
\* and what a snapshot counts for a subject is as many receipt ids, none of them twice
\* (indexer.ts:269-284, 316-345, 389-413).
SnapshotCountsAnswered ==
  \A e \in Snapshots :
    /\ \A r \in e.after : r.subject \in DOMAIN e.views /\ r \in e.views[r.subject].receipts
    /\ \A s \in DOMAIN e.views :
         e.views[s].count = Cardinality({r.id : r \in e.views[s].receipts})

\* A query answers only from a snapshot and the signature made for it, although
\* both files are replaced one after the other while it reads one after the
\* other; and what a process signs is what a query accepts, unless two
\* processes created the site key at once (cli.ts:57-60, 89-100, indexer.ts:160-170, 399-413).
QueryVerifies ==
  /\ Verifies(reader, out.sig) => reader = out.sig
  /\ \A e \in Snapshots : Verifies(e, e) \/ keyRace
===============================================================================
