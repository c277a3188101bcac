----------------------------- MODULE ReceiptsProofs -----------------------------
(***************************************************************************)
(* The safety properties of Receipts, for any number of agents, receipts,  *)
(* requests in flight, processes and faults.                               *)
(***************************************************************************)
EXTENDS Receipts, FiniteSetTheorems, TLAPS

\* What is indexed and what is in flight is made of receipts and agents.
RowsOK ==
  /\ facts \in [Receipts -> Agents \cup {Absent}]
  /\ rows \subseteq Row
  /\ call \in [Calls -> Request \cup {Absent}]
  /\ faults \in Nat

\* The steps of an export.
Exports(p) ==
  \/ StartExport(p) \/ \E s \in Subjects : ReadSubject(p, s)
  \/ WriteSnapshot(p) \/ WriteSig(p)

\* The evidence that was found for a receipt.
Deserves(r, tier) ==
  /\ tier = "bundle" => r.bundle # {} /\ r.bundle \subseteq trusted
  /\ tier = "referenced" => r.deal \in deals \cup served

\* ... and still is, after a step.
StillDeserves(r, tier) ==
  /\ tier = "bundle" => r.bundle # {} /\ r.bundle \subseteq trusted'
  /\ tier = "referenced" => r.deal \in deals' \cup served'

\* A request whose tier is decided deserves it already.
TierInv ==
  /\ RowsOK
  /\ \A row \in rows : Deserves(row.receipt, row.tier)
  /\ \A c \in Calls : Decided(c) => Deserves(call[c].receipt, call[c].tier)

LEMMA TypeFacts ==
  /\ \A a \in Agents : a # Absent
  /\ \A d \in Deals : d # Absent
  /\ \A t \in Tiers : t \in {"bundle", "referenced", "none"}
  BY ReceiptsAssumption DEF Tiers

\* Requests and rows keep their types.
LEMMA RowsStep == RowsOK /\ [ReceiptsNext]_receiptsVars => RowsOK'
<1> SUFFICES ASSUME RowsOK, [ReceiptsNext]_receiptsVars PROVE RowsOK'
  OBVIOUS
<1> USE DEF RowsOK
<1>1. ASSUME NEW c \in Calls, NEW r \in Receipts, NEW a \in Agents, Submit(c, r, a) PROVE RowsOK'
  <2>1. EvidenceAtHand(r) \in Tiers \cup {Absent}
    BY DEF EvidenceAtHand, Tiers
  <2>2. r.urls \in Nat
    BY ReceiptsAssumption
  <2>3. [receipt |-> r, signer |-> a, tier |-> EvidenceAtHand(r), left |-> r.urls] \in Request
    BY <2>1, <2>2 DEF Request
  <2> QED
    BY <1>1, <2>3 DEF Submit, store, inFlight, history
<1>2. ASSUME NEW c \in Calls, Fetch(c) PROVE RowsOK'
  <2>1. call[c] \in Request
    BY <1>2 DEF Fetch
  <2>2. [call[c] EXCEPT !.tier = "none"] \in Request /\ [call[c] EXCEPT !.tier = "referenced"] \in Request
    BY <2>1 DEF Request, Tiers
  <2>3. HasUrl(c) => [call[c] EXCEPT !.left = @ - 1] \in Request
    BY <2>1 DEF Request, HasUrl
  <2> QED
    BY <1>2, <2>2, <2>3 DEF Fetch, store
<1>3. ASSUME NEW c \in Calls, Persist(c) PROVE RowsOK'
  <2>1. call[c] \in Request /\ call[c].tier \in Tiers
    BY <1>3 DEF Persist, Decided, Request
  <2>2. NewRow(c) \in Row
    BY <2>1 DEF NewRow, Row, Request
  <2> QED
    BY <1>3, <2>1, <2>2 DEF Persist, WriteFact, InsertRow, Request
<1>4. ASSUME NEW p \in Procs, Die(p) PROVE RowsOK'
  <2>1. facts' \in [Receipts -> Agents \cup {Absent}] /\ rows' = rows
    <3>1. ASSUME NEW c \in Calls, Decided(c), FirstWrite(c) PROVE facts' \in [Receipts -> Agents \cup {Absent}] /\ rows' = rows
      <4>1. call[c] \in Request
        BY <3>1 DEF Decided
      <4> QED
        BY <3>1, <4>1 DEF FirstWrite, WriteFact, Request
    <3> QED
      BY <1>4, <3>1 DEF Die
  <2>2. call' \in [Calls -> Request \cup {Absent}]
    BY <1>4 DEF Die, inFlight
  <2> QED
    BY <1>4, <2>1, <2>2 DEF Die
<1>5. ASSUME NEW a \in Agents, Trust(a) PROVE RowsOK'
  BY <1>5 DEF Trust, inFlight, history
<1>6. ASSUME NEW p \in Procs, \/ \E w \in Weights : Load(p, w)
                              \/ FindKey(p) \/ Generate(p) \/ Close(p) \/ Exports(p)
      PROVE RowsOK'
  BY <1>6 DEF Load, FindKey, Generate, Close, Exports, StartExport, ReadSubject, WriteSnapshot, WriteSig, inFlight, store, inFlight, history
<1>7. CASE ReadSnapshot \/ ReadSig \/ \E r \in Receipts : Reply(r)
  BY <1>7 DEF Reply, ReadSnapshot, ReadSig, store, inFlight, history
<1>8. CASE UNCHANGED receiptsVars
  BY <1>8 DEF receiptsVars, store, inFlight, history
<1> QED
  BY <1>1, <1>2, <1>3, <1>4, <1>5, <1>6, <1>7, <1>8
     DEF ReceiptsNext, ProcessNext, RequestNext, QueryNext, Exports

\* Nothing that evidence rests on is ever taken back.
LEMMA EvidenceGrows ==
  [ReceiptsNext]_receiptsVars => trusted \subseteq trusted' /\ deals' = deals /\ served \subseteq served'
  BY DEF ReceiptsNext, ProcessNext, RequestNext, QueryNext, receiptsVars, store, inFlight, history,
         Load, FindKey, Generate, Close, Die, StartExport, ReadSubject, WriteSnapshot, WriteSig, Reply, Trust, Submit, Fetch, Persist, ReadSnapshot, ReadSig

LEMMA StillDeserved ==
  ASSUME trusted \subseteq trusted', deals' = deals, served \subseteq served', NEW r, NEW t, Deserves(r, t)
  PROVE  StillDeserves(r, t)
  BY DEF Deserves, StillDeserves

\* A step leaves every decided tier deserved.
LEMMA TierStep == TierInv /\ [ReceiptsNext]_receiptsVars => TierInv'
<1> SUFFICES ASSUME TierInv, [ReceiptsNext]_receiptsVars PROVE TierInv'
  OBVIOUS
<1>1. RowsOK'
  BY RowsStep DEF TierInv
<1>2. \A r, t : Deserves(r, t) => StillDeserves(r, t)
  BY EvidenceGrows, StillDeserved
<1>3. \A row \in rows : StillDeserves(row.receipt, row.tier)
  BY <1>2 DEF TierInv
<1>. DEFINE StillDecided == \A c \in Calls : (Decided(c))' => StillDeserves(call'[c].receipt, call'[c].tier)
<1>13. ASSUME \A row \in rows' : StillDeserves(row.receipt, row.tier), StillDecided PROVE TierInv'
  BY <1>1, <1>13 DEF TierInv, Deserves, StillDeserves
<1>14. ASSUME rows' = rows, StillDecided PROVE TierInv'
  BY <1>3, <1>13, <1>14
<1>4. ASSUME rows' = rows, call' = call PROVE TierInv'
  <2>1. StillDecided
    BY <1>2, <1>4 DEF TierInv, Decided
  <2> QED
    BY <1>4, <1>14, <2>1
<1>5. ASSUME NEW c \in Calls, NEW r \in Receipts, NEW a \in Agents, Submit(c, r, a) PROVE TierInv'
  <2>1. rows' = rows
    BY <1>5 DEF Submit, store
  <2>2. call'[c] = [receipt |-> r, signer |-> a, tier |-> EvidenceAtHand(r), left |-> r.urls]
        /\ \A d \in Calls \ {c} : call'[d] = call[d]
    BY <1>5 DEF Submit, TierInv, RowsOK
  <2>3. EvidenceAtHand(r) # Absent => Deserves(r, EvidenceAtHand(r))
    BY DEF EvidenceAtHand, BundleVerifies, HasDealRef, Deserves
  <2>4. StillDecided
    <3>1. (Decided(c))' => StillDeserves(call'[c].receipt, call'[c].tier)
      BY <1>2, <2>2, <2>3 DEF Decided
    <3>2. \A d \in Calls \ {c} : (Decided(d))' => StillDeserves(call'[d].receipt, call'[d].tier)
      BY <1>2, <2>2 DEF TierInv, Decided
    <3> QED
      BY <3>1, <3>2
  <2> QED
    BY <1>14, <2>1, <2>4
<1>6. ASSUME NEW c \in Calls, Fetch(c) PROVE TierInv'
  <2>1. rows' = rows /\ call[c] \in Request /\ call[c].tier = Absent
    BY <1>6 DEF Fetch, store, TierInv, RowsOK
  <2>2. \A d \in Calls \ {c} : call'[d] = call[d]
    BY <1>6 DEF Fetch, TierInv, RowsOK
  <2>3. (Decided(c))' => StillDeserves(call'[c].receipt, call'[c].tier)
    <3>1. CASE call' = [call EXCEPT ![c].tier = "none"]
      BY <2>1, <3>1 DEF TierInv, RowsOK, Request, StillDeserves
    <3>2. CASE call' = [call EXCEPT ![c].left = @ - 1]
      BY <2>1, <3>2 DEF TierInv, RowsOK, Request, Decided
    <3>3. CASE /\ call' = [call EXCEPT ![c].tier = "referenced"]
               /\ served' = served \cup {call[c].receipt.deal}
      BY <2>1, <3>3 DEF TierInv, RowsOK, Request, StillDeserves
    <3> QED
      BY <1>6, <3>1, <3>2, <3>3 DEF Fetch
  <2>4. \A d \in Calls \ {c} : (Decided(d))' => StillDeserves(call'[d].receipt, call'[d].tier)
    BY <1>2, <2>2 DEF TierInv, Decided
  <2> QED
    BY <1>14, <2>1, <2>3, <2>4
<1>7. ASSUME NEW c \in Calls, Persist(c) PROVE TierInv'
  <2>1. rows' \subseteq rows \cup {NewRow(c)} /\ Decided(c)
    BY <1>7 DEF Persist, InsertRow
  <2>2. StillDeserves(NewRow(c).receipt, NewRow(c).tier)
    BY <1>2, <2>1 DEF TierInv, NewRow
  <2>3. \A d \in Calls : (Decided(d))' => Decided(d) /\ call'[d] = call[d]
    BY <1>7 DEF Persist, Decided, TierInv, RowsOK
  <2>4. StillDecided
    BY <1>2, <2>3 DEF TierInv
  <2> QED
    BY <1>3, <1>13, <2>1, <2>2, <2>4
<1>8. ASSUME NEW p \in Procs, Die(p) PROVE TierInv'
  <2>1. rows' = rows
    BY <1>8 DEF Die, FirstWrite
  <2>2. \A d \in Calls : (Decided(d))' => Decided(d) /\ call'[d] = call[d]
    BY <1>8 DEF Die, Decided, TierInv, RowsOK, inFlight
  <2>3. StillDecided
    BY <1>2, <2>2 DEF TierInv
  <2> QED
    BY <1>14, <2>1, <2>3
<1>9. ASSUME NEW a \in Agents, Trust(a) PROVE TierInv'
  BY <1>4, <1>9 DEF Trust, inFlight
<1>10. ASSUME NEW p \in Procs, \/ \E w \in Weights : Load(p, w)
                               \/ FindKey(p) \/ Generate(p) \/ Close(p) \/ Exports(p)
       PROVE TierInv'
  BY <1>4, <1>10 DEF Load, FindKey, Generate, Close, Exports, StartExport, ReadSubject, WriteSnapshot, WriteSig, inFlight, store
<1>11. CASE ReadSnapshot \/ ReadSig \/ \E r \in Receipts : Reply(r)
  BY <1>4, <1>11 DEF Reply, ReadSnapshot, ReadSig, store, inFlight
<1>12. CASE UNCHANGED receiptsVars
  BY <1>4, <1>12 DEF receiptsVars, store, inFlight
<1> QED
  BY <1>5, <1>6, <1>7, <1>8, <1>9, <1>10, <1>11, <1>12
     DEF ReceiptsNext, ProcessNext, RequestNext, QueryNext, Exports

\* TierEarned: the tier stored with a row is one its evidence deserved, whatever
\* else was submitted, trusted or stored while it was fetched
\* (evidence.ts:115-163, indexer.ts:287-342).
THEOREM TierEarnedAlways == ReceiptsSpec => []TierEarned
<1>1. ReceiptsInit => TierInv
  BY DEF ReceiptsInit, TierInv, RowsOK, Decided
<1>2. TierInv => TierEarned
  BY DEF TierInv, TierEarned, Deserves
<1> QED
  BY <1>1, <1>2, TierStep, PTL DEF ReceiptsSpec
-------------------------------------------------------------------------------
FactInv == RowsOK /\ FactsMatchRows

\* The facts and the rows change together, or the receipt is one that clashed.
LEMMA FactStep == FactInv /\ [ReceiptsNext]_receiptsVars => FactInv'
<1> SUFFICES ASSUME FactInv, [ReceiptsNext]_receiptsVars PROVE FactInv'
  OBVIOUS
<1>1. RowsOK /\ RowsOK'
  BY RowsStep DEF FactInv
<1>2. ASSUME facts' = facts, rows' = rows, clashed' = clashed, faults' = faults PROVE FactInv'
  BY <1>1, <1>2 DEF FactInv, FactsMatchRows
<1>3. ASSUME NEW c \in Calls, Persist(c) PROVE FactInv'
  <2> DEFINE r == call[c].receipt
             a == call[c].signer
  <2>1. r \in Receipts /\ a \in Agents /\ a # Absent
    BY <1>1, <1>3, TypeFacts DEF Persist, Decided, RowsOK, Request
  <2>2. facts' = [facts EXCEPT ![r] = a] /\ faults' = faults
    BY <1>3 DEF Persist, WriteFact
  <2>3. facts'[r] = a /\ \A q \in Receipts \ {r} : facts'[q] = facts[q]
    BY <1>1, <2>1, <2>2 DEF RowsOK
  <2>4. NewRow(c).receipt = r /\ NewRow(c).issuer = a
    BY DEF NewRow
  <2>5. \/ rows' = rows \cup {NewRow(c)} /\ clashed' = clashed
        \/ rows' = rows /\ clashed' = clashed \cup {r}
    BY <1>3 DEF Persist, InsertRow
  <2>6. \A row \in rows' : facts'[row.receipt] # Absent
    BY <1>1, <2>1, <2>3, <2>4, <2>5 DEF FactInv, FactsMatchRows, RowsOK, Row
  <2>7. \A q \in Receipts :
          \/ facts'[q] = Absent \/ q \in clashed' \/ faults' > 0
          \/ \E row \in rows' : row.receipt = q /\ row.issuer = facts'[q]
    BY <2>2, <2>3, <2>4, <2>5 DEF FactInv, FactsMatchRows
  <2> QED
    BY <1>1, <2>6, <2>7 DEF FactInv, FactsMatchRows
<1>4. ASSUME NEW p \in Procs, Die(p) PROVE FactInv'
  <2>1. faults' > 0
    BY <1>1, <1>4 DEF Die, RowsOK
  <2>2. rows' = rows /\ \A q \in Receipts : facts[q] # Absent => facts'[q] # Absent
    <3>1. ASSUME NEW c \in Calls, Decided(c), FirstWrite(c)
          PROVE  rows' = rows /\ \A q \in Receipts : facts[q] # Absent => facts'[q] # Absent
      <4>1. call[c].signer # Absent
        BY <1>1, <3>1, TypeFacts DEF Decided, RowsOK, Request
      <4> QED
        BY <1>1, <3>1, <4>1 DEF FirstWrite, WriteFact, RowsOK
    <3> QED
      BY <1>4, <3>1 DEF Die
  <2> QED
    BY <1>1, <2>1, <2>2 DEF FactInv, FactsMatchRows, RowsOK, Row
<1>5. ASSUME NEW c \in Calls, \/ \E r \in Receipts, a \in Agents : Submit(c, r, a)
                              \/ Fetch(c)
      PROVE  FactInv'
  BY <1>2, <1>5 DEF Submit, Fetch, store, inFlight, history
<1>6. ASSUME NEW a \in Agents, Trust(a) PROVE FactInv'
  BY <1>2, <1>6 DEF Trust, history
<1>7. ASSUME NEW p \in Procs, \/ \E w \in Weights : Load(p, w)
                              \/ FindKey(p) \/ Generate(p) \/ Close(p) \/ Exports(p)
      PROVE  FactInv'
  BY <1>2, <1>7 DEF Load, FindKey, Generate, Close, Exports, StartExport, ReadSubject, WriteSnapshot, WriteSig, inFlight, store, inFlight, history
<1>8. CASE ReadSnapshot \/ ReadSig \/ \E r \in Receipts : Reply(r)
  BY <1>2, <1>8 DEF Reply, ReadSnapshot, ReadSig, store, inFlight, history
<1>9. CASE UNCHANGED receiptsVars
  BY <1>2, <1>9 DEF receiptsVars, store, inFlight, history
<1> QED
  BY <1>3, <1>4, <1>5, <1>6, <1>7, <1>8, <1>9 DEF ReceiptsNext, ProcessNext, RequestNext, QueryNext, Exports

\* FactsMatchRows: every row has its fact file, and a fact file without a row of
\* its signer is the trace of a death or of a submission that lost a race
\* (indexer.ts:287-345).
THEOREM FactsMatchRowsAlways == ReceiptsSpec => []FactsMatchRows
<1>1. ReceiptsInit => FactInv
  BY DEF ReceiptsInit, FactInv, RowsOK, FactsMatchRows
<1>2. FactInv => FactsMatchRows
  BY DEF FactInv
<1> QED
  BY <1>1, <1>2, FactStep, PTL DEF ReceiptsSpec
-------------------------------------------------------------------------------
\* The records the processes and the files are.
ProcRecord(r) == r = [step |-> r.step, pub |-> r.pub, weights |-> r.weights, signed |-> r.signed]

Shape ==
  /\ proc = [p \in Procs |-> proc[p]] /\ \A p \in Procs : ProcRecord(proc[p])
  /\ out = [snapshot |-> out.snapshot, sig |-> out.sig]
  /\ exports \in Nat

\* Unless two processes generated the site key at once, all that serve know the
\* key on disk, and none generates one when there is one.
KeyInv ==
  keyRace \/
    \A p \in Procs :
      /\ proc[p].step = "generate" => seed = NoKey
      /\ proc[p].step = "loaded" => proc[p].pub \in {NoKey, seed}
      /\ proc[p].step \in {"up", "read", "sign"} => proc[p].pub = seed /\ seed # NoKey

\* A number stands for one snapshot, signed with the key it names.
SnapshotInv ==
  /\ \A e \in Snapshots : e.number \in 1 .. exports /\ (e.key = e.pub \/ keyRace)
  /\ \A e, f \in Snapshots : e.number = f.number => e = f

QueryInv == Shape /\ KeyInv /\ SnapshotInv

\* The snapshot a process signs.
Signing(p) ==
  [number |-> exports + 1, key |-> seed, pub |-> proc[p].pub,
   views |-> gathered[p].views, after |-> gathered[p].after]

\* What a step does to one process.
ProcBecomes(p, r) == proc' = [proc EXCEPT ![p] = r] /\ ProcRecord(r)

\* The records the steps make of the record of a process.
LEMMA StepEdited ==
  ASSUME NEW r, ProcRecord(r), NEW s
  PROVE  LET n == [r EXCEPT !.step = s] IN
         ProcRecord(n) /\ n.step = s /\ n.pub = r.pub /\ n.signed = r.signed
<1>1. PICK a, b, c, d : r = [step |-> a, pub |-> b, weights |-> c, signed |-> d]
  BY DEF ProcRecord
<1>2. r.pub = b /\ r.signed = d
  BY <1>1
<1>3. [r EXCEPT !.step = s] = [step |-> s, pub |-> b, weights |-> c, signed |-> d]
  BY <1>1
<1> QED
  BY <1>2, <1>3 DEF ProcRecord

LEMMA ShapeKept ==
  ASSUME Shape, NEW p \in Procs, NEW r, ProcBecomes(p, r)
  PROVE  /\ proc' = [q \in Procs |-> proc'[q]] /\ \A q \in Procs : ProcRecord(proc'[q])
         /\ proc'[p] = r /\ \A q \in Procs \ {p} : proc'[q] = proc[q]
  BY DEF Shape, ProcBecomes, ProcRecord

\* Snapshots only move, unless one is signed.
LEMMA SnapshotsMove ==
  ASSUME Shape, NEW p \in Procs, NEW r, ProcBecomes(p, r), r.signed \in Known,
         {out'.snapshot, out'.sig, reader'} \subseteq Known
  PROVE  Snapshots' \subseteq Snapshots
  BY ShapeKept DEF Snapshots, Known

LEMMA SnapshotsStay ==
  ASSUME Shape, proc' = proc, {out'.snapshot, out'.sig, reader'} \subseteq Known
  PROVE  Snapshots' \subseteq Snapshots
  BY DEF Snapshots, Known

LEMMA AllKnown ==
  /\ {out.snapshot, out.sig, reader} \subseteq Known
  /\ \A p \in Procs : proc[p].signed \in Known
  /\ NoExport \in Known
  BY DEF Known, Snapshots

\* Fewer snapshots of fewer numbers, and a race stays a race.
LEMMA InvMoves ==
  ASSUME SnapshotInv, Snapshots' \subseteq Snapshots, exports' = exports, keyRace => keyRace'
  PROVE  SnapshotInv'
  BY DEF SnapshotInv

LEMMA QueryStep == QueryInv /\ [ReceiptsNext]_receiptsVars => QueryInv'
<1> SUFFICES ASSUME QueryInv, [ReceiptsNext]_receiptsVars PROVE QueryInv'
  OBVIOUS
<1> USE AllKnown
<1>1. Shape /\ KeyInv /\ SnapshotInv
  BY DEF QueryInv
<1>2. ASSUME proc' = proc, out' = out, seed' = seed, keyRace' = keyRace, exports' = exports,
             reader' \in Known
      PROVE  QueryInv'
  <2>1. Snapshots' \subseteq Snapshots
    BY <1>1, <1>2, SnapshotsStay
  <2> QED
    BY <1>1, <1>2, <2>1, InvMoves DEF QueryInv, Shape, KeyInv
<1>3. ASSUME NEW p \in Procs, NEW r, ProcBecomes(p, r), r.signed \in Known, seed' = seed,
             {out'.snapshot, out'.sig, reader'} \subseteq Known,
             out' = [snapshot |-> out'.snapshot, sig |-> out'.sig],
             keyRace' = keyRace, exports' = exports,
             keyRace \/ (/\ r.step = "generate" => seed = NoKey
                         /\ r.step = "loaded" => r.pub \in {NoKey, seed}
                         /\ r.step \in {"up", "read", "sign"} => r.pub = seed /\ seed # NoKey)
      PROVE  QueryInv'
  <2>1. Snapshots' \subseteq Snapshots
    BY <1>1, <1>3, SnapshotsMove
  <2>2. Shape'
    BY <1>1, <1>3, ShapeKept DEF Shape
  <2>3. KeyInv'
    BY <1>1, <1>3, ShapeKept DEF KeyInv
  <2> QED
    BY <1>1, <1>3, <2>1, <2>2, <2>3, InvMoves DEF QueryInv
<1>4. \A p \in Procs : ProcRecord(proc[p])
  BY <1>1 DEF Shape
<1>5. out = [snapshot |-> out.snapshot, sig |-> out.sig]
  BY <1>1 DEF Shape
<1>6. ASSUME NEW p \in Procs, NEW w \in Weights, Load(p, w) PROVE QueryInv'
  <2> DEFINE r == [step |-> "loaded", pub |-> seed, weights |-> w, signed |-> NoExport]
  <2>1. ProcBecomes(p, r)
    BY <1>6 DEF Load, SetProc, ProcBecomes, ProcRecord
  <2> QED
    BY <1>3, <1>5, <1>6, <2>1 DEF Load, history
<1>7. ASSUME NEW p \in Procs, FindKey(p) PROVE QueryInv'
  <2> DEFINE r(step) == [proc[p] EXCEPT !.step = step]
  <2>1. \A step : /\ r(step).step = step /\ r(step).pub = proc[p].pub
                  /\ r(step).signed = proc[p].signed /\ ProcRecord(r(step))
    BY <1>4, StepEdited
  <2>2. UNCHANGED <<seed, out, reader, keyRace, exports>>
    BY <1>7 DEF FindKey, history
  <2>3. CASE MustGenerate(p) /\ SetProc(p, r("generate"))
    <3>1. ProcBecomes(p, r("generate")) /\ seed = NoKey
      BY <2>1, <2>3 DEF SetProc, ProcBecomes, MustGenerate
    <3>2. r("generate").step = "generate" /\ r("generate").signed \in Known
      BY <2>1
    <3> HIDE DEF r
    <3> QED
      BY <1>3, <1>5, <2>2, <3>1, <3>2
  <2>4. CASE SetProc(p, Down)
    BY <1>3, <1>5, <2>2, <2>4 DEF SetProc, ProcBecomes, ProcRecord, Down
  <2>5. CASE ~MustGenerate(p) /\ proc[p].pub # NoKey /\ SetProc(p, r("up"))
    <3>1. keyRace \/ proc[p].pub = seed
      BY <1>1, <1>7, <2>5 DEF KeyInv, FindKey
    <3> QED
      BY <1>3, <1>5, <2>1, <2>2, <2>5, <3>1 DEF SetProc, ProcBecomes, MustGenerate
  <2> QED
    BY <1>7, <2>3, <2>4, <2>5 DEF FindKey
<1>8. ASSUME NEW p \in Procs, Generate(p) PROVE QueryInv'
  <2>1. PICK k \in Keys : seed' = k /\ SetProc(p, [step |-> "up", pub |-> k, weights |-> proc[p].weights, signed |-> NoExport])
    BY <1>8 DEF Generate
  <2> DEFINE r == [step |-> "up", pub |-> k, weights |-> proc[p].weights, signed |-> NoExport]
  <2>2. r.step = "up" /\ r.pub = k /\ r.signed = NoExport /\ ProcRecord(r)
    BY DEF ProcRecord
  <2>3. UNCHANGED <<out, reader, exports>>
        /\ keyRace' = (keyRace \/ \E q \in Procs \ {p} : proc[q].step = "generate")
    BY <1>8 DEF Generate
  <2>4. ProcBecomes(p, r)
    BY <2>1, <2>2 DEF SetProc, ProcBecomes
  <2>5. Snapshots' \subseteq Snapshots
    BY <1>1, <2>2, <2>3, <2>4, SnapshotsMove
  <2>6. Shape'
    BY <1>1, <2>3, <2>4, ShapeKept DEF Shape
  <2>7. KeyInv'
    <3>1. k # NoKey /\ seed' = k
      BY <2>1, ReceiptsAssumption DEF Keys, NoKey
    <3>2. CASE keyRace'
      BY <3>2 DEF KeyInv
    <3>3. CASE ~keyRace'
      <4>1. ~keyRace /\ \A q \in Procs \ {p} : proc[q].step # "generate"
        BY <2>3, <3>3
      <4>2. seed = NoKey
        BY <1>1, <1>8, <4>1 DEF KeyInv, Generate
      <4>3. \A q \in Procs \ {p} : /\ proc[q].step \notin {"generate", "up", "read", "sign"}
                                   /\ proc[q].step = "loaded" => proc[q].pub = NoKey
        BY <1>1, <4>1, <4>2 DEF KeyInv
      <4>4. proc'[p] = r /\ \A q \in Procs \ {p} : proc'[q] = proc[q]
        BY <1>1, <2>4, ShapeKept
      <4>5. proc'[p].step = "up" /\ proc'[p].pub = seed' /\ seed' # NoKey
        BY <2>2, <3>1, <4>4, Zenon
      <4> HIDE DEF r
      <4> QED
        BY <4>3, <4>4, <4>5 DEF KeyInv
    <3> QED
      BY <3>2, <3>3
  <2> QED
    BY <1>1, <2>3, <2>5, <2>6, <2>7, InvMoves DEF QueryInv
<1>9. ASSUME NEW p \in Procs, Close(p) \/ Die(p) PROVE QueryInv'
  <2>1. ProcBecomes(p, Down) /\ Down.signed = NoExport /\ Down.step = "down"
    BY <1>9 DEF Close, Die, SetProc, ProcBecomes, ProcRecord, Down
  <2>2. UNCHANGED <<seed, out, reader, keyRace, exports>>
    BY <1>9 DEF Close, Die, history
  <2> QED
    BY <1>3, <1>5, <2>1, <2>2
<1>16. ASSUME NEW p \in Procs, StartExport(p) PROVE QueryInv'
  <2> DEFINE r == [proc[p] EXCEPT !.step = "read"]
  <2>1. r.step = "read" /\ r.pub = proc[p].pub /\ r.signed = proc[p].signed /\ ProcRecord(r)
    BY <1>4, StepEdited
  <2>2. ProcBecomes(p, r) /\ UNCHANGED <<seed, out, reader, keyRace, exports>> /\ proc[p].step = "up"
    BY <1>16, <2>1 DEF StartExport, SetProc, ProcBecomes, history
  <2>3. keyRace \/ (proc[p].pub = seed /\ seed # NoKey)
    BY <1>1, <2>2 DEF KeyInv
  <2> HIDE DEF r
  <2> QED
    BY <1>3, <1>5, <2>1, <2>2, <2>3
<1>17. ASSUME NEW p \in Procs, NEW s \in Subjects, ReadSubject(p, s) PROVE QueryInv'
  BY <1>2, <1>17 DEF ReadSubject, history
<1>10. ASSUME NEW p \in Procs, WriteSnapshot(p) PROVE QueryInv'
  <2> DEFINE e == Signing(p)
             r == [step |-> "sign", pub |-> proc[p].pub, weights |-> proc[p].weights, signed |-> e]
  <2>1. /\ exports' = exports + 1 /\ out' = [out EXCEPT !.snapshot = e] /\ SetProc(p, r)
        /\ UNCHANGED <<seed, reader, keyRace>> /\ proc[p].step = "read"
    BY <1>10 DEF WriteSnapshot, Signing
  <2>2. r.step = "sign" /\ r.pub = proc[p].pub /\ r.signed = e /\ ProcRecord(r)
    BY DEF ProcRecord
  <2>3. ProcBecomes(p, r)
    BY <2>1, <2>2 DEF SetProc, ProcBecomes
  <2>4. out'.snapshot = e /\ out'.sig = out.sig /\ out' = [snapshot |-> out'.snapshot, sig |-> out'.sig]
    BY <1>5, <2>1
  <2>5. keyRace \/ (proc[p].pub = seed /\ seed # NoKey)
    BY <1>1, <2>1 DEF KeyInv
  <2>6. Snapshots' \subseteq Snapshots \cup {e}
    <3>1. proc'[p] = r /\ \A q \in Procs \ {p} : proc'[q] = proc[q]
      BY <1>1, <2>3, ShapeKept
    <3>2. proc'[p].signed = e
      BY <2>2, <3>1, Zenon
    <3> HIDE DEF e, r
    <3> QED
      BY <2>1, <2>4, <3>1, <3>2 DEF Snapshots
  <2>7. e.number = exports + 1 /\ e.key = seed /\ e.pub = proc[p].pub
    BY DEF Signing
  <2>8. Shape'
    BY <1>1, <2>1, <2>3, <2>4, ShapeKept DEF Shape
  <2>9. KeyInv'
    BY <1>1, <2>1, <2>2, <2>3, <2>5, ShapeKept DEF KeyInv
  <2>10. SnapshotInv'
    <3>1. exports \in Nat
      BY <1>1 DEF Shape
    <3>2. \A f \in Snapshots : f.number # e.number
      BY <1>1, <2>7, <3>1 DEF SnapshotInv
    <3>3. \A f \in Snapshots' : f.number \in 1 .. exports' /\ (f.key = f.pub \/ keyRace')
      BY <1>1, <2>1, <2>5, <2>6, <2>7, <3>1 DEF SnapshotInv
    <3>4. \A f, g \in Snapshots' : f.number = g.number => f = g
      BY <1>1, <2>6, <3>2 DEF SnapshotInv
    <3> QED
      BY <3>3, <3>4 DEF SnapshotInv
  <2> QED
    BY <2>8, <2>9, <2>10 DEF QueryInv
<1>11. ASSUME NEW p \in Procs, WriteSig(p) PROVE QueryInv'
  <2>1. ProcBecomes(p, Down) /\ Down.signed = NoExport /\ Down.step = "down"
    BY <1>11 DEF WriteSig, SetProc, ProcBecomes, ProcRecord, Down
  <2>2. out' = [out EXCEPT !.sig = proc[p].signed] /\ UNCHANGED <<seed, reader, keyRace, exports>>
    BY <1>11 DEF WriteSig, history
  <2>3. /\ out'.sig = proc[p].signed /\ out'.snapshot = out.snapshot
        /\ out' = [snapshot |-> out'.snapshot, sig |-> out'.sig]
    BY <1>5, <2>2
  <2> QED
    BY <1>3, <2>1, <2>2, <2>3
<1>12. ASSUME NEW c \in Calls, \/ \E r \in Receipts, a \in Agents : Submit(c, r, a)
                               \/ Fetch(c) \/ Persist(c)
       PROVE  QueryInv'
  BY <1>2, <1>12 DEF Submit, Fetch, Persist, history
<1>13. ASSUME NEW a \in Agents, Trust(a) PROVE QueryInv'
  BY <1>2, <1>13 DEF Trust, history
<1>14. CASE ReadSnapshot \/ ReadSig \/ \E r \in Receipts : Reply(r)
  BY <1>2, <1>14 DEF Reply, ReadSnapshot, ReadSig, history
<1>15. CASE UNCHANGED receiptsVars
  BY <1>2, <1>15 DEF receiptsVars, history
<1> QED
  BY <1>6, <1>7, <1>8, <1>9, <1>10, <1>11, <1>12, <1>13, <1>14, <1>15, <1>16, <1>17
     DEF ReceiptsNext, ProcessNext, RequestNext, QueryNext, Exports

\* QueryVerifies: a query answers only from a snapshot and the signature made for
\* it, and what is signed verifies unless two processes created the site key at
\* once (cli.ts:57-60, 89-100, indexer.ts:160-170, 399-413).
THEOREM QueryVerifiesAlways == ReceiptsSpec => []QueryVerifies
<1>1. ReceiptsInit => QueryInv
  <2> SUFFICES ASSUME ReceiptsInit PROVE QueryInv
    OBVIOUS
  <2>1. Snapshots = {}
    BY DEF ReceiptsInit, Snapshots, Down
  <2> QED
    BY <2>1 DEF ReceiptsInit, QueryInv, Shape, KeyInv, SnapshotInv, ProcRecord, Down
<1>2. QueryInv => QueryVerifies
  <2> SUFFICES ASSUME QueryInv PROVE QueryVerifies
    OBVIOUS
  <2>1. ASSUME Verifies(reader, out.sig) PROVE reader = out.sig
    <3>1. reader # NoExport /\ out.sig # NoExport /\ reader.number = out.sig.number
      BY <2>1 DEF Verifies, NoExport
    <3>2. reader \in Snapshots /\ out.sig \in Snapshots
      BY <3>1 DEF Snapshots
    <3> QED
      BY <3>1, <3>2 DEF QueryInv, SnapshotInv
  <2>2. \A e \in Snapshots : Verifies(e, e) \/ keyRace
    <3>1. \A e \in Snapshots : e.number # 0 /\ (e.key = e.pub \/ keyRace)
      BY DEF QueryInv, SnapshotInv, Shape
    <3> QED
      BY <3>1 DEF Verifies
  <2> QED
    BY <2>1, <2>2 DEF QueryVerifies
<1> QED
  BY <1>1, <1>2, QueryStep, PTL DEF ReceiptsSpec
-------------------------------------------------------------------------------
\* What was answered is indexed, each receipt id once.
RowsAnswered ==
  /\ IsFiniteSet(rows)
  /\ replying \cup answered \subseteq {row.receipt : row \in rows}
  /\ \A row, other \in rows : SameId(row.receipt, other.receipt) => row = other

\* A view counts the receipt ids it holds.
ViewOK(view) == view.count = Cardinality({r.id : r \in view.receipts})

\* What was read so far is right, and the subjects of what was answered before are
\* read or still to be read.
Gathers(g) ==
  /\ g.todo \subseteq Subjects /\ g.after \subseteq answered
  /\ \A r \in g.after :
       r.subject \in g.todo \/ (r.subject \in DOMAIN g.views /\ r \in g.views[r.subject].receipts)
  /\ \A s \in DOMAIN g.views : ViewOK(g.views[s])

GatherInv == gathered = [p \in Procs |-> gathered[p]] /\ \A p \in Procs : Gathers(gathered[p])

\* One snapshot counts what was answered before it.
Counts(views, after) ==
  /\ \A r \in after : r.subject \in DOMAIN views /\ r \in views[r.subject].receipts
  /\ \A s \in DOMAIN views : ViewOK(views[s])

CountInv ==
  /\ QueryInv /\ RowsOK /\ RowsAnswered /\ GatherInv
  /\ \A e \in Snapshots : Counts(e.views, e.after)

\* Rows of a subject and their receipt ids are as many.
LEMMA ViewCounts ==
  ASSUME RowsAnswered, NEW s, NEW w
  PROVE  /\ ViewOK(View(s, w))
         /\ \A r \in answered : r.subject = s => r \in View(s, w).receipts
<1> DEFINE of == {row \in rows : row.receipt.subject = s}
           receipts == {row.receipt : row \in of}
           ids == {r.id : r \in receipts}
           f == [row \in of |-> row.receipt.id]
<1>1. View(s, w).count = Cardinality(of) /\ View(s, w).receipts = receipts
  BY DEF View
<1>2. \A r \in answered : r.subject = s => r \in receipts
  BY DEF RowsAnswered
<1>3. IsFiniteSet(of)
  BY FS_Subset DEF RowsAnswered
<1>4. f \in [of -> ids]
  OBVIOUS
<1>5. \A row, other \in of : f[row] = f[other] => row = other
  BY DEF RowsAnswered, SameId
<1>6. \A id \in ids : \E row \in of : f[row] = id
  OBVIOUS
<1>7. ExistsBijection(of, ids)
  <2>1. IsInjective(f)
    BY <1>5 DEF IsInjective
  <2> HIDE DEF f, of, ids
  <2>2. f \in Injection(of, ids) /\ f \in Surjection(of, ids)
    BY <1>4, <1>6, <2>1 DEF Injection, Surjection
  <2> QED
    BY <2>2 DEF ExistsBijection, Bijection
<1>8. Cardinality(of) = Cardinality(ids)
  BY <1>3, <1>7, FS_Bijection
<1> HIDE DEF of, receipts
<1> QED
  BY <1>1, <1>2, <1>8 DEF ViewOK

LEMMA RowsAnsweredStep ==
  ASSUME RowsAnswered, [ReceiptsNext]_receiptsVars
  PROVE  RowsAnswered'
<1>1. ASSUME rows' = rows, replying' \cup answered' \subseteq replying \cup answered PROVE RowsAnswered'
  BY <1>1 DEF RowsAnswered
<1>2. ASSUME NEW c \in Calls, Persist(c) PROVE RowsAnswered'
  <2>1. CASE ~NotIndexed(call[c].receipt)
    BY <1>1, <1>2, <2>1 DEF Persist, InsertRow
  <2>2. CASE NotIndexed(call[c].receipt)
    <3> DEFINE new == NewRow(c)
    <3>1. new.receipt = call[c].receipt
      BY DEF NewRow
    <3>2. /\ rows' = rows \cup {new} /\ replying' = replying \cup {new.receipt}
          /\ answered' = answered
      BY <1>2, <2>2, <3>1 DEF Persist, InsertRow
    <3>3. \A row \in rows : ~SameId(row.receipt, new.receipt)
      BY <2>2, <3>1 DEF NotIndexed
    <3> HIDE DEF new
    <3>4. IsFiniteSet(rows')
      BY <3>2, FS_AddElement DEF RowsAnswered
    <3>5. \A row, other \in rows' : SameId(row.receipt, other.receipt) => row = other
      BY <3>2, <3>3 DEF RowsAnswered, SameId
    <3>6. replying' \cup answered' \subseteq {row.receipt : row \in rows'}
      BY <3>2 DEF RowsAnswered
    <3> QED
      BY <3>4, <3>5, <3>6 DEF RowsAnswered
  <2> QED
    BY <2>1, <2>2
<1>3. ASSUME NEW p \in Procs, Die(p) PROVE RowsAnswered'
  BY <1>1, <1>3 DEF Die, FirstWrite, inFlight
<1>4. ASSUME NEW c \in Calls, \/ \E r \in Receipts, a \in Agents : Submit(c, r, a)
                              \/ Fetch(c)
      PROVE  RowsAnswered'
  BY <1>1, <1>4 DEF Submit, Fetch, store, history
<1>5. ASSUME NEW a \in Agents, Trust(a) PROVE RowsAnswered'
  BY <1>1, <1>5 DEF Trust, inFlight, history
<1>6. ASSUME NEW p \in Procs, \/ \E w \in Weights : Load(p, w)
                              \/ FindKey(p) \/ Generate(p) \/ Close(p) \/ Exports(p)
      PROVE  RowsAnswered'
  BY <1>1, <1>6 DEF Load, FindKey, Generate, Close, Exports, StartExport, ReadSubject, WriteSnapshot,
                    WriteSig, inFlight, store, history
<1>7. CASE ReadSnapshot \/ ReadSig \/ \E r \in Receipts : Reply(r)
  BY <1>1, <1>7 DEF Reply, ReadSnapshot, ReadSig, store, inFlight, history
<1>8. CASE UNCHANGED receiptsVars
  BY <1>1, <1>8 DEF receiptsVars, store, inFlight, history
<1> QED
  BY <1>2, <1>3, <1>4, <1>5, <1>6, <1>7, <1>8 DEF ReceiptsNext, ProcessNext, RequestNext, QueryNext, Exports

LEMMA NoViews == DOMAIN <<>> = {} /\ Gathers(NotGathering)
<1>1. DOMAIN <<>> = {}
  OBVIOUS
<1> QED
  BY <1>1 DEF Gathers, NotGathering

\* What a step makes of one export.
LEMMA GatherKept ==
  ASSUME GatherInv, answered' = answered, NEW p \in Procs, NEW g, gathered' = [gathered EXCEPT ![p] = g],
         Gathers(g)
  PROVE  GatherInv'
<1>1. /\ gathered' = [q \in Procs |-> gathered'[q]]
      /\ \A q \in Procs : gathered'[q] = IF q = p THEN g ELSE gathered[q]
  BY DEF GatherInv
<1>2. \A q \in Procs : Gathers(gathered'[q])
  BY <1>1 DEF GatherInv
<1> QED
  BY <1>1, <1>2 DEF GatherInv, Gathers

LEMMA GatherStep ==
  ASSUME RowsOK, RowsAnswered, GatherInv, [ReceiptsNext]_receiptsVars
  PROVE  GatherInv'
<1>1. ASSUME gathered' = gathered, answered \subseteq answered' PROVE GatherInv'
  BY <1>1 DEF GatherInv, Gathers
<1>2. ASSUME NEW p \in Procs, StartExport(p) PROVE GatherInv'
  <2> DEFINE g == [todo |-> {row.receipt.subject : row \in rows}, views |-> <<>>, after |-> answered]
  <2>1. gathered' = [gathered EXCEPT ![p] = g] /\ answered' = answered
    BY <1>2 DEF StartExport, history
  <2>2. g.todo \subseteq Subjects
    BY DEF RowsOK, Row, Subjects
  <2>3. \A r \in answered : r.subject \in g.todo
    BY DEF RowsAnswered
  <2>4. Gathers(g)
    BY <2>2, <2>3, NoViews DEF Gathers
  <2> HIDE DEF g
  <2> QED
    BY <2>1, <2>4, GatherKept
<1>3. ASSUME NEW p \in Procs, NEW s \in Subjects, ReadSubject(p, s) PROVE GatherInv'
  <2> DEFINE old == gathered[p]
             view == View(s, proc[p].weights)
             views == [x \in DOMAIN old.views \cup {s} |-> IF x = s THEN view ELSE old.views[x]]
             g == [todo |-> old.todo \ {s}, after |-> old.after, views |-> views]
  <2>1. gathered' = [gathered EXCEPT ![p] = g] /\ answered' = answered
    BY <1>3 DEF ReadSubject, history
  <2>2. Gathers(old) /\ ViewOK(view) /\ \A r \in answered : r.subject = s => r \in view.receipts
    BY ViewCounts DEF GatherInv
  <2>3. /\ DOMAIN views = DOMAIN old.views \cup {s} /\ views[s] = view
        /\ \A x \in DOMAIN old.views : x # s => views[x] = old.views[x]
    OBVIOUS
  <2>4. g.todo = old.todo \ {s} /\ g.after = old.after /\ g.views = views
    OBVIOUS
  <2> HIDE DEF g, views, view, old
  <2>5. Gathers(g)
    <3>1. ASSUME NEW r \in g.after
          PROVE  r.subject \in g.todo \/ (r.subject \in DOMAIN g.views /\ r \in g.views[r.subject].receipts)
      <4>1. CASE r.subject = s
        BY <2>2, <2>3, <2>4, <4>1 DEF Gathers
      <4>2. CASE r.subject # s
        BY <2>2, <2>3, <2>4, <4>2 DEF Gathers
      <4> QED
        BY <4>1, <4>2
    <3>2. \A x \in DOMAIN g.views : ViewOK(g.views[x])
      BY <2>2, <2>3, <2>4 DEF Gathers
    <3> QED
      BY <2>2, <2>4, <3>1, <3>2 DEF Gathers
  <2> QED
    BY <2>1, <2>5, GatherKept
<1>4. ASSUME NEW p \in Procs, WriteSnapshot(p) \/ Die(p) PROVE GatherInv'
  <2>1. gathered' = [gathered EXCEPT ![p] = NotGathering] /\ answered' = answered
    BY <1>4 DEF WriteSnapshot, Die
  <2> QED
    BY <2>1, NoViews, GatherKept
<1>5. ASSUME NEW r \in Receipts, Reply(r) PROVE GatherInv'
  BY <1>1, <1>5 DEF Reply
<1>6. ASSUME NEW c \in Calls, \/ \E r \in Receipts, a \in Agents : Submit(c, r, a)
                              \/ Fetch(c) \/ Persist(c)
      PROVE  GatherInv'
  BY <1>1, <1>6 DEF Submit, Fetch, Persist, history
<1>7. ASSUME NEW a \in Agents, Trust(a) PROVE GatherInv'
  BY <1>1, <1>7 DEF Trust, history
<1>8. ASSUME NEW p \in Procs, \/ \E w \in Weights : Load(p, w)
                              \/ FindKey(p) \/ Generate(p) \/ Close(p) \/ WriteSig(p)
      PROVE  GatherInv'
  BY <1>1, <1>8 DEF Load, FindKey, Generate, Close, WriteSig, history
<1>9. CASE ReadSnapshot \/ ReadSig \/ UNCHANGED receiptsVars
  BY <1>1, <1>9 DEF ReadSnapshot, ReadSig, receiptsVars, history
<1> QED
  BY <1>2, <1>3, <1>4, <1>5, <1>6, <1>7, <1>8, <1>9 DEF ReceiptsNext, ProcessNext, RequestNext, QueryNext

\* A snapshot that was not there has just been made from what was read.
LEMMA SnapshotOrigin ==
  ASSUME QueryInv, [ReceiptsNext]_receiptsVars
  PROVE  \A e \in Snapshots' : e \in Snapshots \/ \E p \in Procs : e = Signing(p) /\ gathered[p].todo = {}
<1> USE AllKnown
<1>1. Shape /\ \A p \in Procs : ProcRecord(proc[p])
  BY DEF QueryInv, Shape
<1>2. out = [snapshot |-> out.snapshot, sig |-> out.sig]
  BY <1>1 DEF Shape
<1>3. ASSUME NEW p \in Procs, NEW r, proc' = [proc EXCEPT ![p] = r], r.signed \in Known,
             {out'.snapshot, out'.sig, reader'} \subseteq Known
      PROVE  Snapshots' \subseteq Snapshots
  <2>1. proc'[p] = r /\ \A q \in Procs \ {p} : proc'[q] = proc[q]
    BY <1>1, <1>3 DEF Shape
  <2> QED
    BY <1>3, <2>1 DEF Snapshots, Known
<1>4. ASSUME NEW p \in Procs, NEW w \in Weights, Load(p, w) PROVE Snapshots' \subseteq Snapshots
  BY <1>3, <1>4 DEF Load, SetProc
<1>5. ASSUME NEW p \in Procs, FindKey(p) PROVE Snapshots' \subseteq Snapshots
  <2>1. UNCHANGED <<out, reader>>
    BY <1>5 DEF FindKey
  <2>2. CASE \E step : SetProc(p, [proc[p] EXCEPT !.step = step])
    <3>1. PICK step : SetProc(p, [proc[p] EXCEPT !.step = step])
      BY <2>2
    <3>2. [proc[p] EXCEPT !.step = step].signed = proc[p].signed
      BY <1>1, StepEdited
    <3> QED
      BY <1>3, <2>1, <3>1, <3>2 DEF SetProc
  <2>3. CASE SetProc(p, Down)
    BY <1>3, <2>1, <2>3 DEF SetProc, Down
  <2> QED
    BY <1>5, <2>2, <2>3 DEF FindKey
<1>6. ASSUME NEW p \in Procs, Generate(p) PROVE Snapshots' \subseteq Snapshots
  <2>1. PICK k \in Keys :
          SetProc(p, [step |-> "up", pub |-> k, weights |-> proc[p].weights, signed |-> NoExport])
    BY <1>6 DEF Generate
  <2>2. UNCHANGED <<out, reader>>
    BY <1>6 DEF Generate
  <2> QED
    BY <1>3, <2>1, <2>2 DEF SetProc
<1>7. ASSUME NEW p \in Procs, Close(p) \/ Die(p) PROVE Snapshots' \subseteq Snapshots
  BY <1>3, <1>7 DEF Close, Die, SetProc, Down
<1>8. ASSUME NEW p \in Procs, WriteSnapshot(p) PROVE Snapshots' \subseteq Snapshots \cup {Signing(p)} /\ gathered[p].todo = {}
  <2> DEFINE e == Signing(p)
             r == [step |-> "sign", pub |-> proc[p].pub, weights |-> proc[p].weights, signed |-> e]
  <2>1. /\ out' = [out EXCEPT !.snapshot = e] /\ SetProc(p, r) /\ UNCHANGED reader
        /\ gathered[p].todo = {}
    BY <1>8 DEF WriteSnapshot, Signing
  <2>2. r.signed = e
    OBVIOUS
  <2> HIDE DEF e, r
  <2>3. out'.snapshot = e /\ out'.sig = out.sig
    BY <1>2, <2>1
  <2>4. proc'[p] = r /\ \A q \in Procs \ {p} : proc'[q] = proc[q]
    BY <1>1, <2>1 DEF Shape, SetProc
  <2>5. Snapshots' \subseteq Snapshots \cup {e}
    BY <2>1, <2>2, <2>3, <2>4 DEF Snapshots
  <2> QED
    BY <2>1, <2>5 DEF e
<1>15. ASSUME NEW p \in Procs, StartExport(p) PROVE Snapshots' \subseteq Snapshots
  <2>1. SetProc(p, [proc[p] EXCEPT !.step = "read"]) /\ UNCHANGED <<out, reader>>
    BY <1>15 DEF StartExport
  <2>2. [proc[p] EXCEPT !.step = "read"].signed = proc[p].signed
    BY <1>1, StepEdited
  <2> QED
    BY <1>3, <2>1, <2>2 DEF SetProc
<1>9. ASSUME NEW p \in Procs, WriteSig(p) PROVE Snapshots' \subseteq Snapshots
  <2>1. out'.sig = proc[p].signed /\ out'.snapshot = out.snapshot /\ UNCHANGED reader
    BY <1>2, <1>9 DEF WriteSig
  <2> QED
    <3>1. proc' = [proc EXCEPT ![p] = Down] /\ Down.signed = NoExport
      BY <1>9 DEF WriteSig, SetProc, Down
    <3> QED
      BY <1>3, <2>1, <3>1
<1>10. ASSUME proc' = proc, out' = out, reader' \in Known PROVE Snapshots' \subseteq Snapshots
  BY <1>10 DEF Snapshots, Known
<1>11. ASSUME NEW c \in Calls, \/ \E r \in Receipts, a \in Agents : Submit(c, r, a)
                               \/ Fetch(c) \/ Persist(c)
       PROVE  Snapshots' \subseteq Snapshots
  BY <1>10, <1>11 DEF Submit, Fetch, Persist
<1>16. ASSUME NEW p \in Procs, NEW s \in Subjects, ReadSubject(p, s) PROVE Snapshots' \subseteq Snapshots
  BY <1>10, <1>16 DEF ReadSubject
<1>12. ASSUME NEW a \in Agents, Trust(a) PROVE Snapshots' \subseteq Snapshots
  BY <1>10, <1>12 DEF Trust
<1>13. CASE ReadSnapshot \/ ReadSig \/ \E r \in Receipts : Reply(r)
  BY <1>10, <1>13 DEF Reply, ReadSnapshot, ReadSig
<1>14. CASE UNCHANGED receiptsVars
  BY <1>10, <1>14 DEF receiptsVars
<1> QED
  BY <1>4, <1>5, <1>6, <1>7, <1>8, <1>9, <1>11, <1>12, <1>13, <1>14, <1>15, <1>16
     DEF ReceiptsNext, ProcessNext, RequestNext, QueryNext

LEMMA CountStep == CountInv /\ [ReceiptsNext]_receiptsVars => CountInv'
<1> SUFFICES ASSUME CountInv, [ReceiptsNext]_receiptsVars PROVE CountInv'
  OBVIOUS
<1>1. QueryInv' /\ RowsOK' /\ RowsAnswered' /\ GatherInv'
  BY QueryStep, RowsStep, RowsAnsweredStep, GatherStep DEF CountInv
<1>2. ASSUME NEW p \in Procs, gathered[p].todo = {}
      PROVE  Counts(Signing(p).views, Signing(p).after)
  BY <1>2 DEF CountInv, GatherInv, Gathers, Counts, Signing
<1>3. \A e \in Snapshots' : Counts(e.views, e.after)
  BY <1>2, SnapshotOrigin DEF CountInv
<1> QED
  BY <1>1, <1>3 DEF CountInv, Counts, ViewOK

LEMMA CountInitial == ReceiptsInit => CountInv
<1> SUFFICES ASSUME ReceiptsInit PROVE CountInv
  OBVIOUS
<1>1. Snapshots = {}
  BY DEF ReceiptsInit, Snapshots, Down
<1>2. QueryInv
  BY <1>1 DEF ReceiptsInit, QueryInv, Shape, KeyInv, SnapshotInv, ProcRecord, Down
<1>3. RowsAnswered
  BY FS_EmptySet DEF ReceiptsInit, RowsAnswered
<1>4. GatherInv
  BY NoViews DEF ReceiptsInit, GatherInv
<1>5. RowsOK
  BY DEF ReceiptsInit, RowsOK
<1> QED
  BY <1>1, <1>2, <1>3, <1>4, <1>5 DEF CountInv

\* SnapshotCountsAnswered: a receipt answered "indexed" is in every snapshot whose
\* export begins afterwards, in whatever process, although rows are inserted between
\* the reads of the export; and a snapshot counts every receipt id of a subject once, for
\* any number of submissions that overlap, processes and deaths
\* (indexer.ts:269-284, 316-345, 389-413).
THEOREM SnapshotCountsAnsweredAlways == ReceiptsSpec => []SnapshotCountsAnswered
<1>1. CountInv => SnapshotCountsAnswered
  BY Zenon DEF CountInv, Counts, ViewOK, SnapshotCountsAnswered
<1> QED
  BY <1>1, CountInitial, CountStep, PTL DEF ReceiptsSpec

-------------------------------------------------------------------------------
(* Types *)

\* What the invariants above leave open.
RestTyped ==
  /\ trusted \subseteq Agents /\ deals \subseteq Deals /\ served \subseteq Deals
  /\ seed \in Keys \cup {NoKey}
  /\ \A p \in Procs : /\ proc[p].step \in {"down", "loaded", "generate", "up", "read", "sign"}
                      /\ proc[p].pub \in Keys \cup {NoKey} /\ proc[p].weights \in Weights \cup {Absent}
  /\ keyRace \in BOOLEAN /\ exports <= MaxExports
  /\ clashed \subseteq Receipts /\ answered \subseteq Receipts /\ replying \subseteq Receipts

\* A request that waits for a fetch cites a deal.
Citing == \A c \in Calls : call[c] # Absent /\ call[c].tier = Absent => call[c].receipt.deal \in Deals

TypedInv == CountInv /\ RowsOK /\ RestTyped /\ Citing

LEMMA CitingStep == RowsOK /\ Citing /\ [ReceiptsNext]_receiptsVars => Citing'
<1> SUFFICES ASSUME RowsOK, Citing, [ReceiptsNext]_receiptsVars PROVE Citing'
  OBVIOUS
<1>1. ASSUME NEW c \in Calls, NEW r \in Receipts, NEW a \in Agents, Submit(c, r, a) PROVE Citing'
  <2>1. EvidenceAtHand(r) = Absent => r.deal \in Deals
    <3>1. Absent \notin {"bundle", "referenced", "none"}
      BY ReceiptsAssumption DEF Tiers
    <3>2. EvidenceAtHand(r) = Absent => HasDealRef(r)
      BY <3>1 DEF EvidenceAtHand
    <3> QED
      BY <3>2, ReceiptsAssumption DEF HasDealRef
  <2> QED
    BY <1>1, <2>1 DEF Submit, RowsOK, Citing
<1>2. ASSUME NEW c \in Calls, Fetch(c) PROVE Citing'
  <2>1. call[c] \in Request /\ call[c].receipt.deal \in Deals
    BY <1>2 DEF Fetch, RowsOK, Citing
  <2>2. PICK r : /\ call' = [call EXCEPT ![c] = r]
                 /\ r \in {[call[c] EXCEPT !.tier = "none"], [call[c] EXCEPT !.left = @ - 1],
                           [call[c] EXCEPT !.tier = "referenced"]}
    BY <1>2 DEF Fetch
  <2>3. r.receipt = call[c].receipt
    BY <2>1, <2>2 DEF Request
  <2> QED
    BY <2>1, <2>2, <2>3 DEF RowsOK, Citing
<1>6. ASSUME NEW c \in Calls, Persist(c) PROVE Citing'
  BY <1>6 DEF Persist, RowsOK, Citing
<1>3. ASSUME NEW p \in Procs, Die(p) PROVE Citing'
  BY <1>3 DEF Die, Citing, inFlight
<1>4. CASE UNCHANGED call
  BY <1>4 DEF Citing
<1>5. CASE \/ \E p \in Procs : \/ \E w \in Weights : Load(p, w)
                               \/ FindKey(p) \/ Generate(p) \/ Close(p) \/ Exports(p)
           \/ \E a \in Agents : Trust(a)
           \/ ReadSnapshot \/ ReadSig \/ (\E r \in Receipts : Reply(r)) \/ UNCHANGED receiptsVars
  BY <1>4, <1>5 DEF Reply, Load, FindKey, Generate, Close, Exports, StartExport, ReadSubject, WriteSnapshot, WriteSig, inFlight, Trust, ReadSnapshot, ReadSig,
                    receiptsVars
<1> QED
  BY <1>1, <1>2, <1>3, <1>5, <1>6 DEF ReceiptsNext, ProcessNext, RequestNext, QueryNext, Exports

\* What a step makes of one process.
LEMMA ProcTyped ==
  ASSUME Shape, RestTyped, NEW p \in Procs, NEW r, ProcBecomes(p, r),
         r.step \in {"down", "loaded", "generate", "up", "read", "sign"},
         r.pub \in Keys \cup {NoKey}, r.weights \in Weights \cup {Absent}
  PROVE  \A q \in Procs : /\ proc'[q].step \in {"down", "loaded", "generate", "up", "read", "sign"}
                          /\ proc'[q].pub \in Keys \cup {NoKey} /\ proc'[q].weights \in Weights \cup {Absent}
  BY ShapeKept DEF RestTyped

LEMMA RestTypedStep ==
  QueryInv /\ RowsOK /\ RestTyped /\ Citing /\ [ReceiptsNext]_receiptsVars => RestTyped'
<1> SUFFICES ASSUME QueryInv, RowsOK, RestTyped, Citing, [ReceiptsNext]_receiptsVars PROVE RestTyped'
  OBVIOUS
<1>1. Shape /\ exports \in Nat /\ MaxExports \in Nat
  BY ReceiptsAssumption DEF QueryInv, Shape
<1>2. Down.step = "down" /\ Down.pub = NoKey /\ Down.weights = Absent /\ ProcRecord(Down)
  BY DEF Down, ProcRecord
<1>3. ASSUME NEW p \in Procs, NEW w \in Weights, Load(p, w) PROVE RestTyped'
  <2> DEFINE r == [step |-> "loaded", pub |-> seed, weights |-> w, signed |-> NoExport]
  <2>1. ProcBecomes(p, r) /\ r.step = "loaded" /\ r.pub = seed /\ r.weights = w
    BY <1>3 DEF Load, SetProc, ProcBecomes, ProcRecord
  <2>2. UNCHANGED <<trusted, deals, served, seed, keyRace, exports, clashed, answered, replying>>
    BY <1>3 DEF Load, store, inFlight, history
  <2> HIDE DEF r
  <2> QED
    BY <1>1, <2>1, <2>2, ProcTyped DEF RestTyped
<1>4. ASSUME NEW p \in Procs, FindKey(p) PROVE RestTyped'
  <2>1. UNCHANGED <<trusted, deals, served, seed, keyRace, exports, clashed, answered, replying>>
    BY <1>4 DEF FindKey, store, inFlight, history
  <2>2. PICK r : proc' = [proc EXCEPT ![p] = r] /\ r \in {[proc[p] EXCEPT !.step = "generate"], Down, [proc[p] EXCEPT !.step = "up"]}
    BY <1>4 DEF FindKey, SetProc
  <2>3. ProcBecomes(p, r) /\ r.step \in {"down", "generate", "up"} /\ r.pub \in Keys \cup {NoKey}
        /\ r.weights \in Weights \cup {Absent}
    <3>1. proc[p] = [step |-> proc[p].step, pub |-> proc[p].pub, weights |-> proc[p].weights,
                     signed |-> proc[p].signed]
      BY <1>1 DEF Shape, ProcRecord
    <3>2. \/ r = Down
          \/ r = [step |-> "generate", pub |-> proc[p].pub, weights |-> proc[p].weights, signed |-> proc[p].signed]
          \/ r = [step |-> "up", pub |-> proc[p].pub, weights |-> proc[p].weights, signed |-> proc[p].signed]
      BY <2>2, <3>1
    <3> QED
      BY <1>2, <2>2, <3>2 DEF ProcBecomes, ProcRecord, RestTyped
  <2> QED
    BY <1>1, <2>1, <2>3, ProcTyped DEF RestTyped
<1>5. ASSUME NEW p \in Procs, Generate(p) PROVE RestTyped'
  <2>1. PICK k \in Keys : seed' = k /\ SetProc(p, [step |-> "up", pub |-> k, weights |-> proc[p].weights,
                                                  signed |-> NoExport])
    BY <1>5 DEF Generate
  <2> DEFINE r == [step |-> "up", pub |-> k, weights |-> proc[p].weights, signed |-> NoExport]
  <2>2. ProcBecomes(p, r) /\ r.step = "up" /\ r.pub = k /\ r.weights = proc[p].weights
    BY <2>1 DEF SetProc, ProcBecomes, ProcRecord
  <2>3. UNCHANGED <<trusted, deals, served, exports, clashed, answered, replying>>
        /\ keyRace' = (keyRace \/ \E q \in Procs \ {p} : proc[q].step = "generate")
    BY <1>5 DEF Generate, store, inFlight
  <2> HIDE DEF r
  <2> QED
    BY <1>1, <2>1, <2>2, <2>3, ProcTyped DEF RestTyped
<1>6. ASSUME NEW p \in Procs, Close(p) \/ WriteSig(p) PROVE RestTyped'
  <2>1. ProcBecomes(p, Down) /\ UNCHANGED <<trusted, deals, served, seed, keyRace, exports, clashed, answered, replying>>
    BY <1>2, <1>6 DEF Close, WriteSig, SetProc, ProcBecomes, store, inFlight, history
  <2> QED
    BY <1>1, <1>2, <2>1, ProcTyped DEF RestTyped
<1>7. ASSUME NEW p \in Procs, Die(p) PROVE RestTyped'
  <2>1. ProcBecomes(p, Down) /\ UNCHANGED <<trusted, deals, served, seed, keyRace, exports, answered>>
        /\ replying' \subseteq replying
    BY <1>2, <1>7 DEF Die, SetProc, ProcBecomes, inFlight
  <2>2. clashed' \subseteq Receipts
    BY <1>7 DEF Die, FirstWrite, Decided, RowsOK, Request, RestTyped
  <2> QED
    BY <1>1, <1>2, <2>1, <2>2, ProcTyped DEF RestTyped
<1>8. ASSUME NEW p \in Procs, WriteSnapshot(p) PROVE RestTyped'
  <2> DEFINE e == Signing(p)
             r == [step |-> "sign", pub |-> proc[p].pub, weights |-> proc[p].weights, signed |-> e]
  <2>1. /\ SetProc(p, r) /\ exports' = exports + 1 /\ exports < MaxExports
        /\ UNCHANGED <<trusted, deals, served, seed, keyRace, clashed, answered, replying>>
    BY <1>8 DEF WriteSnapshot, Signing, store, inFlight
  <2> HIDE DEF e
  <2>2. ProcBecomes(p, r) /\ r.step = "sign" /\ r.pub = proc[p].pub /\ r.weights = proc[p].weights
    BY <2>1 DEF SetProc, ProcBecomes, ProcRecord
  <2> HIDE DEF r
  <2> QED
    BY <1>1, <2>1, <2>2, ProcTyped DEF RestTyped
<1>9. ASSUME NEW c \in Calls, NEW r \in Receipts, NEW a \in Agents, Submit(c, r, a) PROVE RestTyped'
  BY <1>9 DEF Submit, RestTyped, store, inFlight, history
<1>10. ASSUME NEW c \in Calls, Fetch(c) PROVE RestTyped'
  <2>1. call[c].receipt.deal \in Deals
    BY <1>10 DEF Fetch, Citing
  <2>2. UNCHANGED <<trusted, deals, seed, proc, keyRace, exports, clashed, answered, replying>> /\ served' \subseteq Deals
    BY <1>10, <2>1 DEF Fetch, store, RestTyped
  <2> QED
    BY <2>2 DEF RestTyped
<1>11. ASSUME NEW c \in Calls, Persist(c) PROVE RestTyped'
  <2>1. call[c].receipt \in Receipts /\ call[c].signer \in Agents
    BY <1>11 DEF Persist, Decided, RowsOK, Request
  <2>2. UNCHANGED <<trusted, deals, served, seed, proc, keyRace, exports>>
    BY <1>11 DEF Persist
  <2>3. clashed' \subseteq Receipts /\ answered' \subseteq Receipts /\ replying' \subseteq Receipts
    BY <1>11, <2>1 DEF Persist, RestTyped
  <2> QED
    BY <2>2, <2>3 DEF RestTyped
<1>12. ASSUME NEW a \in Agents, Trust(a) PROVE RestTyped'
  BY <1>12 DEF Trust, RestTyped, inFlight, history
<1>13. CASE ReadSnapshot \/ ReadSig \/ UNCHANGED receiptsVars
  BY <1>13 DEF ReadSnapshot, ReadSig, receiptsVars, RestTyped, store, inFlight, history
<1>14. ASSUME NEW p \in Procs, StartExport(p) PROVE RestTyped'
  <2>1. proc' = [proc EXCEPT ![p] = [proc[p] EXCEPT !.step = "read"]]
        /\ UNCHANGED <<trusted, deals, served, seed, keyRace, exports, clashed, answered, replying>>
    BY <1>14 DEF StartExport, SetProc, store, inFlight, history
  <2> DEFINE r == [step |-> "read", pub |-> proc[p].pub, weights |-> proc[p].weights,
                   signed |-> proc[p].signed]
  <2>2. proc[p] = [step |-> proc[p].step, pub |-> proc[p].pub, weights |-> proc[p].weights,
                   signed |-> proc[p].signed]
    BY <1>1 DEF Shape, ProcRecord
  <2>3. [proc[p] EXCEPT !.step = "read"] = r
    BY <2>2
  <2>4. ProcBecomes(p, r) /\ r.step = "read" /\ r.pub = proc[p].pub /\ r.weights = proc[p].weights
    BY <2>1, <2>3 DEF ProcBecomes, ProcRecord
  <2> HIDE DEF r
  <2> QED
    BY <1>1, <2>1, <2>4, ProcTyped DEF RestTyped
<1>15. ASSUME NEW p \in Procs, NEW s \in Subjects, ReadSubject(p, s) PROVE RestTyped'
  BY <1>15 DEF ReadSubject, RestTyped, store, inFlight, history
<1>16. ASSUME NEW r \in Receipts, Reply(r) PROVE RestTyped'
  BY <1>16 DEF Reply, RestTyped, store
<1> QED
  BY <1>3, <1>4, <1>5, <1>6, <1>7, <1>8, <1>9, <1>10, <1>11, <1>12, <1>13, <1>14, <1>15, <1>16
     DEF ReceiptsNext, ProcessNext, RequestNext, QueryNext, Exports

LEMMA TypedStep == TypedInv /\ [ReceiptsNext]_receiptsVars => TypedInv'
  BY CountStep, RowsStep, RestTypedStep, CitingStep DEF TypedInv, CountInv

LEMMA TypedGood == TypedInv => ReceiptsTypeOK
<1> SUFFICES ASSUME TypedInv PROVE ReceiptsTypeOK
  OBVIOUS
<1>1. Shape /\ RowsOK /\ RestTyped /\ \A e \in Snapshots : e.number \in 1 .. exports
  BY DEF TypedInv, CountInv, QueryInv, SnapshotInv
<1>2. out \in [snapshot : Known, sig : Known]
  BY <1>1, AllKnown DEF Shape
<1>3. proc \in [Procs -> [step : {"down", "loaded", "generate", "up", "read", "sign"},
                          pub : Keys \cup {NoKey}, weights : Weights \cup {Absent}, signed : Known]]
  <2>1. ASSUME NEW p \in Procs
        PROVE  proc[p] \in [step : {"down", "loaded", "generate", "up", "read", "sign"},
                            pub : Keys \cup {NoKey}, weights : Weights \cup {Absent}, signed : Known]
    <3>1. /\ proc[p].step \in {"down", "loaded", "generate", "up", "read", "sign"}
          /\ proc[p].pub \in Keys \cup {NoKey} /\ proc[p].weights \in Weights \cup {Absent}
          /\ proc[p].signed \in Known
      BY <1>1, AllKnown DEF RestTyped
    <3>2. proc[p] = [step |-> proc[p].step, pub |-> proc[p].pub, weights |-> proc[p].weights,
                     signed |-> proc[p].signed]
      BY <1>1 DEF Shape, ProcRecord
    <3> QED
      BY <3>1, <3>2
  <2> QED
    BY <1>1, <2>1 DEF Shape
<1>4. exports \in 0 .. MaxExports
  BY <1>1, ReceiptsAssumption DEF Shape, RestTyped
<1> QED
  BY <1>1, <1>2, <1>3, <1>4 DEF RowsOK, RestTyped, TypedInv, CountInv, GatherInv, Gathers, ReceiptsTypeOK
LEMMA TypedInitial == ReceiptsInit => TypedInv
<1> SUFFICES ASSUME ReceiptsInit PROVE TypedInv
  OBVIOUS
<1>1. Down.step = "down" /\ Down.pub = NoKey /\ Down.weights = Absent
  BY DEF Down
<1>2. /\ trusted = {} /\ deals \subseteq Deals /\ served = {} /\ seed \in {NoKey, 1} /\ keyRace = FALSE
      /\ exports = 0 /\ clashed = {} /\ answered = {} /\ replying = {} /\ \A p \in Procs : proc[p] = Down
  BY DEF ReceiptsInit
<1>3. exports <= MaxExports /\ seed \in Keys \cup {NoKey}
  BY <1>2, ReceiptsAssumption DEF Keys
<1>4. RestTyped
  BY <1>1, <1>2, <1>3 DEF RestTyped
<1> QED
  BY <1>4, CountInitial DEF ReceiptsInit, TypedInv, RowsOK, Citing
===============================================================================
