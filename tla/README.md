# TLA+ models of agent-native-trade

Agents trade with each other by exchanging signed files. Every party keeps its
own copy of a trade in a local store, pays through a settlement adapter, and is
woken by an inbox daemon when a message arrives. There is no server that orders
anything: what has to be right is what each local process does with events that
arrive late, twice, out of order or not at all, between its own writes, awaits,
failures and restarts. The modules here model that.

## 1. Inventory

| component | state it keeps | operations | what makes it hard | what makes it correct |
|---|---|---|---|---|
| trade state machine (`packages/local-store/src/state.ts`) | none; a position is (state, state before a dispute) | `transition` | long chains of disputes, resolutions, cancellations | stages in order, disputes return where they came from, ends are final |
| local store (`packages/local-store/src/store.ts`) | fact files `.data/objects`, SQLite tables `events` and `trades`, key ring | `applyEvent`, `putObject`, `stateOf`, `rebuildIndex`, `saveKey`, `savePeerKey` | three writes with no transaction, retries, two processes, rebuild from files | the table says what the signed facts say; a rebuild loses nothing |
| settlement (`adapters/settlement`) | in memory: voucher registry, voucher and task per trade | `request`, `confirm` of test-voucher and manual-settlement | memory and disk disagree after a failure; deals presented twice or changed | pays once, what was asked, on evidence that stands |
| human-task (`adapters/human-task`, `apps/mcp-server/src/in-memory-tasks.ts`) | task files, SQLite mirror | `create`, `complete`, `cancel`, `toEvent`, `list` | two processes, no lock | a done task stays done |
| wake queue (`packages/contact-core`) | directories `pending/`, `done/`, `.tmp/` | `enqueue`, `ack`, `listPending`, `get` | several writers and readers, no lock | a message is accepted once |
| AgentMail adapter (`adapters/contact-agentmail`) | per watch: socket, done promise, delivery chain, connect timer | `watch`, `close`, `send`, `reply`, `getMessage` | listeners, timers and deliveries in any order | a watch ends, once, and only after its deliveries |
| inbox daemon (`apps/trade-inboxd`) | active watch, abort signal, delay, running commands | `run`, `stop`, `receive` | overlapping connections, stop at any await, crash | no message lost, never deaf, always stoppable |
| MCP server (`apps/mcp-server`) | a store, a task store, adapters, policy | the tools: deals, events, settlement, receipts, tasks | two parties' stores know each other only by mail, late, twice, reordered | stores with the same events agree; no signature is lost by accident |
| demo indexer (`apps/demo-indexer`) | SQLite table `receipts`, fact files, site key, exported snapshot and signature | `submitReceipt`, pricing, `exportSnapshot`, `query` | evidence is awaited between check and insert; server and export command share a directory | what is answered is counted, its tier is earned, a query answers what was signed |
| station (`apps/station`) | publisher: seeder, listed version, timer; indexer: state file, key ring, receipts index; integrator: topic, member archives, seeders | publish, watch, announce, refresh, stop; every HTTP handler | overlapping activities at every await; one state file rewritten in place; keys pinned on first use | what is announced is served; what is accepted stays and verifies; one live seeder, none after stop |
| email adapter, maildrop (`adapters/email`, `integrations/deepseek-harness/plugin/src/maildrop.ts`) | set of seen ids and its file, inbox and mailbox directories | `poll`, `send` | overlapping polls, crash before save, two senders and no lock | each message is delivered once, with its own attachment |
| plugin daemon (`integrations/deepseek-harness/plugin`) | `app.seeds`, a store, bundle directories | `catalog_search`, `catalog_get_item`, `trade_broadcast_receipt`, `trade_contact_seller` | several indexers that fail, change between two requests, or are something else; broadcasts that overlap | what is shown is what the hash covers; one seeder per receipt |
| signed-files, identity | none | canonicalise, hash, sign, verify | strings and bytes | test vectors of the repository |
| bt-catalog | none of its own | `seed`, `download` | WebTorrent | external |

How they interact: the MCP server's tools call the store and the settlement
adapters; the adapters build an event, sign it and call `applyEvent`, and create
human tasks through the injected task store; `toEvent` of a task returns an
event that is applied like any other. The inbox daemon calls the AgentMail
adapter, which calls back into `receive`; that calls the queue and starts the
trigger command. Agents acknowledge tasks from other processes, through the
daemon's CLI or the harness plugin. A publisher or an integrator seeds over
BitTorrent, writes archives that a mirror serves, and posts LISTING_REFs to
indexers; a station in the role of an indexer opens the receipts index of the
demo indexer on its own directory. The plugin daemon asks indexers over HTTP,
polls a mailbox through the email adapter, and posts receipts. Between two
parties there are only mails with signed files.

`PROJECT.json` lists, under `hazards`, each place where this can go wrong and
would hardly be tested, with the property that watches it or the reason why none
does.

## 2. The modules

| module | models |
|---|---|
| `TradeState` | the transition table: `Allowed` is FALSE where `transition` throws, `Transition` is what it returns |
| `TradeContract` | abstract specification: the life of a trade as its readers see it |
| `LocalStore` | `applyEvent` as check, fact file, event row, trade row; `putObject`; a stop at any of them; `rebuildIndex` as wipe, insert, group, replay, row, end or failure; any number of processes |
| `StoreProperties` | what the store should guarantee, the refinement of `TradeContract`, the inductive invariant |
| `TradeStateProofs`, `LocalStoreProofs` | proofs |
| `Settlement` | both adapters, human tasks changed by several processes, events recorded with the caller's evidence, restarts, failing stores |
| `SettlementProofs` | proofs |
| `WakeQueue` | `enqueue` and `ack`, await by await |
| `Inbox` | extends `WakeQueue` with sockets, watches, deliveries, the supervising loop, stop, crash |
| `InboxProofs` | proofs |
| `Agent` | composes the store, `Settlement` and `Inbox` |
| `StationContext` | a station's process: role, start, stop, death, overlap of its activities |
| `Listings` | the indexer: announcements, key ring, state file, cards and archives, tag search |
| `Publisher` | the publisher: read, seed, sign, mirror, announce, watch |
| `Integrator` | the integrator: members, topic, download, archive, seed again |
| `Station` | composes the three roles; the role is chosen in the initial state |
| `StationProofs` | proofs |
| `Exchange` | two or more parties, a store each, their events sent by mail |
| `ExchangeProofs` | proofs |
| `Mail` | the mailbox directory, its senders, polls of the daemon, the seen store |
| `Receipts` | the receipts index: submission around its await, tiers, snapshots, export, query |
| `ReceiptsProofs` | proofs |
| `Discovery` | search and lookup over several indexers; broadcast of a receipt |
| `Tasks` | the human-task files of a directory and their mirror: two processes, no lock |
| `Peers` | composes `Exchange`, `Mail`, `Receipts`, `Discovery`, `Tasks` |
| `PeersProofs` | proofs about `Mail`, `Discovery`, `Tasks` and the composition |
| `MCStore`, `MCSettlement`, `MCInbox`, `MCAgent`, `MCStation`, `MCPeers` | constants and symmetry for TLC |

**TradeState.** A position is a record `[state, pre]`; `None` stands for no row
and for a null `pre`. Events of the chain are a table of source and target
states, as the `switch` of the code is.

**LocalStore.** `facts`, `events`, `trades` are the disk. `pc`, `job`, `next` are
what a process running `applyEvent` holds in memory. An event is (key, trade,
type): the key stands for (occurred_at, event_id), by which the rebuild sorts.
With `InOrder` events are dated in the order in which they reach this
directory; without it they may be dated in any order. The actions `ApplyCheck`
to `ApplyTradeRow` are the four stretches between the writes; the duplicate
answer is `ApplyDuplicate`. `Interrupt` is a death or a throwing write at any of
them: the disk stays, the memory is gone. The code has no locks, so with two
processes every interleaving of these steps can happen. `rebuildIndex` deletes
the database file under other processes, so the model lets it run alone.
Signatures are not modelled: an event is one that verifies.
The variables marked as history (`seen`, `applied`, `ordered`, `returned`,
`before`) are read by no guard, except that `seen` tells which keys are taken.

**Settlement.** `standing` and `onDisk` are the store seen from outside;
`applyEvent` applies, or throws with nothing written, or throws with the fact
file written and no trade row (`Torn`, what `Interrupt` leaves in `LocalStore`).
`vouchers`, `byTrade`, `taskByTrade` are the adapters' memory, emptied by
`PayRestart`; `tasks` survives when the file store is injected. An amount is a
string compared character by character, so two amounts are just different.
`by` in an event on disk says who made it: `RecordDirectly` signs whatever
evidence its caller writes, so it may name any voucher or task, and the properties
speak of what the adapters and `toEvent` make. The adapters await nothing, so an
operation is one step, except at a task file, which other processes change
without a lock: `ReadTask` and `WriteTask` are the two halves of `complete` and
`cancel`, and `ManualConfirm` and `TaskToEvent` read a task whose event is stored by
`CiteTask` a step later. `overlapped` remembers the tasks that two processes were
changing at once.

**WakeQueue, Inbox.** A message stands for its task, whose id is computed from
it. Each delivery is a writer: `check` (before the look into `done/`), `link`,
`chmod`, then a result. A connection is a slot that can be used again when its
socket is gone, its watch is settled and its deliveries are over; two slots are
enough for a failed watch and its successor, a third would add only more of
the same overlap. Listeners, timers and stretches between awaits are actions;
`chain` holds the messages received and not yet begun; a message here is an
event that `parseAgentMailEvent` accepts, others are ignored by the code and
left out. `strict` is whether the
socket's `close` refuses code 1011: the WebSocket of Node does, the injected one
of the tests does not, and both are checked. `Die` is the end of the process;
only the two directories survive it. Waiting times are not modelled: a timer may
fire at any moment after it is set. `backoff` counts doublings of the delay.

**StationContext, Station.** A process runs one role, the same at every start,
so `Station` chooses `role` in the initial state and each role's actions are
guarded by it; one state space then holds three systems that share `phase`,
`op`, `facts` and the way a process starts, stops and dies. `op` is what the
activities under way carry across an await (`Ops` are slots for them); `overlap`
is a history variable that says that two ran beside each other, and is read by
properties only.

**Publisher.** The actions are the stretches between the awaits of `publish`
(read the directory, stop the old seeder, seed, list and mirror, post with
retries), the tick of the watch, and the two halves of `stop`. A version stands
for the content of the directory and everything computed from it; `Broken`
versions are those the checks refuse. `heard` is what indexers have been told.
`Unstored` is a `putObject` that throws after the seeding has started: that seeder
runs on and nothing refers to it (`lost`).

**Integrator.** A refresh gathers the references of the members (`offer` is what
`loadMember` makes of each, `None` if it is rejected), signs and announces the
topic, and, if `Reseed`, for each member stops the old seeder, deletes the
directory, downloads, compares the hash, writes the archive and seeds. What a
magnet delivers is up to who seeds it, so an offer names what is delivered.
`LoadFails` is a refresh that rejects; at the start that closes the server.

**Listings.** A request is one step: its handler awaits only the text of the
request. Its writes are not one step: peer key, fact file, state file with the
listing, state file with card and tags; the process may die between or within
any two, and a write may fail and be answered as an error while memory keeps the
change. A key stands for a key pair and a file for (body, signer, key signed
with), which is all that verification tells apart. `Torn` is a file cut off. `accepted` are the listings
answered "accepted", `saved` those that were in the state file by then: after
`ReceiveUnsaved`, a failed write, the bare retry is answered without one.

**Exchange.** `post` is what reached a party; taking it
does not remove it, so that it may be taken late, again, in any order or never.
`Effect` is `applyEvent` seen from outside, over `TradeState`. In the repository
only the demo scenario applies a received event, and the model applies it as the
scenario does, but at any time.

**Mail.** An entry of the mailbox is an `.eml` and a `.meta.json` file, renamed
one after the other, so that two senders that took one uid may mix them. A poll
goes from await to await; polls of one daemon share a `SeenStore`, or open one
each if both find none. IMAP and SMTP are single network calls outside the
model.

**Receipts.** A request is `Submit` (checks), `Fetch` (the awaited evidence),
`Persist` (fact file, then row, in one stretch that a death or an exception may
cut between the two writes) and `Reply`; a death between the last two leaves a row
nobody was told of. Tier and price are operators of the receipt and
what is trusted or stored. Processes are the server and export commands. An export
reads the subjects, then one subject after the other (`ReadSubject`), then signs and
writes the snapshot, then its signature, with the server's inserts between any two;
`query` reads one file and then the other.

**Discovery.** `shelf` is what an indexer answers from: listings, catalogs known,
which have tags, which have a card. What else may sit at the address of an
indexer answers anything (`StrangeRows`, any `CatalogCard`), and `strange`
remembers it. A search is its requests in parallel, the merge in the order of
the indexers, and the requests for cards; a lookup asks one indexer after the
other. A broadcast is cut where `tradeBroadcastReceipt` awaits;
`CastUnwritten` is one whose `receipt.json` cannot be written.

**Tasks.** A task stands for its id, and its file for the status in it, or
`torn`. A change is cut into what another process can see: the read (`EndTask`
looks and remembers the new status), `writeFileSync` as truncation and write
(`OpenTemp`, `WriteTemp`: it goes to the file that was opened, which is the
task's own once another process has renamed it), the rename, and the mirror.
`list` reads one file after the other and copies what it read; `quiet` says that
it did so alone and that nothing has run beside anything since.

**Agent, Peers.** The three parts of `Agent` and the five of `Peers` share no state in the code, so an initial state
chooses one (`part`, `matter`) and the others stay as they start.
An index is explored in three parts, since its keys and its queries do not depend on
what the receipts are: submissions beside an export (`receipts`), submissions to an
index that knows the deals already (`evidence`), and exports beside queries on a
new directory (`queries`).

Operators with a comment beginning `Mutant:` are plausible bugs of the operator
below them. No specification uses them; they show that a property can fail.

## 3. Runs

| run | instance | shows |
|---|---|---|
| `store_online` | 1 trade, 1 process, all 11 event types, 7 keys, 1 fault | `TypeOK`, `DisputeMemory`, `StateIsEarned`, `AtMostOnce`, refinement of `TradeContract` (`KeepsContract`) |
| `agent` | the store with rebuilds: 2 trades, 1 process, 5 types, 5 keys, 1 fault; payment: 2 trades, 2 amounts, 2 vouchers, 1 task, 2 processes that change it, 3 recorded types, 1 recorded event that cites an id, 5 events on disk, 1 fault; inbox: 1 message, redelivered, 2 connections, 1 agent, 2 deliveries waiting, 1 fault | `AgentTypeOK`, `RebuildRestores`, `RebuildRepairs`; `VoucherOnce`, `RegisteredIsRequested`, `PaidAsRequested`, `EvidenceStands`; `OnlyWatch`, `HandledBeforeDone`, `ReacceptedOnlyIfRaced` |
| `inbox_live` | 2 messages, 2 connections, 1 delivery waiting, 1 fault, fairness, no symmetry | `ReceivedIsQueued`, `StopEnds`, `KeepsTrying` |
| `station` | each role: 8 announcements of 2 listings and an archive; 3 versions of a directory, 1 target, 1 retry; 1 member with 2 offers; 2 activities, 1 change, 1 fault | `StationTypeOK`, `SavedStays`, `SearchMatchesCard`, `FactsVerify`, `AnnouncedIsServed`, `OneSeeder`, `TopicServed`, `RefreshesAlone`, `WatchPublishes` |
| `peers` | 2 parties, 5 event types, 5 events, 3 mails each; 2 senders, 2 polls, 2 mails, 1 failure; 3 receipts, 2 of them of one id, 2 requests, server and exporter, 2 snapshots (1 beside requests); 2 indexers, 3 offers, 2 of them of one catalog, 2 broadcasts; 2 tasks, 2 processes, 1 mishap | `PeersTypeOK`, `SameEventsAgree`, `TurnsConverge`, `ShownOnceIntact`, `SeenWasReceived`, `FactsMatchRows`, `TierEarned`, `SnapshotCountsAnswered`, `QueryVerifies`, `AnswersFit`, `OneBroadcastSeed`, `TasksStand` |
| `store_rebuild_skew` | dates in any order, no fault | finding: `RebuildIdentical` fails |
| `store_torn_retry` | one interruption and a retry | finding: `ReturnedIsApplied` fails |
| `settlement_burn` | no disk fault needed | finding: `RedeemedIsConfirmed` fails |
| `inbox_ack_race` | no fault | finding: `PendingOrDone` fails |
| `inbox_close_code` | no fault | finding: `OnlyFaultsKill` fails |
| `station_lost` | the instance of `station` | finding: `AcceptedStays` fails |
| `mail_twice` | 1 mail, 2 polls, no fault | finding: `DeliveredOnce` fails |

**Bounds.** Seven keys let one trade go from signature to completion, or be
disputed, disputed again and resolved on the way; five types and five keys with
two trades let a rebuild go from one trade to the next with something left to
replay. Every run that allows a fault allows it at each step of each operation;
that a second or third fault changes nothing is what the theorems say (any
`MaxFaults`); for the rebuild properties and for liveness it is a limit of the check. `MaxFaults` also bounds events stored by `putObject` alone. In the payments of `agent`, two amounts and
two trades give a wrong deal and a wrong trade to mistake for the right one; two
vouchers allow a second request after a restart; one recorded event that names a
voucher or a task, before or after the adapter does, is what a caller can add, and
two processes are what it takes to change one task at once. In its inbox one
message suffices for the safety properties: tasks of different messages share nothing
but the chain, which holds two copies, and messages are not compared with each
other. That one waits behind another whose delivery fails is a question of liveness,
so `inbox_live` has two messages, besides one that is delivered twice.
In `station`, two activities are what it takes to overlap; the announcements
have every way a file, its key and its card can disagree (bare, other key, other
signer, malformed, card of another path); two offers of one member, of which one
delivers the other's catalog, are a change and a wrong download. One change and
one fault can come at every await; more of either only repeats them, which is
proved for all safety properties of the station (section 5) and is a limit of the
check for `WatchPublishes`. In `peers`, five events are a signature of each party, a
payment, a dispute and its resolution or a cancellation; two mails, two senders and
two polls can take one uid, one path and one message twice; two receipts of one
id with two requests in flight can pass the check together, and with a third there
are two subjects to be read one after the other while a row is inserted; three offers give a catalog with
one offer and a catalog with two; two changes of the
indexers give two listings of one catalog, different orders at two indexers, or a
listing and its loss between a search and its card. `MaxShown` is 1 where the
code caps at 3, so that two mails reach the cap; `REMOTE_LIMIT` has its value.
Two tasks and two processes let a list read one task before and the other
after a change. `FactsFirst` of the store is in no run: it is proved for all constants.
Deadlock is not checked: a trade may be over, events and faults are bounded,
and a stopped daemon does nothing.

**Fairness.** The store and the settlement state none: an actor may never send
anything. For the inbox `InboxFairness` says what the event loop and the kernel do: a
delivery that can go on does (`Deliver`), the close listener's continuation runs
(`Settle`), timers fire (`ConnectTimeout`, `WaitEnds`), a socket that is closing
reports its close, the loop of `run` goes on (`Connect`, `WatchEnds`, `Leave`,
`Finish`), and a command ends, since it is killed after `timeoutMs`, 300 s unless
configured (`TriggerEnds`). Nothing is assumed of the network: a socket may never open,
never deliver, stay open in silence for ever. Nothing makes the process restart
either: the properties accept a dead process.
For the publisher `PublisherFairness` says that an activity that can go on does
(what it awaits succeeds or fails, since every request has a timeout and seeding
either starts or throws), that `stop` goes on, and, as strong fairness, that the
timer ticks: the bound on activities may leave no room for a tick at some
moments, which the code's timer does not know, so weak fairness of the bounded
model would say less than `setInterval` does. `WatchPublishes` demands nothing
while something fails or the directory changes. The other modules state no
fairness: nobody has to submit, send or search.

## 4. Findings

1. `store_rebuild_skew`. A rebuild replays by date, application went by arrival.
   Two valid events dated in the other order (clocks of two actors, or the same
   millisecond) make the rebuild throw or end in another state, against the M3
   card and the comment at store.ts:250. With dates in order `RebuildRestores`
   holds.
2. `store_torn_retry`. `applyEvent` takes an event row for proof that the event
   was applied, but writes the trade row after it. A retry of an interrupted call
   returns normally and the event is without effect until a rebuild
   (`RebuildRepairs`).
3. `settlement_burn`. `confirm` voids the voucher before the store accepts the
   confirmation; when it refuses, for example during a dispute, the voucher is
   spent and the trade unpaid.
4. `inbox_ack_race`. An acknowledgement between `enqueue`'s look into `done/` and
   its link leaves the task in both directories; `ack` then answers with the done
   path for ever and the task never leaves `pending/`. `ReacceptedOnlyIfRaced`
   shows that this is the only way a message is accepted again.
5. `inbox_close_code`. `close(1011)` throws in the WebSocket of Node, in an error
   listener or in the catch of a delivery, where nobody catches it: a failing
   connection ends the daemon instead of leading to a reconnect.
6. `station_lost`. A state file that cannot be written leaves the listing in memory
   and the request with an error; the bare retry is answered "accepted" from memory
   without a write, and the next start has lost it, against the S1 card (line 47)
   and state.ts:7-8. What had been saved when it was accepted stays (`SavedStays`).
7. `mail_twice`. Two polls of one daemon both find a mail unseen before either adds
   it, and deliver it twice, against seen.ts:4-7. What holds is `ShownOnceIntact`
   and, of any polls, `SeenWasReceived`.

The models show five more places where the code does not do what a statement of the
repository says. They have no run of their own; the properties name them as their
exceptions.

- maildrop.ts:9 says that the atomic write is safe between processes. The uid is
  read from the directory and used later: two senders that take one uid lose a mail
  whose `send` returned, or leave an entry whose id is never that of its mail
  (`collided` in `ShownOnceIntact`).
- trust-ring.ts:9-10 says that a key rotated at runtime is honoured. `saveKey` refuses
  what conflicts with the ring, so it is passed over until the next start
  (`FactsVerify`, which a ring that took the key at once would violate).
- catalog-tags.ts:4-9, server.ts:310-311 and integrator/catalog.ts:11 say that tags are
  covered by the catalog hash. Once the archive of a catalog is received, they come
  from whatever `catalog.json` it carries, listed in the manifest or not (`stored` in
  `SearchMatchesCard`).
- M3-local-store.md:11 and integrator.ts:6-8 call fact files immutable. `putObject`
  renames the copy it is given over the file of the same object_id, so
  `settlement.ts:29-30` replaces the contract with both signatures by an older copy
  (not modelled; it takes one call).
- state.ts:7-8 says that the search state survives restarts. The file is rewritten in
  place and one that cannot be parsed is read as empty, so a death during a write loses
  everything accepted before (where `SavedStays` ends). A key file cut off makes
  `openStore` throw at every later start.

The models also reach behaviour about which the repository says nothing; the
properties name it as their exceptions, which is where to look first when the code
changes:

- *Two stores.* Two disputes taken in different orders leave two parties at
  different positions, and a cancellation taken before an older event makes that
  event refused for good (the conditions of `SameEventsAgree`, `TurnsConverge`).
- *Publisher.* Overlapping publishes, or a publish beside `stop`, leave a seeder
  nobody stops (`overlap` in `OneSeeder`); so does a `putObject` that throws once
  the seeding has started (`lost`).
- *Integrator.* Overlapping refreshes make an older result the current one,
  delete a directory under a seeder or archive half a download; two members with
  one catalog share a directory (`RefreshesAlone`).
- *Mailbox.* A poll shows three messages and marks all as seen (`dropped` in
  `SeenWasReceived`).
- *Receipts.* Two submissions of one id pass the check together; the second
  leaves a fact file without a row (`FactsMatchRows`).
- *Plugin daemon.* Overlapping broadcasts of one receipt leak a seeder; one
  whose seeding fails is never posted (`raced`, `unseeded` in `OneBroadcastSeed`). A
  listing is shown beside a catalog without comparing its `catalog_hash`; of two
  listings of one catalog the first is answered; and a title made from tags, an
  object_id and an item come from the row of the indexer, which no hash covers
  (`AnswersFit`).
- *Settlement and human tasks.* Two processes that change one task at once
  (`overlapped`, `doubled`) share a temporary file: an end that was reported, and that
  a payment may rest on, is replaced by the other, or what is left is neither and no
  longer reads as a task; `list` then skips it, and the mirror keeps its old row
  (`EvidenceStands`, `TasksStand`). An event recorded by a caller cites what the
  caller says: a PAYMENT_CONFIRMED may name any voucher.

## 5. Proofs

All theorems hold for every value of the constants, from the assumptions named
beside the constants (`StoreAssumption`, `SettlementAssumption`,
`PublisherAssumption` and the like). They say that bounds are natural numbers, that
sentinels such as `None`, `Absent`, `NoStore` are no datum (also not a record made
of data, such as `[topic : Topics]`), and that a station has a slot for an
activity (`Ops # {}`).

*Transition table* (`TradeStateProofs`). `Sound` says that a position
remembers an open state exactly while disputed. `TransitionSound`: accepted
events preserve it. `ChainStep`, `DisputeStep`, `ResolveStep`, `CancelStep`: what each kind of event does to
the stage a trade has reached. The table is finite, but the theorems are what
the other modules cite instead of unfolding eleven cases each.

*Store* (`LocalStoreProofs`). `DisputeMemory` and `StateIsEarned` are not
inductive: the trade row is written from a position computed several steps
before. `IInv` adds that keys identify events (`SeenInv`), that the writes
happen in order (`DiskInv`), that a rebuild runs alone and replays only what it
has logged (`ReplayInv`), and that positions not yet written are sound and
earned too (`PositionInv`). Earned survives another process's writes because
events are only added while any other process may hold a position
(`EarnedMono`), which is why two processes cannot break it although they can
overwrite each other's rows. From `IInv`: `TypeCorrect`, `FactsFirstAlways`,
`DisputeMemoryAlways`, `StateIsEarnedAlways`.

*Refinement* (`LocalStoreProofs`). With one process
(`OneProcess` is an assumption of the theorems), a computed position is still the successor of
the row it will replace. `StoreImplementsContract` shows for `OnlineSpec`, the
store without rebuilds, that every step is a step of `TradeContract` or a
stutter; `AtMostOnceAlways` that an event takes effect once.

*Settlement* (`SettlementProofs`). `SInv` adds to the properties that registry and
index agree and that `confirm` has stored nothing for a voucher that is still good
(`VoucherInv`), whatever recorded events cite; and, of tasks, that an operation
about to cite one found it done (`CiteInv`) and that the only process about to
write a task still finds it pending (`ChangeInv`), so that a done task is not
cancelled between the check and the event (`TaskInv`). From it `VoucherOnceAlways`,
`RegisteredIsRequestedAlways`, `PaidAsRequestedAlways`, `EvidenceStandsAlways`, for
any number of processes.

*Inbox* (`InboxProofs`). `InboxInv` is the type invariant with `WatchInv` and
`QueueInv`. `WatchInv`: a connection that may still open or deliver belongs to an
unsettled watch; without it, that only one watch is alive would not survive the
next `watch`. `QueueInv`: an accepted message keeps a task, and a writer about
to link it again, with no acknowledgement since its look into `done/`, finds it
still pending. From it `InboxTypeCorrect`,
`OnlyWatchAlways`, `HandledBeforeDoneAlways` and `ReacceptedOnlyIfRacedAlways`, for
any number of messages, connections, agents and waiting deliveries. They are
theorems of `InboxSafe`, without fairness.

*Station* (`StationProofs`). `StationInv` says of each role that it is typed and
that what is on its way is good; `RoleInv` says what it keeps besides. A
step of another role changes none of it. From both `StationTypeCorrect` and the
following, for any number of activities, changes and faults.

- Publisher: an activity that is past its listing carries a version that is served
  already (`OpsGood`): `AnnouncedIsServedAlways`, for any number of targets.
  `Solo` holds until two activities overlap: exactly the seeder of the
  current state runs, beside one out of reach if a `putObject` failed; one activity at most is at work, it knows that seeder while
  it stops it and finds no state while it seeds (`Handled`); and what `stop` closes
  is that seeder.
  `OneSeederAlways`.
- Integrator: an activity that announces runs only once a topic is current, and a
  current topic is stored and mirrored: `TopicServedAlways`. `SoloRefresh` holds
  until two activities overlap: every seeder belongs to a member of the current
  topic that the activity at work is done with, and is alone in a whole directory
  unless another member has the same catalog (`Accounts`), so nobody seeds a
  directory that a download is about to delete. `RefreshesAloneAlways`.
- Indexer: a listing in memory or in the state file has its fact file, and memory
  keeps what the state file holds (`ListedStored`), so a write never drops what an
  earlier one saved: `SavedStaysAlways`.
  Tags of a catalog come with the `catalog.json` they are of, in memory and in the
  state file alike (`CardsInv`), since a write leaves the older pair on disk, the
  newer, or no state at all: `SearchMatchesCardAlways`. Ring and key files trust one key of
  every agent whose files nobody replaced, and it is the key its listings were
  signed with (`KeysKept`): `FactsVerifyAlways`.

*Two stores* (`ExchangeProofs`). The position of a party depends on the order
in which it took the events, so that parties with equal sets of events agree is
not inductive. `Follows` says what of a position the set alone tells: the
furthest stage of its chain events, whether it is cancelled, and with one dispute
at most whether it is disputed now. `FollowsStep`: every accepted event keeps it,
whatever the order; `FollowsUnique`: with one dispute at most it determines the
position. From it `SameEventsAgreeAlways`, for any number of parties and events.

That parties who take turns never get stuck is not inductive either: the party
behind can take the next event because its position is the one the event was
recorded in. `TurnInv` says so of all at once: ledgers open with a DEAL_SIGNED of
their own, agree from there on as far as they reach, hold events in the order of
their numbers, and there is one course `f` of positions that every ledger has followed
(`OnCourse`); what is in the post is in some store. `NextInTurn`: who records knows all
events, so the course goes on from its position. From it `TurnsConvergeAlways`.

*Receipts* (`ReceiptsProofs`). A request whose tier is decided deserves it and
goes on deserving it, because agents are never distrusted and deals are kept
(`EvidenceGrows`): `TierEarnedAlways`. `FactInv` follows a request through
its two writes: `FactsMatchRowsAlways`. `QueryInv` relates each file, half-written
or read, to the key it was signed with: `QueryVerifiesAlways`. `CountInv` adds that
what was answered has a row, once per receipt id (`RowsAnswered`); of an export
half-way, that every receipt answered before it began is of a subject it has still to
read or in the view it has made of it (`GatherInv`), whatever rows are inserted
meanwhile; and that every snapshot signed or in a file counts so: `SnapshotCountsAnsweredAlways`.
`TypedInv`, which adds the types, keeps the rows finite. All for any number of
requests, processes and faults.

*Mail* (`PeersProofs`). `BoxInv`: uids and mails are numbered by the sends that
began, so a new uid is above those in the mailbox; while no two sends took one
uid, each finds its files as it wrote them, an entry is of one mail, and what
was sent is there (`Whole`). `PollInv`: whatever is marked as seen, in the file, in a
store in memory or about to be saved, was shown, dropped, or is in the hands of a poll
(`Accounted`). From it
`SeenWasReceivedAlways`, for any number of senders, polls and mails, overlapping or not.
`OnceInv`: until polls run beside each other or a uid is taken twice, the file of the
store is never ahead of memory and memory is ahead only while it says so
(`StoreAhead`), and what a poll holds was not shown before and lies where it put it.
From it `ShownOnceIntactAlways`.

*Discovery* (`PeersProofs`). `SearchInv` and `FetchInv` say of a request half way
that its rows, hits and offers fit as far as they were answered, whatever the
indexers do between its steps; the hits are the first row of each catalog
(`HitsAlone`), so none is shown twice: `AnswersFitAlways`. `CastsAlone` follows
the one broadcast that stops or seeds: it knows the handle, and what runs is the
seeder of the handle or nothing: `OneBroadcastSeedAlways`.

*Human tasks* (`PeersProofs`). Of a task no two processes changed at once,
`OneWriter` says that the only process at work on it finds the file as it read it
and in the temporary file what it wrote; so an end, once renamed, is final. A
list that runs alone holds what the files say (`ReadGood`), and a row is never
without a file. From both `TasksStandAlways`, for any number of tasks, processes
and mishaps.

*The composition* (`PeersProofs`). `PeersRunsParts`: every run of `Peers` is a run of
`Exchange`, of `Mail`, of `Receipts`, of `Discovery` and of `Tasks`; a step of one
matter is a step of its part and a stutter of the others. So what is proved of the
parts holds of the specification that the run `peers` checks: `PeersTypeCorrect` and
`PeersSafe`, all its invariants.

Only model-checked are two kinds of properties. `RebuildRestores` and
`RebuildRepairs` compare the outcome of a replay with the order in which events were
applied: that is an induction over a sorted sequence of events, and the library's
induction theorems take an operator as a parameter, which the provers cannot
instantiate. And all liveness (`ReceivedIsQueued`, `StopEnds`, `KeepsTrying`,
`WatchPublishes`), since fairness and ENABLED are beyond the prover.

## 6. Not modelled

- Cryptography, canonical JSON and the schemas are pure functions covered by the
  repository's test vectors; what a signature binds is modelled.
- WebTorrent, the tracker, SMTP, IMAP, REST and WebSocket are external: calls
  that succeed, fail or deliver something else.
- Search in a local catalog directory, `contact_send` and `contact_reply`, reading of
  one task and of wake events: single calls that keep no state.
- The reading of a configuration, size limits and timeouts of HTTP except where a
  timeout decides an outcome, the policy checks and schema validation of the
  MCP tools, and their receipt, listing and identity handlers, which sign or
  verify one object.
- The copy of a contract in the store, which one call of a settlement tool can replace
  (section 4), and the contract's signatures.
- Demo scripts other than the two-party scenario, their assertions, documentation,
  container files and the shell tools. The bundled plugins repackage the code above.
