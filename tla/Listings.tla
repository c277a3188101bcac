-------------------------------- MODULE Listings --------------------------------
(***************************************************************************)
(* apps/station, role indexer: the LISTING_REFs announced to one station,  *)
(* the keys it pins on first use, the catalog cards and archives its tag   *)
(* search answers from, and its one state file, rewritten in place.        *)
(*                                                                         *)
(* A handler runs without interruption once the text of its request has    *)
(* arrived, so a request is one step; the process may die between, and in, *)
(* the writes of a request, and a write may fail.                          *)
(*                                                                         *)
(* A key stands for the key pair.  A file is the signed envelope: body     *)
(* (listing), signer, and the key its signature was made with.             *)
(***************************************************************************)
EXTENDS StationContext

CONSTANTS
  Agents, Self,   \* agents; the agent the station runs as
  Keys, SelfKey,  \* keys; the key in the station's seed file
  Listings,       \* listing bodies: [publisher, hash]
  Hashes,         \* catalog hashes
  Tags,           \* what metadata.tags of some catalog.json may hold
  Manifest,       \* catalog hash -> the <<path, tags>> of its catalog.json files
  Unlisted,       \* tags of the catalog.json files an archive may hold besides
  Announcements,  \* requests: [file, agent, key, card], key = None for a bare file
  Unknown,        \* tags of a catalog that is not known
  Malformed       \* metadata.tags that are not a list of strings

Envelope == [listing : Listings, signer : Agents, key : Keys]

\* A file a write of which was cut off.
Torn == [torn |-> TRUE]

ASSUME ListingsAssumption ==
  /\ Self \in Agents /\ SelfKey \in Keys /\ None \notin Keys \cup Envelope \cup Hashes \cup Tags
  /\ Unknown \notin Tags \cup {None} /\ Torn \notin Keys \cup {None}
  /\ \A l \in Listings : l.publisher \in Agents /\ l.hash \in Hashes
  /\ \A m \in Announcements : m.file \in Envelope /\ m.key \in Keys \cup {None}
  /\ \A m \in Announcements : m.key # None => m.agent \in Agents
  /\ Unlisted \subseteq Tags
  /\ \A h \in Hashes : None \notin Manifest[h] /\ \A j \in Manifest[h] : j[2] \in Tags

VARIABLES
  ring,       \* key ring of the store, in memory
  indexRing,  \* key ring of the receipts index, in memory
  keyFiles,   \* .data/keys, a key of each agent that has one
  peerFiles,  \* .data/peers, likewise
  index,      \* IndexerState, in memory
  file,       \* indexer-state.json, Torn if a write of it was cut off
  stored,     \* hashes of the catalogs stored in full
  accepted,   \* history: listings answered "accepted"
  saved,      \* history: those in the state file then, until it is cut off
  rekeyed,    \* history: agents whose key files were changed or cut off ...
  renewed     \* ... before the last start

keys == <<ring, indexRing, keyFiles, peerFiles, rekeyed, renewed>>
answers == <<accepted, saved>>
catalogs == <<facts, index, file, stored, answers>>
indexerVars == <<role, phase, op, overlap, keys, catalogs, changes, faults>>

NoKeys == [a \in Agents |-> None]
NoTags == None
Empty == [listed |-> [l \in Listings |-> None], card |-> [h \in Hashes |-> None],
          tags |-> [h \in Hashes |-> Unknown]]

\* Requests are handled in one step each: none is ever under way.
NoRequests == [o \in Ops |-> [step |-> "idle"]]

StateData ==
  [listed : [Listings -> Envelope \cup {None}],
   card : [Hashes -> (UNION {Manifest[h] : h \in Hashes}) \cup {None}],
   tags : [Hashes -> (Tags \ {Malformed}) \cup {NoTags, Unknown}]]

IndexerTypeOK ==
  /\ ContextTypeOK /\ role = "indexer" /\ op = NoRequests
  /\ ring \in [Agents -> Keys \cup {None}] /\ indexRing \in [Agents -> Keys \cup {None}]
  /\ keyFiles \in [Agents -> Keys \cup {None, Torn}]
  /\ peerFiles \in [Agents -> Keys \cup {None, Torn}]
  /\ facts \in [Listings -> Envelope \cup {None}]
  /\ index \in StateData /\ file \in StateData \cup {Torn}
  /\ stored \subseteq Hashes
  /\ accepted \subseteq Envelope /\ saved \subseteq Envelope
  /\ rekeyed \subseteq Agents /\ renewed \subseteq Agents

\* Nothing in memory.
IndexerFresh == ring = NoKeys /\ indexRing = NoKeys /\ index = Empty

\* A new data directory.
IndexerEmpty ==
  /\ IndexerFresh /\ keyFiles = NoKeys /\ peerFiles = NoKeys
  /\ rekeyed = {} /\ renewed = {}
  /\ file = Empty /\ stored = {} /\ accepted = {} /\ saved = {}

IndexerInit ==
  /\ role = "indexer" /\ phase = "down" /\ op = NoRequests /\ overlap = FALSE
  /\ facts = [l \in Listings |-> None] /\ changes = 0 /\ faults = 0
  /\ IndexerEmpty

-------------------------------------------------------------------------------
(* The key ring *)

\* openStore: a seed of one's own wins over an imported public key; an import
\* that is not a key is passed over.
LoadedRing ==
  [a \in Agents |-> IF keyFiles[a] # None THEN keyFiles[a]
                    ELSE IF peerFiles[a] = Torn THEN None ELSE peerFiles[a]]

\* Mutant: a key file that was rotated is honoured at once.
TrustLatest(r, a, k) == IF k \in Keys THEN [r EXCEPT ![a] = k] ELSE r

\* saveKey, savePeerKey: refused for an agent trusted with another key.
Trust(r, a, k) == IF k \in Keys /\ r[a] = None THEN [r EXCEPT ![a] = k] ELSE r

\* reloadTrustRing: every seed file, then every peer file; what is refused is skipped.
ReloadedRing ==
  [a \in Agents |-> Trust(Trust(ring, a, keyFiles[a]), a, peerFiles[a])[a]]

\* The operator, or another station, writes a key file of an agent.
Provision(a, k) ==
  /\ Changed
  /\ \/ keyFiles' = [keyFiles EXCEPT ![a] = k] /\ UNCHANGED peerFiles
     \/ peerFiles' = [peerFiles EXCEPT ![a] = k] /\ UNCHANGED keyFiles
  /\ rekeyed' = rekeyed \cup {a}
  /\ UNCHANGED <<phase, ring, indexRing, renewed, catalogs, faults>>

\* openStore fails on a seed file that is cut off, and saving the station's own
\* seed fails if its agent is known with another key.
IndexerStart ==
  /\ phase = "down" /\ \A a \in Agents : keyFiles[a] # Torn
  /\ LoadedRing[Self] \in {None, SelfKey}
  /\ phase' = "up"
  /\ keyFiles' = [keyFiles EXCEPT ![Self] = SelfKey]
  /\ ring' = [LoadedRing EXCEPT ![Self] = SelfKey] /\ indexRing' = ring'
  /\ index' = IF file = Torn THEN Empty ELSE file
  /\ renewed' = rekeyed
  /\ UNCHANGED <<peerFiles, rekeyed, facts, file, stored, answers, changes, faults>>

IndexerGone == phase' = "down" /\ ring' = NoKeys /\ indexRing' = NoKeys /\ index' = Empty

IndexerStop ==
  /\ phase = "up" /\ IndexerGone
  /\ UNCHANGED <<keyFiles, peerFiles, rekeyed, renewed, facts, file, stored, answers, changes,
                 faults>>

-------------------------------------------------------------------------------
(* Announcements *)

Wrapped(m) == m.key # None
Resolves(r, f) == r[f.signer] = f.key

\* Mutant: the manifest is the one announced, the catalog.json any.
CardVerifiesHash(m) == m.card.hash = m.file.listing.hash

\* verifyCatalogCard: the card is a catalog.json of the manifest, and well formed.
CardVerifies(m) ==
  /\ m.card.hash = m.file.listing.hash
  /\ m.card.json \in Manifest[m.card.hash]
  /\ m.card.json[2] # Malformed

\* savePeerKey: a key is trusted on first use and never replaced.
FirstUse(m) == ReloadedRing[m.agent] \in {None, m.key}

\* The checks a request passes before anything of it is kept.
Verifies(m) ==
  IF Wrapped(m)
  THEN /\ m.file.listing.publisher = m.agent
       /\ Resolves([ReloadedRing EXCEPT ![m.agent] = m.key], m.file)
       /\ CardVerifies(m) /\ FirstUse(m)
  ELSE Resolves(ReloadedRing, m.file)

\* The rings and the peer file after those checks.
PinnedRing(m) ==
  IF Wrapped(m) /\ Verifies(m) THEN [ReloadedRing EXCEPT ![m.agent] = m.key] ELSE ReloadedRing

Pin(m) ==
  IF Wrapped(m) /\ Verifies(m)
  THEN /\ peerFiles' = [peerFiles EXCEPT ![m.agent] = m.key]
       /\ indexRing' = [indexRing EXCEPT ![m.agent] = m.key]
  ELSE UNCHANGED <<peerFiles, indexRing>>

Existing(m) == index.listed[m.file.listing]

\* Mutant: a listing announced again replaces the one listed.
AdmittedAgain(m) == Verifies(m)

\* The same envelope again, or the first for this listing; another is a conflict.
Admitted(m) == Verifies(m) /\ Existing(m) \in {None, m.file}

\* The state as the request leaves it: the listing, then the card and its tags.
WithListing(m) == [index EXCEPT !.listed[m.file.listing] = m.file]
WithCard(m, s) ==
  IF ~Wrapped(m) THEN s
  ELSE [s EXCEPT !.card[m.card.hash] = m.card.json,
                 !.tags[m.card.hash] = m.card.json[2]]
Updated(m) == WithCard(m, WithListing(m))

\* putObject runs for a listing that is not in the state yet.
PutObject(m) == Admitted(m) /\ Existing(m) = None

\* A retry of a bare announcement writes nothing.
Persists(m) == Admitted(m) /\ (Existing(m) = None \/ Wrapped(m))

\* The first announcement of a listing is written; a bare one of a listing in memory
\* is answered "accepted" at once, even if a failed write left it out of the file.
Receive(m) ==
  /\ phase = "up"
  /\ ring' = PinnedRing(m) /\ Pin(m)
  /\ facts' = IF PutObject(m) THEN [facts EXCEPT ![m.file.listing] = m.file] ELSE facts
  /\ index' = IF Admitted(m) THEN Updated(m) ELSE index
  /\ file' = IF Persists(m) THEN Updated(m) ELSE file
  /\ accepted' = IF Admitted(m) THEN accepted \cup {m.file} ELSE accepted
  /\ saved' = IF Admitted(m) /\ file' = index' THEN saved \cup {m.file} ELSE saved
  /\ UNCHANGED <<phase, keyFiles, rekeyed, renewed, stored, changes, faults>>

\* A write of the state file fails: the request is answered with an error, and
\* the memory keeps what the file does not hold.
ReceiveUnsaved(m) ==
  /\ phase = "up" /\ Persists(m)
  /\ Fault
  /\ ring' = PinnedRing(m) /\ Pin(m)
  /\ facts' = IF PutObject(m) THEN [facts EXCEPT ![m.file.listing] = m.file] ELSE facts
  /\ \/ Existing(m) = None /\ index' = WithListing(m) /\ file' \in {file, Torn}
     \/ Wrapped(m) /\ index' = Updated(m)
        /\ file' \in {Torn, IF Existing(m) = None THEN WithListing(m) ELSE file}
  /\ saved' = IF file' = Torn THEN {} ELSE saved
  /\ UNCHANGED <<phase, keyFiles, rekeyed, renewed, stored, accepted, changes>>

\* The process dies during a request: while the reload rewrites a key file, after
\* the peer file, after the fact, while the state file is written, or between
\* its two versions.
ReceiveDies(m) ==
  /\ phase = "up"
  /\ Fault
  /\ IndexerGone
  /\ \/ \E a \in Agents :
          /\ \/ keyFiles[a] # None /\ keyFiles' = [keyFiles EXCEPT ![a] = Torn]
                /\ UNCHANGED peerFiles
             \/ peerFiles[a] # None /\ peerFiles' = [peerFiles EXCEPT ![a] = Torn]
                /\ UNCHANGED keyFiles
          /\ rekeyed' = rekeyed \cup {a} /\ UNCHANGED <<facts, file, saved>>
     \/ /\ UNCHANGED <<keyFiles, rekeyed>>
        /\ peerFiles' = IF Wrapped(m) /\ Verifies(m)
                        THEN [peerFiles EXCEPT ![m.agent] = m.key] ELSE peerFiles
        /\ \/ UNCHANGED <<facts, file, saved>>
           \/ /\ PutObject(m) /\ facts' = [facts EXCEPT ![m.file.listing] = m.file]
              /\ \/ UNCHANGED <<file, saved>>
                 \/ file' = WithListing(m) /\ UNCHANGED saved
                 \/ file' = Torn /\ saved' = {}
           \/ Persists(m) /\ ~PutObject(m) /\ file' = Torn /\ saved' = {} /\ UNCHANGED facts
  /\ UNCHANGED <<renewed, stored, accepted, changes>>

-------------------------------------------------------------------------------
(* Archives and the tag search *)

\* verifyCatalogFiles: all the manifest lists has to be there; what it does not
\* list is ignored.
ArchivedTags(h, extra) == {j[2] : j \in Manifest[h]} \cup extra

\* extractCatalogTags: of the first catalog.json of the archive, at the root or
\* one directory deep.
ExtractedTags(h, extra) ==
  LET found == ArchivedTags(h, extra) IN
  IF found = {} THEN {NoTags} ELSE {IF t = Malformed THEN NoTags ELSE t : t \in found}

\* PUT /catalogs/:hash of an archive that verifies; any other changes nothing.
ReceiveArchive(h) ==
  /\ phase = "up"
  /\ \E extra \in SUBSET Unlisted : \E t \in ExtractedTags(h, extra) :
       /\ index' = [index EXCEPT !.tags[h] = t] /\ file' = index'
  /\ stored' = stored \cup {h}
  /\ UNCHANGED <<phase, keys, facts, answers, changes, faults>>

\* The process dies after the archive is stored, before or while the tags are.
ReceiveArchiveDies(h) ==
  /\ phase = "up"
  /\ Fault
  /\ IndexerGone
  /\ stored' = stored \cup {h}
  /\ \/ UNCHANGED <<file, saved>>
     \/ file' = Torn /\ saved' = {}
  /\ UNCHANGED <<keyFiles, peerFiles, rekeyed, renewed, facts, accepted, changes>>

\* GET /catalogs?tag=: the hashes whose tags hold all of those asked for.
Search(asked) ==
  {h \in Hashes : index.tags[h] \notin {Unknown, NoTags, {}} /\ asked \subseteq index.tags[h]}

IndexerNext ==
  /\ role = "indexer" /\ UNCHANGED <<role, op, overlap>>
  /\ \/ IndexerStart \/ IndexerStop
     \/ \E a \in Agents, k \in Keys : Provision(a, k)
     \/ \E m \in Announcements : Receive(m) \/ ReceiveUnsaved(m) \/ ReceiveDies(m)
     \/ \E h \in Hashes : ReceiveArchive(h) \/ ReceiveArchiveDies(h)

IndexerSpec == IndexerInit /\ [][IndexerNext]_indexerVars

-------------------------------------------------------------------------------
(* Properties *)

\* A listing answered "accepted" is in the state file, as it was accepted, from then on,
\* except while that file is cut off: the search state survives restarts there
\* (S1-station-core.md:47, state.ts:7-8).
AcceptedStays ==
  file # Torn => \A f \in accepted : file.listed[f.listing] = f

\* A listing that was in the state file when it was answered "accepted" is in the fact
\* file, in the state file and, while the process serves, in memory, as it was
\* accepted: no later announcement, restart, death or failed write changes it, until a
\* write of the state file is cut off (server.ts:101-211, state.ts:47-101).
SavedStays ==
  \A f \in saved :
    LET l == f.listing IN
    /\ facts[l] = f
    /\ file # Torn /\ file.listed[l] = f
    /\ phase = "up" => index.listed[l] = f

\* A card that is shown is a catalog.json the catalog hash covers.  The tags a search
\* answers with are those of the card shown beside them, whatever was announced,
\* retried or lost; only once an archive of the catalog was received they may be those
\* of another catalog.json in it, listed by its manifest or, against
\* catalog-tags.ts:4-9 and server.ts:310-311, not (server.ts:215-253, 302-316).
SearchMatchesCard ==
  \A h \in Hashes :
    /\ index.card[h] # None => index.card[h] \in Manifest[h]
    /\ index.tags[h] \notin {Unknown, NoTags} =>
         \/ index.card[h] # None /\ index.tags[h] = index.card[h][2]
         \/ h \in stored /\ index.tags[h] \in {j[2] : j \in Manifest[h]} \cup Unlisted

\* Every listing stored verifies with the key its signer is trusted with now, across
\* restarts and whatever is announced for that agent or written into its key files
\* while the process runs: a rotated key is passed over, against trust-ring.ts:9-10,
\* until the next start takes it up.  Of an agent whose files were changed or cut off
\* before the last start nothing is said.  And a signer the receipts index trusts is
\* trusted with the same key by the store (server.ts:147-168, trust-ring.ts:28-64).
FactsVerify ==
  role = "indexer" /\ phase = "up" =>
    /\ \A l \in Listings : facts[l] # None /\ facts[l].signer \notin renewed =>
         Resolves(ring, facts[l])
    /\ \A a \in Agents : indexRing[a] # None => indexRing[a] = ring[a]
===============================================================================
