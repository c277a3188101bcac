-------------------------------- MODULE Discovery --------------------------------
(***************************************************************************)
(* What the plugin's daemon asks of indexers and tells them:               *)
(* catalog_search and catalog_get_item over several indexers, and          *)
(* trade_broadcast_receipt, which seeds a receipt and posts it.            *)
(*                                                                         *)
(* An indexer answers as the station does (server.ts:215-316), from what   *)
(* it holds when it is asked, or not at all; what else may sit at its      *)
(* address answers anything.  Calls keep nothing for each other, and the   *)
(* seeders of one receipt are none of another's: one search, one item      *)
(* asked for and one receipt stand for all.                                *)
(*                                                                         *)
(* A catalog hash stands for the one catalog.json it covers, an offer for  *)
(* a signed LISTING_REF and its object_id.                                 *)
(***************************************************************************)
EXTENDS Naturals, Sequences, FiniteSets

CONSTANTS
  Sites,        \* number of indexers asked, in the order they are given
  Catalogs,     \* catalog hashes
  Offers,       \* [catalog, item]
  RemoteLimit,  \* REMOTE_LIMIT
  Nothing,      \* a field that is not given
  Signers,      \* agents whose keys are at hand
  Casts,        \* broadcasts under way
  MaxPlaced,    \* bound: changes of the indexers
  MaxSeeded     \* bound: seeders started

ASSUME DiscoveryAssumption ==
  /\ Sites \in Nat \ {0} /\ RemoteLimit \in Nat \ {0} /\ MaxPlaced \in Nat /\ MaxSeeded \in Nat
  /\ \A o \in Offers : o.catalog \in Catalogs
  /\ Nothing \notin Catalogs \cup Offers \cup [n : 1 .. MaxSeeded, of : SUBSET Signers]

Bases == 1 .. Sites
Items == {o.item : o \in Offers}
Given(S) == S \cup {Nothing}

VARIABLES
  shelf,     \* each indexer: its listings, the catalogs known, those with tags, with a card
  search,    \* the search under way, or its answer
  fetch,     \* the item asked for, or the answer
  placed,    \* number of changes of the indexers
  stored,    \* signers of the receipt in the store, {} for none
  package,   \* signers of receipt.json in the bundle directory, {} for none or a torn one
  handle,    \* app.seeds
  seeders,   \* seeders that run
  casts,     \* broadcasts under way
  seeded,    \* history: number of seeders started
  raced,     \* history: two broadcasts stopped or seeded at once
  unseeded   \* history: the last broadcast failed before it had seeded

lookups == <<shelf, search, fetch, placed>>
broadcasts == <<stored, package, handle, seeders, casts, seeded, raced, unseeded>>
discoveryVars == <<lookups, broadcasts>>

CatalogRow == [catalog : Catalogs, offer : Given(Offers)]
CatalogHit == [base : Bases, at : Nat, catalog : Catalogs, offer : Given(Offers)]
CatalogCard == [manifest : Catalogs, json : Catalogs, offer : Given(Offers)]
ItemRequest == [catalog : Given(Catalogs), offer : Given(Offers), item : Given(Items)]
Seeder == [n : 1 .. MaxSeeded, of : SUBSET Signers]

\* What a hit has for a title until its card is asked for, and without a card.
Waiting == "waiting"
ByTags == "tags"

\* The state of an indexer without a state file.
Empty == [offers |-> <<>>, known |-> <<>>, tagged |-> {}, cards |-> {}]

NoSearch == [step |-> "idle", matching |-> {}, pending |-> {}, answered |-> {},
             rows |-> [i \in Bases |-> <<>>], hits |-> {}, titles |-> <<>>, strange |-> FALSE]
NoFetch == [step |-> "idle", asked |-> Nothing, at |-> 1, catalog |-> Nothing, offer |-> Nothing,
            tried |-> {}, content |-> Nothing, strange |-> FALSE]
NoCast == [step |-> "idle", previous |-> Nothing]

DiscoveryTypeOK ==
  /\ shelf \in [Bases -> [offers : Seq(Offers), known : Seq(Catalogs), tagged : SUBSET Catalogs,
                       cards : SUBSET Catalogs]]
  /\ search.step \in {"idle", "ask", "detail", "done", "failed"} /\ search.matching \subseteq Catalogs
  /\ search.pending \subseteq Bases /\ search.answered \subseteq Bases
  /\ \A i \in Bases : \A n \in DOMAIN search.rows[i] : n \in Nat /\ search.rows[i][n] \in CatalogRow
  /\ search.hits \subseteq CatalogHit
  /\ search.titles \in [search.hits -> Catalogs \cup {Waiting, ByTags}]
  /\ fetch \in [step : {"idle", "locate", "card", "done", "failed"}, asked : Given(ItemRequest),
                at : Bases, catalog : Given(Catalogs), offer : Given(Offers),
                tried : SUBSET Bases, content : Given(Catalogs), strange : BOOLEAN]
  /\ placed \in 0 .. MaxPlaced /\ seeded \in 0 .. MaxSeeded
  /\ stored \subseteq Signers /\ package \subseteq Signers
  /\ handle \in Given(Seeder) /\ seeders \subseteq Seeder
  /\ casts \in [Casts -> [step : {"idle", "stop", "seed", "post"}, previous : Given(Seeder)]]
  /\ raced \in BOOLEAN /\ unseeded \in BOOLEAN

DiscoveryInit ==
  /\ shelf = [i \in Bases |-> Empty]
  /\ search = NoSearch /\ fetch = NoFetch /\ placed = 0
  /\ stored = {} /\ package = {} /\ handle = Nothing /\ seeders = {}
  /\ casts = [c \in Casts |-> NoCast] /\ seeded = 0 /\ raced = FALSE /\ unseeded = FALSE

-------------------------------------------------------------------------------
(* The indexers *)

With(s, x) == IF \E n \in DOMAIN s : s[n] = x THEN s ELSE Append(s, x)

\* The tags of a catalog are set; it may have none.
Tagged(at, h, hasTags) ==
  [at EXCEPT !.known = With(@, h), !.tagged = IF hasTags THEN @ \cup {h} ELSE @ \ {h}]

\* A listing is accepted, with a card or bare; an archive is mirrored; or the state
\* file is lost.
Place(i) ==
  /\ placed < MaxPlaced /\ placed' = placed + 1
  /\ \/ \E o \in Offers : shelf' = [shelf EXCEPT ![i].offers = With(@, o)]
     \/ \E h \in Catalogs, b \in BOOLEAN : shelf' = [shelf EXCEPT ![i] = Tagged(@, h, b)]
     \/ \E o \in Offers, b \in BOOLEAN :
          shelf' = [shelf EXCEPT ![i] = [Tagged(shelf[i], o.catalog, b)
                      EXCEPT !.offers = With(@, o), !.cards = @ \cup {o.catalog}]]
     \/ shelf' = [shelf EXCEPT ![i] = Empty]
  /\ UNCHANGED <<search, fetch, broadcasts>>

Least(S) == CHOOSE n \in S : \A m \in S : n <= m

\* The listing an indexer shows beside a catalog.
FirstOffer(i, h) ==
  LET of == {n \in DOMAIN shelf[i].offers : shelf[i].offers[n].catalog = h} IN
  IF of = {} THEN Nothing ELSE shelf[i].offers[Least(of)]

\* GET /catalogs: rows at places in the order of the catalogs known.
RowsOf(i) ==
  [n \in {m \in DOMAIN shelf[i].known : shelf[i].known[m] \in shelf[i].tagged} |->
     [catalog |-> shelf[i].known[n], offer |-> FirstOffer(i, shelf[i].known[n])]]

\* Answers of no indexer of this repository.
StrangeRows == [{1} -> CatalogRow]

\* GET /catalogs/:hash/card
CardsOf(i, h) ==
  IF h \in shelf[i].cards THEN {[manifest |-> h, json |-> h, offer |-> FirstOffer(i, h)]} ELSE {}

\* Mutant: the content is not compared with the manifest.
CoveredManifest(card, h) == card.manifest = h

\* parseCatalogCard: the manifest is the one the hash names, and lists the content.
Covered(card, h) == card.manifest = h /\ card.json = card.manifest

-------------------------------------------------------------------------------
(* catalog_search *)

SearchBegin(matching) ==
  /\ search.step = "idle"
  /\ search' = [NoSearch EXCEPT !.step = "ask", !.matching = matching,
                                !.pending = Bases]
  /\ UNCHANGED <<shelf, fetch, placed, broadcasts>>

\* One indexer answers, fails, or is something else.
SearchReply(i) ==
  LET asked == [search EXCEPT !.pending = @ \ {i}]
      answer == [asked EXCEPT !.answered = @ \cup {i}] IN
  /\ search.step = "ask" /\ i \in search.pending
  /\ \/ search' = asked
     \/ LET matching == {n \in DOMAIN RowsOf(i) : RowsOf(i)[n].catalog \in search.matching} IN
        search' = [answer EXCEPT !.rows[i] = [n \in matching |-> RowsOf(i)[n]]]
     \/ \E rows \in StrangeRows : search' = [answer EXCEPT !.rows[i] = rows, !.strange = TRUE]
  /\ UNCHANGED <<shelf, fetch, placed, broadcasts>>

\* The rows of those that answered, ...
Found ==
  UNION {{[base |-> i, at |-> n, catalog |-> search.rows[i][n].catalog,
           offer |-> search.rows[i][n].offer] : n \in DOMAIN search.rows[i]} : i \in Bases}

\* ... in their order.
Before(x, y) == x.base < y.base \/ (x.base = y.base /\ x.at < y.at)

\* The first row of each catalog.
Hits == {x \in Found : \A y \in Found : y.catalog = x.catalog => ~Before(y, x)}

\* All have answered: the search fails if none did, or asks for the details of the
\* hits it will show, limit at most.
SearchMerge(limit) ==
  /\ search.step = "ask" /\ search.pending = {}
  /\ LET shown == {x \in Hits : Cardinality({y \in Hits : Before(y, x)}) < limit} IN
     search' = IF search.answered = {} THEN [NoSearch EXCEPT !.step = "failed"]
               ELSE [NoSearch EXCEPT !.step = "detail", !.hits = shown, !.strange = search.strange,
                                     !.titles = [x \in shown |-> Waiting]]
  /\ UNCHANGED <<shelf, fetch, placed, broadcasts>>

\* The title of a hit: from its card, whoever answers it, or from its tags if there
\* is none that is covered.
SearchDetail(hit) ==
  /\ search.step = "detail" /\ search.titles[hit] = Waiting
  /\ \/ search' = [search EXCEPT !.titles[hit] = ByTags]
     \/ \E card \in CatalogCard :
          Covered(card, hit.catalog) /\ search' = [search EXCEPT !.titles[hit] = card.json]
  /\ UNCHANGED <<shelf, fetch, placed, broadcasts>>

SearchDone ==
  /\ search.step = "detail" /\ \A hit \in search.hits : search.titles[hit] # Waiting
  /\ search' = [search EXCEPT !.step = "done"]
  /\ UNCHANGED <<shelf, fetch, placed, broadcasts>>

\* The call is answered.
SearchEnds ==
  /\ search.step \in {"done", "failed"} /\ search' = NoSearch
  /\ UNCHANGED <<shelf, fetch, placed, broadcasts>>

-------------------------------------------------------------------------------
(* catalog_get_item *)

\* With a catalog hash nothing has to be located.
GetBegin(r) ==
  /\ fetch.step = "idle"
  /\ r.catalog # Nothing \/ r.offer # Nothing \/ r.item # Nothing
  /\ fetch' = IF r.catalog = Nothing THEN [NoFetch EXCEPT !.step = "locate", !.asked = r]
              ELSE [NoFetch EXCEPT !.step = "card", !.asked = r,
                                   !.catalog = r.catalog, !.offer = r.offer]
  /\ UNCHANGED <<shelf, search, placed, broadcasts>>

\* The row of the offer asked for, or of the item.
Matches(row, r) ==
  /\ row.offer # Nothing
  /\ \/ r.offer # Nothing /\ row.offer = r.offer
     \/ r.item # Nothing /\ row.offer.item = r.item

\* The first row that matches fixes the catalog; else the next indexer is asked.
Located(rows) ==
  LET found == {n \in DOMAIN rows : Matches(rows[n], fetch.asked)}
      row == rows[Least(found)] IN
  IF found # {}
  THEN [fetch EXCEPT !.step = "card", !.catalog = row.catalog, !.offer = row.offer]
  ELSE IF fetch.at = Sites THEN [fetch EXCEPT !.step = "failed"] ELSE [fetch EXCEPT !.at = @ + 1]

\* GET /catalogs of one indexer; a failure is an answer without rows.
Locate ==
  /\ fetch.step = "locate"
  /\ \/ \E rows \in {<<>>, RowsOf(fetch.at)} : fetch' = Located(rows)
     \/ \E rows \in StrangeRows : fetch' = [Located(rows) EXCEPT !.strange = TRUE]
  /\ UNCHANGED <<shelf, search, placed, broadcasts>>

\* The indexer asked next for the card: the one that had the row, then the others.
NextBase ==
  IF fetch.at \notin fetch.tried THEN fetch.at
  ELSE Least(Bases \ fetch.tried)

\* The card is answered, with its own listing if it has one.
Got(card) ==
  [fetch EXCEPT !.step = "done", !.content = card.json,
                !.offer = IF card.offer # Nothing THEN card.offer ELSE @]

GetCard ==
  /\ fetch.step = "card"
  /\ \/ \E card \in CardsOf(NextBase, fetch.catalog) :
          Covered(card, fetch.catalog) /\ fetch' = Got(card)
     \/ \E card \in CatalogCard :
          Covered(card, fetch.catalog) /\ fetch' = [Got(card) EXCEPT !.strange = TRUE]
     \/ LET tried == fetch.tried \cup {NextBase} IN
        fetch' = [fetch EXCEPT !.tried = tried, !.step = IF tried = Bases THEN "failed" ELSE @]
  /\ UNCHANGED <<shelf, search, placed, broadcasts>>

GetEnds ==
  /\ fetch.step \in {"done", "failed"} /\ fetch' = NoFetch
  /\ UNCHANGED <<shelf, search, placed, broadcasts>>

-------------------------------------------------------------------------------
(* trade_broadcast_receipt *)

Seeding == {"stop", "seed"}

\* The copy given, or the one stored, is signed if asked for, stored and written
\* into the bundle directory; the seeder of an earlier broadcast is stopped first.
CastBegin(c, copy, signer) ==
  LET signed == copy \cup signer IN
  /\ casts[c].step = "idle" /\ copy # {}
  /\ stored' = signed /\ package' = signed
  /\ casts' = [casts EXCEPT ![c] = [step |-> IF handle = Nothing THEN "seed" ELSE "stop",
                                    previous |-> handle]]
  /\ raced' = (raced \/ \E d \in Casts : casts[d].step \in Seeding)
  /\ UNCHANGED <<handle, seeders, seeded, unseeded, lookups>>

\* The receipt is stored, and the bundle directory or the file in it cannot be written,
\* which may leave it torn: the broadcast is rejected, and the seeder of an earlier one
\* runs on.
CastUnwritten(c, copy, signer) ==
  /\ casts[c].step = "idle" /\ copy # {}
  /\ stored' = copy \cup signer /\ package' \in {package, {}} /\ unseeded' = TRUE
  /\ UNCHANGED <<handle, seeders, casts, seeded, raced, lookups>>

\* Mutant: the seeder before is left alone.
WithoutNone(s) == seeders

Without(s) == seeders \ {s}

CastStops(c) ==
  /\ casts[c].step = "stop"
  /\ seeders' = Without(casts[c].previous)
  /\ casts' = [casts EXCEPT ![c] = [step |-> "seed", previous |-> Nothing]]
  /\ UNCHANGED <<stored, package, handle, seeded, raced, unseeded, lookups>>

CastSeeds(c) ==
  /\ casts[c].step = "seed" /\ seeded < MaxSeeded /\ seeded' = seeded + 1
  /\ handle' = [n |-> seeded + 1, of |-> package] /\ seeders' = seeders \cup {handle'}
  /\ casts' = [casts EXCEPT ![c].step = "post"] /\ unseeded' = FALSE
  /\ UNCHANGED <<stored, package, raced, lookups>>

\* The broadcast is rejected before any indexer hears of it; app.seeds keeps what
\* it had.
CastFails(c) ==
  /\ casts[c].step = "seed"
  /\ casts' = [casts EXCEPT ![c] = NoCast] /\ unseeded' = TRUE
  /\ UNCHANGED <<stored, package, handle, seeders, seeded, raced, lookups>>

\* Every indexer has answered the post, or failed: the broadcast is answered.
CastPosted(c) ==
  /\ casts[c].step = "post"
  /\ casts' = [casts EXCEPT ![c] = NoCast]
  /\ UNCHANGED <<stored, package, handle, seeders, seeded, raced, unseeded, lookups>>

\* The daemon ends, and its seeders with it.
CloseSeeds ==
  /\ handle' = Nothing /\ seeders' = {} /\ casts' = [c \in Casts |-> NoCast]
  /\ raced' = FALSE /\ unseeded' = FALSE
  /\ UNCHANGED <<stored, package, seeded, lookups>>

SearchNext ==
  \/ \E i \in Bases : Place(i) \/ SearchReply(i)
  \/ \E matching \in SUBSET Catalogs : SearchBegin(matching)
  \/ \E limit \in 1 .. RemoteLimit : SearchMerge(limit)
  \/ SearchDone \/ SearchEnds
  \/ \E hit \in search.hits : SearchDetail(hit)

GetNext ==
  \/ \E i \in Bases : Place(i)
  \/ \E r \in ItemRequest : GetBegin(r)
  \/ Locate \/ GetCard \/ GetEnds

CastNext ==
  \/ \E c \in Casts :
       \/ \E copy \in SUBSET Signers, signer \in {{}} \cup {{s} : s \in Signers} :
            CastBegin(c, copy, signer) \/ CastUnwritten(c, copy, signer)
       \/ CastStops(c) \/ CastSeeds(c) \/ CastFails(c) \/ CastPosted(c)
  \/ CloseSeeds

DiscoverySpec == DiscoveryInit /\ [][SearchNext \/ GetNext \/ CastNext]_discoveryVars

-------------------------------------------------------------------------------
(* Properties *)

\* The offer is the only one for its catalog.
OnlyOffer(o) == \A p \in Offers : p.catalog = o.catalog => p = o

\* The content a tool shows of a catalog is what its hash covers, whatever the
\* indexers answered, and no catalog is shown twice.  The title of a hit without a
\* card (ByTags), its object_id and its item come from the row of the indexer, which
\* no hash covers: as long as all who answered were indexers, that object_id is the
\* one of an offer of this catalog, and who asked for an offer or an item gets it
\* unless another offer has the same catalog, although the indexers changed between
\* the requests (catalog.ts:158-185, 206-290, 332-379).
AnswersFit ==
  /\ search.step = "done" =>
       \A hit \in search.hits :
         /\ search.titles[hit] \in {hit.catalog, ByTags}
         /\ \A other \in search.hits : other.catalog = hit.catalog => other = hit
         /\ ~search.strange /\ hit.offer # Nothing => hit.offer.catalog = hit.catalog
  /\ fetch.step = "done" =>
       /\ fetch.content = fetch.catalog
       /\ fetch.asked.catalog \in {Nothing, fetch.catalog}
       /\ ~fetch.strange /\ fetch.asked.catalog = Nothing =>
            /\ fetch.offer.catalog = fetch.catalog
            /\ OnlyOffer(fetch.offer) =>
                 fetch.offer = fetch.asked.offer \/ fetch.offer.item = fetch.asked.item

\* As long as no two broadcasts stop and seed at once, one seeder at most runs, it
\* seeds the receipt as the last broadcast wrote it, and it runs from the end of a
\* broadcast until the next, unless that one failed (broadcast.ts:46-67,
\* app.ts:142-149).
OneBroadcastSeed ==
  ~raced =>
    /\ Cardinality(seeders) <= 1
    /\ (\A c \in Casts : casts[c].step \notin Seeding) /\ handle # Nothing /\ ~unseeded =>
         seeders = {handle} /\ handle.of = package
===============================================================================
