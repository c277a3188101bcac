-------------------------------- MODULE MCStation --------------------------------
(* An instance of Station for TLC. *)
EXTENDS Station

CONSTANTS self, p, q, ks, k1, k2, h1, h2

Bad == {"malformed"}
MCTags == {{"t"}, {"u"}, {"x"}, Bad}
MCManifest ==
  [h \in {h1, h2} |-> IF h = h1 THEN {<<"catalog.json", {"t"}>>, <<"c/catalog.json", {"u"}>>}
                      ELSE {<<"catalog.json", Bad>>}]
L1 == [publisher |-> p, hash |-> h1]
L2 == [publisher |-> p, hash |-> h2]
File(l, a, k) == [listing |-> l, signer |-> a, key |-> k]
Msg(f, k, h, j) == [file |-> f, agent |-> p, key |-> k, card |-> [hash |-> h, json |-> j]]
MCListings == {L1, L2}
MCUnlisted == {{"x"}}
Root == <<"catalog.json", {"t"}>>

\* The publisher's announcement with either card; the same listing bare, with
\* another key, and signed by another agent; and cards that do not verify.
MCAnnouncements ==
  {Msg(File(L1, p, k1), k1, h1, Root), Msg(File(L1, p, k1), k1, h1, <<"c/catalog.json", {"u"}>>),
   Msg(File(L1, p, k1), None, h1, Root), Msg(File(L1, p, k2), k2, h1, Root),
   Msg(File(L1, q, k2), k1, h1, Root),
   Msg(File(L2, p, k1), k1, h2, <<"catalog.json", Bad>>), Msg(File(L2, p, k1), k1, h2, Root),
   Msg(File(L2, p, k1), None, h2, Root)}

\* The second listing delivers the first one's catalog.
Offer(h, magnet, delivers) == [hash |-> h, magnet |-> magnet, delivers |-> delivers]
MCOffers == {Offer(1, TRUE, 1), Offer(2, TRUE, 1)}
===============================================================================
