------------------------------ MODULE MCDiscover ------------------------------
(***************************************************************************)
(* Discover for TLC.  The applications have every list of two tags of each *)
(* kind, full or empty; two tags of a subscription, one of ours or both,   *)
(* hold every kind of value.                                               *)
(***************************************************************************)
EXTENDS Discover

CONSTANTS t1, t2, k1, k2, k3

MCTexts == {t1, t2}
MCTags == [kind : {"cluster_name", "proxy_url"}, text : {t1, t2, Empty}]
            \cup {[kind |-> "other", text |-> t1]}
MCApplications ==
  LET App(tags) == [uris : {<<>>, <<t1>>, <<t2, t1>>}, displayName : {t2}, tags : tags]
  IN BoundedSeq(App(BoundedSeq(MCTags, 1)), 2) \cup SeqOf(App(BoundedSeq(MCTags, 3)), 1)

MCSubscriptions == {"s1", "s2"}
MCPages == {<<>>, <<"s1", Nil, "s2">>}
MCObjects ==
  LET Object(n, r, u) == [name |-> n, resource |-> r, url |-> u]
  IN {Object(t1, t1, t1), Object(t2, t1, t2),
      Object(Empty, t1, t1), Object(t1, Empty, Empty)}
MCKeys == {k1, k2, k3}
MCOurs == {k1, k2}
Symmetry == Permutations(MCOurs)
==============================================================================
