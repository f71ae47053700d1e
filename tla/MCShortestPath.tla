--------------------------- MODULE MCShortestPath ---------------------------
(***************************************************************************)
(* Databases for the runs of ShortestPath: three routers, of which 3 is    *)
(* also the id of a network, and a router 4 without an LSA.                *)
(***************************************************************************)
EXTENDS ShortestPath, TLC

Link(v, t, m) == [linkId |-> v, type |-> t, metric |-> m]

\* Of the root: up to two links.
RootLinks ==
  {Link(v, 1, m) : v \in {2, 3}, m \in {0, 2}} \cup {Link(3, 2, 1), Link(2, 2, 0), Link(4, 1, 0), Link(2, 3, 0)}
RootLsas == {<< >>} \cup {<<k>> : k \in RootLinks} \cup {<<j, k>> : j \in RootLinks, k \in RootLinks}

\* Of each of the others: up to one.
OtherLsas(v) == {<< >>} \cup {<<Link(u, 1, m)>> : u \in {1, 2, 3} \ {v}, m \in {0, 1}}

\* A network of two of the routers.
Network == 3 :> <<2, 3>>

\* Databases of links that the switch has a case for.
CasedDatabases ==
  {[routers |-> (1 :> r) @@ (2 :> s) @@ (3 :> t), networks |-> Network] :
     r \in RootLsas, s \in OtherLsas(2), t \in OtherLsas(3)}
  \cup {[routers |-> (1 :> r) @@ (2 :> s), networks |-> Network] : r \in RootLsas, s \in OtherLsas(2)}
  \cup {[routers |-> (2 :> s), networks |-> << >>] : s \in OtherLsas(2)}

\* Virtual links, type 4: of the root, next to another link, and of router 2; to a
\* router, the root itself, a network, and a vertex without any LSA.
StrayLinks == {Link(v, 4, m) : v \in 0..4, m \in {0, 1}}
StrayDatabases ==
  {[routers |-> (1 :> r) @@ (2 :> s), networks |-> n @@ (4 :> <<2>>)] :
     r \in {<<k>> : k \in StrayLinks} \cup {<<Link(2, 1, 1), k>> : k \in StrayLinks} \cup {<<Link(2, 1, 1)>>},
     s \in {<< >>} \cup {<<k>> : k \in StrayLinks},
     n \in {<< >>, 1 :> <<1, 2>>, 3 :> <<2, 3>>}}

MCDatabases == CasedDatabases \cup StrayDatabases
=============================================================================
