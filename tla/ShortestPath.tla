---------------------------- MODULE ShortestPath ----------------------------
(***************************************************************************)
(* RoutingTable::calc: the shortest-path tree of a router over its         *)
(* link-state database.  Nothing calls it yet; the module is about a call  *)
(* on a database that does not change meanwhile.                           *)
(*                                                                         *)
(* Two of the maps' reads are writes: operator[] of std::map inserts a     *)
(* vertex full of zeros under a key that is missing.  getNextHop reads     *)
(* both maps this way.  The sets of next hops are left out.                *)
(*                                                                         *)
(* A link whose type is none of 1, 2 and 3 is stray: the switch has no     *)
(* case for it, so that its end becomes a candidate without an LSA, in the *)
(* tree or not, with a type that nothing has set.                          *)
(***************************************************************************)
EXTENDS Integers, Sequences, FiniteSets, Functions

CONSTANTS
  Root,       \* the id of the router that calculates
  Databases,  \* bound: the link-state databases it may have
  Pids,       \* what the uninitialised pid of the root may hold
  Types,      \* what the uninitialised type of a stray vertex may hold
  MaxCost     \* bound: a vertex beyond this cost is not followed (costs are ints)

\* A link of a router LSA, as it is read from a packet: the type is any byte, and
\* a metric has 16 bits.
Metric == {m \in Nat : m < 256 * 256}
LinkSet == [linkId : Nat, type : {t \in Nat : t < 256}, metric : Metric]

\* A database: the links of each router LSA and the routers of each network LSA,
\* by link state id.  No LSA has the id 0.
IsDatabase(db) ==
  /\ DOMAIN db.routers \cup DOMAIN db.networks \subseteq Nat \ {0}
  /\ IsFiniteSet(DOMAIN db.routers)
  /\ \A r \in DOMAIN db.routers : db.routers[r] \in Seq(LinkSet)
  /\ \A n \in DOMAIN db.networks : db.networks[n] \in Seq(Nat)

ASSUME DatabaseAssumption ==
  Root \in Nat \ {0} /\ Pids \subseteq Nat /\ \A db \in Databases : IsDatabase(db)

ASSUME BoundAssumption == Types \subseteq Int /\ MaxCost \in Nat

VARIABLES
  lsdb,     \* the database
  tree,     \* the vertices that are done, by id
  clist,    \* the candidates, by id
  newNode,  \* the key of the vertex that has entered the tree last
  fault     \* "none", the NULL that was read through, or "endless_walk"

vars == <<lsdb, tree, clist, newNode, fault>>

\* m[key] = node
Put(m, key, node) == [v \in DOMAIN m \cup {key} |-> IF v = key THEN node ELSE m[v]]

\* What operator[] inserts.
Zero == [id |-> 0, pid |-> 0, type |-> 0, cost |-> 0]

Touched(m, key) == IF key \in DOMAIN m THEN m ELSE Put(m, key, Zero)

\* Mutant of Without: the candidate is not erased.
WithoutNone(m, key) == m

Without(m, key) == Restrict(m, DOMAIN m \ {key})

Init ==
  /\ lsdb \in Databases
  /\ \E p \in Pids : tree = [v \in {Root} |-> [id |-> Root, pid |-> p, type |-> 1, cost |-> 0]]
  /\ clist = [v \in {} |-> Zero]
  /\ newNode = Root
  /\ fault = "none"

-----------------------------------------------------------------------------
(* getNextHop, as far as the two maps show it. *)

\* The vertices that the walk up the tree passes: those that are no routers.
Passed(t) == {v \in DOMAIN t : t[v].type # 1}

\* The pointers that the walk from ptr comes to.  It ends at one that it does not
\* pass; if there is none, it goes round.
Walk(t, ptr) ==
  LET on[k \in 0..Cardinality(DOMAIN t)] ==
        IF k = 0 THEN {ptr} ELSE on[k - 1] \cup {t[v].pid : v \in on[k - 1] \cap Passed(t)}
  IN  on[Cardinality(DOMAIN t)]

\* Mutant of getNextHop: the candidate is looked up, not inserted.
getNextHopFind(s, node, drKnown) ==
  LET ends == Walk(s.tree, s.tree[node.pid].pid) \ Passed(s.tree) IN
    IF ends = {} THEN [s EXCEPT !.fault = "endless_walk"]
    ELSE IF ends \subseteq DOMAIN s.tree THEN s
    ELSE [s EXCEPT !.tree = IF ends = {0} THEN @ ELSE Touched(@, CHOOSE end \in ends : TRUE)]

\* From the parent of the parent getNextHop looks for a router up the tree, where
\* a missing vertex is inserted and ends the walk.  If there is a router, the
\* parent's candidate is read.  Otherwise a vertex that is not a router is looked
\* for among the DRs: if an interface has none, or is the DR itself, a NULL
\* neighbour is read through.
getNextHop(s, node, drKnown) ==
  LET ends == Walk(s.tree, s.tree[node.pid].pid) \ Passed(s.tree) IN
    IF ends = {} THEN [s EXCEPT !.fault = "endless_walk"]
    ELSE IF ends \subseteq DOMAIN s.tree THEN [s EXCEPT !.clist = Touched(@, node.pid)]
    ELSE [s EXCEPT !.tree = IF ends = {0} THEN @ ELSE Touched(@, CHOOSE end \in ends : TRUE),
                   !.fault = IF node.type # 1 /\ ~drKnown THEN "null_dr" ELSE @]

-----------------------------------------------------------------------------
(* calc. *)

Stray(link) == link.type \notin 1..3

\* Mutant of Usable: a router needs no LSA.
UsableUnchecked(link) == link.type \in {1, 2} /\ (link.type = 2 => link.linkId \in DOMAIN lsdb.networks)

\* Links to networks fall through to the test for routers, and become routers.
Usable(link) ==
  /\ link.type \in {1, 2}
  /\ link.type = 2 => link.linkId \in DOMAIN lsdb.networks
  /\ link.linkId \in DOMAIN lsdb.routers

\* Mutant of Improves: the last link wins.
ImprovesAlways(s, node) == TRUE

\* The candidate is new, or nearer than before.
Improves(s, node) == node.id \in DOMAIN s.clist => node.cost < s.clist[node.id].cost

\* One link of the vertex that has entered the tree, whose end is a vertex of the
\* given type.
Relax(s, link, type, drKnown) ==
  LET node == [id |-> link.linkId, pid |-> newNode, type |-> type, cost |-> s.tree[newNode].cost + link.metric]
      seen == getNextHop(s, node, drKnown)
  IN
    IF s.fault # "none" \/ ~(Stray(link) \/ (Usable(link) /\ link.linkId \notin DOMAIN s.tree)) THEN s
    ELSE IF Improves(s, node)
         THEN IF seen.fault = "none" THEN [seen EXCEPT !.clist = Put(@, node.id, node)] ELSE seen
    ELSE IF s.clist[node.id].cost = node.cost THEN seen
    ELSE s

\* The links that are followed from the new vertex: the ones of a router, or to
\* the routers of a network, at no cost.
Edges ==
  IF tree[newNode].type = 1 THEN lsdb.routers[tree[newNode].id]
  ELSE LET routers == lsdb.networks[tree[newNode].id]
       IN  [k \in 1..Len(routers) |-> [linkId |-> routers[k], type |-> 1, metric |-> 0]]

\* All of them, in their order: what the maps may be then.
Relaxed ==
  LET links == Edges
      s[k \in 0..Len(links)] ==
        IF k = 0 THEN {[tree |-> tree, clist |-> clist, fault |-> "none"]}
        ELSE {Relax(r, links[k], type, drKnown) :
                r \in s[k - 1], type \in IF Stray(links[k]) THEN Types ELSE {1}, drKnown \in BOOLEAN}
  IN  s[Len(links)]

\* Mutant of Nearest: the first candidate is taken.
NearestFirst(m) == IF DOMAIN m = {} THEN 0 ELSE CHOOSE k \in DOMAIN m : \A j \in DOMAIN m : k <= j

LargestOf(S) == CHOOSE k \in S : \A j \in S : j <= k

\* Of the nearest candidates the one with the largest id is taken; but a network
\* before routers, if it has the largest id among the vertices that are no routers.
\* 0 stands for none: a candidate with the id 0 is not taken, and hides the others
\* if it is nearer.
Nearest(m) ==
  LET near == {k \in DOMAIN m \ {0} : \A j \in DOMAIN m : m[k].cost <= m[j].cost}
      networks == {k \in near : m[k].type # 1}
  IN
    IF near = {} THEN 0
    ELSE IF networks # {} /\ m[LargestOf(networks)].type = 2 THEN LargestOf(networks)
    ELSE LargestOf(near)

\* One turn of the endless loop.  Without a candidate the vertex stays.
calc ==
  /\ fault = "none"
  /\ tree[newNode].cost <= MaxCost
  /\ tree[newNode].id \in IF tree[newNode].type = 1 THEN DOMAIN lsdb.routers ELSE DOMAIN lsdb.networks
  /\ \E s \in Relaxed :
       LET id == Nearest(s.clist) IN
         /\ fault' = s.fault
         /\ IF s.fault # "none" \/ id = 0 THEN tree' = s.tree /\ clist' = s.clist /\ UNCHANGED newNode
            ELSE /\ tree' = Put(s.tree, id, s.clist[id])
                 /\ clist' = Without(s.clist, id)
                 /\ newNode' = id
  /\ UNCHANGED lsdb

\* The LSA of a router is not there: the root's own (every other is looked up
\* before), or that of a stray vertex.
noRouterLsa ==
  /\ fault = "none"
  /\ tree[newNode].type = 1
  /\ tree[newNode].id \notin DOMAIN lsdb.routers
  /\ fault' = "null_router_lsa"
  /\ UNCHANGED <<lsdb, tree, clist, newNode>>

\* Whatever is not a router is taken for a network, the zeros for network 0.
noNetworkLsa ==
  /\ fault = "none"
  /\ tree[newNode].type # 1
  /\ tree[newNode].id \notin DOMAIN lsdb.networks
  /\ fault' = "null_network_lsa"
  /\ UNCHANGED <<lsdb, tree, clist, newNode>>

Next == calc \/ noRouterLsa \/ noNetworkLsa

Spec == Init /\ [][Next]_vars
FairSpec == Spec /\ WF_vars(Next)

-----------------------------------------------------------------------------
(* What a shortest path is. *)

Routers == DOMAIN lsdb.routers

\* The costs of the usable links from u to v.
Costs(u, v) ==
  {lsdb.routers[u][k].metric :
     k \in {k \in 1..Len(lsdb.routers[u]) : Usable(lsdb.routers[u][k]) /\ lsdb.routers[u][k].linkId = v}}

Vertices == Routers \cup {Root}

\* The costs of the paths that are longer by a link.
Further(reached) ==
  [v \in Vertices |->
     reached[v] \cup UNION {{c + m : c \in reached[u], m \in Costs(u, v)} : u \in Routers}]

\* The costs of reaching each vertex from the root, over at most as many links
\* as there are routers.
Reached ==
  LET over[k \in 0..Cardinality(Routers)] ==
        IF k = 0 THEN [v \in Vertices |-> IF v = Root THEN {0} ELSE {}] ELSE Further(over[k - 1])
  IN  over[Cardinality(Routers)]

\* The distances of the vertices that can be reached.
Distance ==
  LET reached == Reached IN
    [v \in {v \in DOMAIN reached : reached[v] # {}} |-> CHOOSE c \in reached[v] : \A b \in reached[v] : c <= b]

Reachable == DOMAIN Distance

\* Some path to v that does not end with a link of the root is a shortest one.
MayBeIndirect(v) ==
  v # Root /\ LET d == Distance IN \E u \in DOMAIN d \ {Root} : \E m \in Costs(u, v) : d[u] + m = d[v]

\* Every path to v that is as short as it can be leads over another router.
MustBeIndirect(v) == v # Root /\ Distance[v] \notin Costs(Root, v)

-----------------------------------------------------------------------------
(* Properties. *)

\* The vertices of the tree that stand for routers.
InTree == {v \in DOMAIN tree : tree[v].type = 1}

\* The uninitialised pid happens to be the id of a router.
Garbled == tree[Root].type # 1 \/ tree[Root].pid \in Routers

\* A stray link has come within reach.
Strayed == \E v \in DOMAIN tree \cap Routers : \E k \in 1..Len(lsdb.routers[v]) : Stray(lsdb.routers[v][k])

Faults == {"none", "null_router_lsa", "null_network_lsa", "null_dr", "endless_walk"}

TypeOK ==
  /\ IsDatabase(lsdb)
  /\ newNode \in DOMAIN tree /\ Root \in DOMAIN tree
  /\ fault \in Faults
  /\ \A m \in {tree, clist} : \A v \in DOMAIN m :
       \/ m[v] = Zero
       \/ m[v].id = v /\ m[v].type \in {1} \cup Types /\ m[v].cost \in Nat
  /\ Strayed \/ \A v \in DOMAIN clist : clist[v] # Zero => v \in Routers

\* Whatever calc has put into the tree is at its shortest distance, unless the
\* root's pid is the id of a router (RoutingTable.cpp:25), or a stray link has come
\* within reach (RoutingTable.cpp:54).
ShortestSoFar ==
  ~Garbled /\ ~Strayed => LET d == Distance IN \A v \in InTree : v \in DOMAIN d /\ tree[v].cost = d[v]

\* With these two exceptions, calc ends in a crash only without the root's own LSA,
\* or if a shortest path may lead over another router: then getNextHop reads the
\* candidate of a vertex that has left the list, and the zeros are chosen next
\* (RoutingTable.cpp:127, 74).
CrashMeansIndirect ==
  \/ fault = "none" \/ Garbled \/ Strayed
  \/ fault = "null_router_lsa" /\ Root \notin Routers
  \/ fault = "null_network_lsa" /\ \E v \in Reachable : MayBeIndirect(v)

\* No vertex below the root's neighbours enters the tree, but at no cost, or by
\* way of a stray link.
NeighboursOnly == Strayed \/ \A v \in InTree \ {Root} : tree[v].pid # Root => tree[v].cost = 0

\* Every call of calc comes to one of two ends: a crash, or a tree that holds
\* every router that can be reached, in which case the root's own links lead to
\* all of them (RoutingTable.cpp:28).
CalcEnds ==
  <>[](\/ Garbled \/ Strayed \/ fault # "none"
       \/ InTree = Reachable /\ \A v \in Reachable : ~MustBeIndirect(v))
=============================================================================
