---------------------------- MODULE MCAdjacency -----------------------------
(***************************************************************************)
(* Values of the constants of Adjacency for TLC.                           *)
(***************************************************************************)
EXTENDS Adjacency, TLC

CONSTANTS a, b, c

\* Two routers of this code; 2 becomes the master.  Each has LSAs that it generated
\* or got from routers that are no longer there; in SharedDbs, router 2 has just
\* started and its own LSA is still in the queue.
PairOwn == 1 :> a @@ 2 :> b
SlaveTwo == 1 :> <<a, c>> @@ 2 :> <<b>>
MasterTwo == 1 :> <<a>> @@ 2 :> <<b, c>>
SlaveMore == 1 :> <<a, b>> @@ 2 :> <<b>>
PairDbs == {SlaveTwo, MasterTwo, SlaveMore}
StuckDbs == {MasterTwo}
ReplayDbs == {SlaveTwo}
SharedDbs == {1 :> <<a>> @@ 2 :> <<a>>}

\* One router of this code between two foreign ones with smaller ids.
HubOwn == 3 :> a
HubDbs == {3 :> <<a>>}

\* One router of this code, just started, whose foreign neighbour has the larger id.
PollerOwn == 1 :> a
PollerDbs == {1 :> << >>}
=============================================================================
