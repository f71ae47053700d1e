----------------------------- MODULE Adjacency ------------------------------
(***************************************************************************)
(* How two routers on a LAN bring up an adjacency and tell each other      *)
(* which LSAs they hold: Neighbor.cpp (the neighbour state machine) and    *)
(* the handlers and threads of PacketManager.cpp that drive it.            *)
(*                                                                         *)
(* Every router of Local runs this code.  Its threads are: recvHelloPacket *)
(* (the receive thread, one packet at a time, a DD packet in three steps   *)
(* because another thread reads the state in between); one                 *)
(* sendEmptyDDPacets thread per entry into EXSTART; one sendLSReq thread   *)
(* per entry into LOADING; PacketRetransmitter::run, reduced here to "any  *)
(* registered packet may be sent at any time" (its timing is the module    *)
(* PacketRetransmitter); and LSAManager::lsaGenerate, which replaces the   *)
(* router's own LSA in two steps.  Routers of Foreign are other OSPF       *)
(* implementations: they send any well-formed packet.                      *)
(*                                                                         *)
(* net holds every packet ever sent, so that packets are duplicated,       *)
(* delayed and reordered at will, and one that nobody ever receives is     *)
(* lost.  For liveness a packet that is sent once must not arrive for      *)
(* ever: with Lossy, a DD leaves net when it is handled, or lost.          *)
(***************************************************************************)
EXTENDS Integers, Sequences, FiniteSets

CONSTANTS
  Local,       \* ids of the routers that run this code
  Foreign,     \* ids of other OSPF routers on the LAN
  Lsa,         \* LSAs, each standing for its (state_id, ad_router)
  Own,         \* Own[r]: the router LSA that r originates
  InitialDbs,  \* the databases to begin with: for every router the LSAs it has, in order
  Refreshing,  \* the local routers whose lsaGenerate thread has work; one that starts has
  LateHello,   \* the local routers whose hellos may arrive late
  ForeignSeq,  \* DD sequence numbers that foreign routers use
  ForeignLsa,  \* LSAs that foreign routers describe and update
  MaxDd,       \* bound: ddNum of a master
  MaxSenders,  \* bound: sendEmptyDDPacets threads alive per neighbour
  MaxRequesters, \* bound: sendLSReq threads alive per neighbour
  MaxPackets,  \* bound: packets registered for retransmission, per router
  MaxLsdb,     \* bound: length of routerLSAList
  MaxSummary,  \* bound: length of a summary list
  Restarting,  \* the local routers that may be restarted
  MaxRestarts, \* bound: restarts in one behaviour
  Lossy        \* whether packets leave net: once handled, or lost (for liveness)

Router == Local \cup Foreign

ASSUME RouterAssumption == Local \subseteq Nat \ {0} /\ Foreign \subseteq Nat \ {0} /\ Local \cap Foreign = {}
ASSUME DbAssumption == /\ Own \in [Local -> Lsa]
                       /\ InitialDbs \subseteq [Local -> Seq(Lsa)]
                       /\ Refreshing \subseteq Local /\ Restarting \subseteq Refreshing /\ LateHello \subseteq Local
ASSUME ForeignAssumption == ForeignSeq \subseteq Nat /\ ForeignLsa \subseteq Lsa
ASSUME BoundAssumption == /\ MaxDd \in 0..126
                          /\ {MaxSenders, MaxRequesters, MaxPackets, MaxLsdb, MaxSummary, MaxRestarts} \subseteq Nat
                          /\ Lossy \in BOOLEAN

\* <<self, peer>>: the Neighbor object self keeps for peer.
Link == {l \in Local \X Router : l[1] # l[2]}

\* Nbr_State; NoNbr stands for "no Neighbor object yet".
NoNbr == -1
DOWN == 0
INIT == 2
TWOWAY == 3
EXSTART == 4
EXCHANGE == 5
LOADING == 6
FULL == 7

\* Where a sendEmptyDDPacets thread is: at the loop's test of the state, at
\* the second test (isEmpty), or about to read ddNum and send, with isEmpty
\* true ("init") or false ("plain").
SenderPc == {"top", "test", "init", "plain"}

VARIABLES
  fault,       \* fault[r]: "none", or what ended r's process
  nbr,         \* nbr[l]: the Neighbor object
  handling,    \* handling[r]: the DD packet inside recvHelloPacket, or NoPacket
  senders,     \* senders[l][pc]: sendEmptyDDPacets threads at pc
  requesters,  \* requesters[l]: sendLSReq threads alive
  packetList,  \* packetList[r]: the retransmitter's packets, [id, dd]
  currentId,   \* currentId[r]: the retransmitter's next number
  lsdb,        \* lsdb[r]: routerLSAList
  generating,  \* generating[r]: lsaGenerate is between remove and insert
  net,         \* packets addressed to local routers
  restarts,    \* how many restarts have happened
  hist         \* hist[l]: history of the link, see History

vars == <<fault, nbr, handling, senders, requesters, packetList, currentId,
          lsdb, generating, net, restarts, hist>>

threads == <<senders, requesters>>
schedule == <<packetList, currentId>>
database == <<lsdb, generating>>

-----------------------------------------------------------------------------
(* Packets. *)

\* A DD packet carries the three flags, the sequence number and LSA headers;
\* body is false for a packet that ends after the 24 byte OSPF header, which
\* the receiver parses as a DD of zeros (msgbuf is cleared before recv).
DD(l, i, m, ms, seq, hdrs, body) ==
  [type |-> "dd", from |-> l[1], to |-> l[2], i |-> i, m |-> m, ms |-> ms,
   seq |-> seq, hdrs |-> hdrs, body |-> body]

EmptyDD(l) == DD(l, FALSE, FALSE, FALSE, 0, {}, FALSE)

DDPacket == [type : {"dd"}, from : Router, to : Router, i : BOOLEAN, m : BOOLEAN,
             ms : BOOLEAN, seq : Nat, hdrs : SUBSET Lsa, body : BOOLEAN]

LSReq(l, x) == [type |-> "lsreq", from |-> l[1], to |-> l[2], lsa |-> x]
LSUpdate(l, x) == [type |-> "lsu", from |-> l[1], to |-> l[2], lsa |-> x]

LSPacket == [type : {"lsreq", "lsu"}, from : Router, to : Router, lsa : Lsa]

\* sendDDPackets puts ddNum into the packet in host byte order, so that the
\* receiver's ntohl sees it with its four bytes reversed.
SwapBytes(n) ==
  (n % 256) * 16777216 + ((n \div 256) % 256) * 65536
    + ((n \div 65536) % 256) * 256 + (n \div 16777216)

Reverse(l) == <<l[2], l[1]>>

\* Only packets to local routers are followed further.
Followed(ps) == {p \in ps : p.to \in Local}
Sent(ps) == net \cup Followed(ps)

\* What a foreign router may send to r: an opening, or headers.
ForeignDD(r) ==
  {p \in [type : {"dd"}, from : Foreign, to : {r}, i : BOOLEAN, m : BOOLEAN, ms : BOOLEAN,
          seq : ForeignSeq, hdrs : SUBSET ForeignLsa, body : {TRUE}] :
     p.i => p.m /\ p.ms /\ p.hdrs = {}}

Incoming(r, type) == {p \in net : p.to = r /\ p.type = type}

-----------------------------------------------------------------------------
(* Data of a router. *)

Neighbor(l) ==
  [st |-> INIT, isMaster |-> FALSE, ddNum |-> 0, lastSeq |-> 0, lastDD |-> EmptyDD(l),
   unAck |-> 0, summary |-> << >>, reqList |-> {}]

NoNeighbor(l) == [Neighbor(l) EXCEPT !.st = NoNbr]

\* unAck is unAckDDList[ddNum], the only entry that is ever looked up; the map
\* has none for sequence number 0, and yields 0 for it.
NeighborType ==
  [st : NoNbr..FULL, isMaster : BOOLEAN, ddNum : Nat, lastSeq : Nat, lastDD : DDPacket,
   unAck : Nat, summary : Seq(Lsa), reqList : SUBSET Lsa]

\* History: headers in accepted DDs, headers put into DDs, LSAs requested,
\* whether a sender thread has sent a DD with all flags clear.
History == [heard : SUBSET Lsa, told : SUBSET Lsa, asked : SUBSET Lsa, stray : BOOLEAN]

NoHistory == [heard |-> {}, told |-> {}, asked |-> {}, stray |-> FALSE]

\* The local variables of the DD handler: isDup, seq_num and the packet.
Handled == [dup : BOOLEAN, seq : Nat, dd : DDPacket]

NoPacket == [type |-> "none"]

Elems(s) == {s[k] : k \in 1..Len(s)}

\* The first element, as a set: what fits into a DD of this code.
First(s) == IF s = << >> THEN {} ELSE {Head(s)}

Rest(s) == IF s = << >> THEN << >> ELSE Tail(s)

\* vector::erase of the first x, if there is one.
Without(s, x) ==
  IF x \notin Elems(s) THEN s
  ELSE LET k == CHOOSE j \in 1..Len(s) : s[j] = x /\ \A h \in 1..j - 1 : s[h] # x
       IN  [j \in 1..Len(s) - 1 |-> IF j < k THEN s[j] ELSE s[j + 1]]

\* Mutant of Replaced: the insertion is forgotten.
ReplacedByNothing(s, x) == Without(s, x)

\* LSDatabase::remove, then insertRouterLSA.
Replaced(s, x) == Append(Without(s, x), x)

Running(r) == fault[r] = "none"

\* The receive thread is at recv.
Idle(r) == Running(r) /\ handling[r] = NoPacket

SenderCount(l) ==
  senders[l]["top"] + senders[l]["test"] + senders[l]["init"] + senders[l]["plain"]

NoSenders == [pc \in SenderPc |-> 0]

Init ==
  /\ fault = [r \in Local |-> "none"]
  /\ nbr = [l \in Link |-> NoNeighbor(l)]
  /\ handling = [r \in Local |-> NoPacket]
  /\ senders = [l \in Link |-> NoSenders]
  /\ requesters = [l \in Link |-> 0]
  /\ packetList = [r \in Local |-> {}]
  /\ currentId = [r \in Local |-> 0]
  /\ lsdb \in InitialDbs
  /\ generating = [r \in Local |-> FALSE]
  /\ net = {}
  /\ restarts = 0
  /\ hist = [l \in Link |-> NoHistory]

-----------------------------------------------------------------------------
(* The receive thread: hello packets. *)

\* Mutant of TwoWay: ddNum is left as the constructor leaves it.
TwoWayUninitialised(n) ==
  IF n.st = INIT
  THEN [n EXCEPT !.st = EXSTART, !.ddNum = -1, !.unAck = 0, !.isMaster = TRUE]
  ELSE n

\* on2wayRecved: INIT -> EXSTART and a new sendEmptyDDPacets thread.  The
\* lists and the last sequence number of an earlier adjacency stay.
TwoWay(n) ==
  IF n.st = INIT
  THEN [n EXCEPT !.st = EXSTART, !.ddNum = 0, !.unAck = 0, !.isMaster = TRUE]
  ELSE n

Spawn(l, n) ==
  IF n.st = INIT
  THEN /\ SenderCount(l) < MaxSenders
       /\ senders' = [senders EXCEPT ![l]["top"] = @ + 1]
  ELSE UNCHANGED senders

\* on1wayRecved.
OneWay(n) == IF n.st >= TWOWAY THEN [n EXCEPT !.st = INIT] ELSE n

\* A hello of the peer that lists us (twoWay) or not.  It creates the
\* Neighbor object when there is none (createNbr, then HELLORECV).
recvHello(l, twoWay) ==
  LET n == IF nbr[l].st = NoNbr THEN Neighbor(l) ELSE nbr[l] IN
    /\ Idle(l[1])
    /\ IF twoWay THEN nbr' = [nbr EXCEPT ![l] = TwoWay(n)] /\ Spawn(l, n)
                 ELSE nbr' = [nbr EXCEPT ![l] = OneWay(n)] /\ UNCHANGED senders
    /\ UNCHANGED <<fault, handling, requesters, schedule, database, net, restarts, hist>>

\* Mutant of Hears: a hello lists routers it has not heard.
HearsAnything(l, twoWay) == l \in Link /\ twoWay \in BOOLEAN

\* sendHello lists every Neighbor object it has, whatever its state, and
\* neighbours are never removed.  Hellos are sent every ten seconds.  One whose
\* list was built before the router heard us (or before it was restarted) may be
\* overtaken by what the router has sent since; foreign hellos say what they like.
Hears(l, twoWay) ==
  \/ l[2] \in Foreign
  \/ l[2] \in Local /\ Running(l[2]) /\ twoWay = (nbr[Reverse(l)].st # NoNbr)
  \/ l[2] \in LateHello /\ (twoWay => restarts > 0)

-----------------------------------------------------------------------------
(* The receive thread: DD packets.  The handler runs in one step, except     *)
(* that the state it has written by 2WAYRECV, and by NEGOTIATIONDONE, can be *)
(* read by the sender threads before it goes on with the same packet.        *)

\* What reaches the DD handler of r.
ArrivingDD(r) == Incoming(r, "dd") \cup ForeignDD(r)

\* The handler's variables when a packet has arrived.
Arrived(l, p) == [dup |-> nbr[l].lastSeq = p.seq, seq |-> p.seq, dd |-> p]

\* The DD of l[2] that the receive thread of l[1] handles: the one it is in the
\* middle of, or any that arrives.
Current(l) ==
  IF ~Running(l[1]) THEN {}
  ELSE IF handling[l[1]] = NoPacket
       THEN {Arrived(l, p) : p \in {q \in ArrivingDD(l[1]) : q.from = l[2]}}
       ELSE {h \in {handling[l[1]]} : h.dd.from = l[2]}

\* The neighbour once the last sequence number has been noted (idempotent).
Noted(l, h) == [nbr[l] EXCEPT !.lastSeq = h.dd.seq]

\* net without the packet, if the handler is at its beginning.
Taken(l, h) == IF Lossy /\ handling[l[1]] = NoPacket THEN net \ {h.dd} ELSE net

GoesOn(l, h) == handling' = [handling EXCEPT ![l[1]] = h]
Returns(l) == handling' = [handling EXCEPT ![l[1]] = NoPacket]

\* getNbrByIp returned NULL and the handler reads through it.
recvOrphanDD(l, h) ==
  /\ nbr[l].st = NoNbr
  /\ fault' = [fault EXCEPT ![l[1]] = "null_nbr"]
  /\ net' = Taken(l, h)
  /\ UNCHANGED <<nbr, handling, threads, schedule, database, restarts, hist>>

\* A DD in INIT is a sign of two-way communication.
wakeDD(l, h) ==
  /\ nbr[l].st = INIT
  /\ nbr' = [nbr EXCEPT ![l] = TwoWay(Noted(l, h))]
  /\ Spawn(l, nbr[l])
  /\ GoesOn(l, h)
  /\ net' = Taken(l, h)
  /\ UNCHANGED <<fault, requesters, schedule, database, restarts, hist>>

\* The peer opens the exchange and its id is the larger one: it is the master.
PeerLeads(l, p) == p.i /\ p.m /\ p.ms /\ l[2] > l[1]

\* Mutant of PeerFollows: the ids are not compared.
PeerFollowsAnyId(l, p) == ~p.i /\ ~p.ms /\ p.seq = nbr[l].ddNum

\* The peer answers our opening and its id is the smaller one: it is the slave.
PeerFollows(l, p) == ~p.i /\ ~p.ms /\ p.seq = nbr[l].ddNum /\ l[2] < l[1]

\* onNegotiationDone with initSummaryList, which appends the whole database to
\* what an earlier adjacency has left of the list.
SummaryFits(l) == Len(nbr[l].summary) + Len(lsdb[l[1]]) <= MaxSummary
NegotiationDone(l, n) == [n EXCEPT !.st = EXCHANGE, !.summary = @ \o lsdb[l[1]]]

negotiateAsSlave(l, h) ==
  /\ nbr[l].st = EXSTART
  /\ PeerLeads(l, h.dd)
  /\ SummaryFits(l)
  /\ nbr' = [nbr EXCEPT ![l] =
               NegotiationDone(l, [Noted(l, h) EXCEPT !.isMaster = TRUE, !.ddNum = h.dd.seq])]
  /\ GoesOn(l, [h EXCEPT !.seq = @ + 1])
  /\ net' = Taken(l, h)
  /\ UNCHANGED <<fault, threads, schedule, database, restarts, hist>>

negotiateAsMaster(l, h) ==
  /\ nbr[l].st = EXSTART
  /\ PeerFollows(l, h.dd)
  /\ SummaryFits(l)
  /\ nbr' = [nbr EXCEPT ![l] = NegotiationDone(l, [Noted(l, h) EXCEPT !.isMaster = FALSE])]
  /\ GoesOn(l, h)
  /\ net' = Taken(l, h)
  /\ UNCHANGED <<fault, threads, schedule, database, restarts, hist>>

\* Neither: the handler goes back to recv.
ignoreDD(l, h) ==
  /\ nbr[l].st = EXSTART
  /\ ~PeerLeads(l, h.dd) /\ ~PeerFollows(l, h.dd)
  /\ nbr' = [nbr EXCEPT ![l] = Noted(l, h)]
  /\ Returns(l)
  /\ net' = Taken(l, h)
  /\ UNCHANGED <<fault, threads, schedule, database, restarts, hist>>

\* Mutant of Replay: a repeated poll is ignored.
ReplayNothing(l, h) == IF h.dup /\ nbr[l].isMaster THEN {} ELSE {}

\* A slave that sees the last sequence number again repeats its last DD, even
\* when it has never sent one.
Replay(l, h) == IF h.dup /\ nbr[l].isMaster THEN {nbr[l].lastDD} ELSE {}

\* Mutant of Accepts: a master takes any reply for the one it waits for.
AcceptsAnyReply(l, h) ==
  nbr[l].st = EXCHANGE /\ (nbr[l].isMaster => h.seq = nbr[l].ddNum + 1)

\* Mutant of Accepts: a slave takes a repeated poll for a new one.
AcceptsRepeatedPoll(l, h) ==
  /\ nbr[l].st = EXCHANGE
  /\ \/ h.seq = nbr[l].ddNum
     \/ nbr[l].isMaster /\ h.seq = nbr[l].ddNum + 1

\* Mutant of Accepts: the exchange goes on in LOADING.
AcceptsLoading(l, h) ==
  /\ nbr[l].st >= EXCHANGE
  /\ h.seq = nbr[l].ddNum + (IF nbr[l].isMaster THEN 1 ELSE 0)

Accepts(l, h) ==
  /\ nbr[l].st = EXCHANGE
  /\ h.seq = nbr[l].ddNum + (IF nbr[l].isMaster THEN 1 ELSE 0)

discardDD(l, h) ==
  /\ nbr[l].st >= EXCHANGE
  /\ ~Accepts(l, h)
  /\ net' = Taken(l, h) \cup Followed(Replay(l, h))
  /\ nbr' = [nbr EXCEPT ![l] = Noted(l, h)]
  /\ Returns(l)
  /\ UNCHANGED <<fault, threads, schedule, database, restarts, hist>>

\* An accepted packet without a body: the loop over the headers starts behind
\* its end pointer, never meets it, and leaves the buffer.
runaway(l, h) ==
  /\ Accepts(l, h)
  /\ ~h.dd.body
  /\ net' = Taken(l, h) \cup Followed(Replay(l, h))
  /\ fault' = [fault EXCEPT ![l[1]] = "runaway"]
  /\ UNCHANGED <<nbr, handling, threads, schedule, database, restarts, hist>>

\* Mutant of Missing: the database is not searched.
MissingAll(r, hdrs) == {hdrs}

\* The headers of hdrs that the handler does not find in the database.  It
\* searches the vector without the mutex: while lsaGenerate is changing it, any
\* of them may be missed.
Missing(r, hdrs) ==
  LET absent == hdrs \ Elems(lsdb[r])
  IN  IF generating[r] THEN {m \in SUBSET hdrs : absent \subseteq m} ELSE {absent}

\* Mutant of Listed: the headers are dropped.
ListedNothing(l, h, missing) == Noted(l, h)

\* They go on the request list.
Listed(l, h, missing) == [Noted(l, h) EXCEPT !.reqList = @ \cup missing]

\* Mutant of ExchangeDone: the request list is not looked at.
ExchangeDoneFull(n) == [n EXCEPT !.st = FULL]

\* onExchageDone: FULL when nothing is to be requested; otherwise LOADING and
\* a new sendLSReq thread.  (FULL also generates a network LSA when the router
\* is the DR, and drops it.)
ExchangeDone(n) == [n EXCEPT !.st = IF n.reqList = {} THEN FULL ELSE LOADING]

Request(l, n) ==
  IF n.st = LOADING
  THEN requesters[l] < MaxRequesters /\ requesters' = [requesters EXCEPT ![l] = @ + 1]
  ELSE UNCHANGED requesters

\* History: headers accepted, and headers put into a DD.
Learned(x, heard, told) == [x EXCEPT !.heard = @ \cup heard, !.told = @ \cup told]

Noticed(l, heard, told) == hist' = [hist EXCEPT ![l] = Learned(hist[l], heard, told)]

\* The reply carries the next header of the summary list; the more-bit is
\* never set.  A poll without the more-bit ends the exchange.
acceptAsSlave(l, h, missing) ==
  LET n == Listed(l, h, missing)
      reply == DD(l, FALSE, FALSE, FALSE, h.dd.seq, First(n.summary), TRUE)
      next == [n EXCEPT !.ddNum = h.dd.seq, !.summary = Rest(@), !.lastDD = reply]
      last == IF h.dd.m THEN next ELSE ExchangeDone(next)
  IN
    /\ Accepts(l, h)
    /\ h.dd.body
    /\ nbr[l].isMaster
    /\ net' = Taken(l, h) \cup Followed(Replay(l, h) \cup {reply})
    /\ nbr' = [nbr EXCEPT ![l] = last]
    /\ Request(l, last)
    /\ Returns(l)
    /\ Noticed(l, h.dd.hdrs, reply.hdrs)
    /\ UNCHANGED <<fault, senders, schedule, database, restarts>>

\* Mutant of Unregistered: the acknowledged poll stays registered.
UnregisteredNothing(l) == packetList[l[1]]

\* Mutant of Unregistered: everything registered since goes as well.
UnregisteredFrom(l) == {q \in packetList[l[1]] : q.id < nbr[l].unAck}

\* unregisterPacket(unAckDDList[ddNum]).  Until the first poll of this
\* adjacency has been registered that is packet number 0, whoever's it is.
Unregistered(l) == {q \in packetList[l[1]] : q.id # nbr[l].unAck}

\* Mutant of NothingLeft: only the slave is asked.
NothingLeftToHear(l, h) == l \in Link /\ ~h.dd.m

\* The master's summary list is empty, and the slave says that its is.
NothingLeft(l, h) == nbr[l].summary = << >> /\ ~h.dd.m

\* The acknowledgement of the last poll, with nothing left on either side.
acceptLastAck(l, h, missing) ==
  LET last == ExchangeDone([Listed(l, h, missing) EXCEPT !.ddNum = @ + 1, !.unAck = 0])
  IN
    /\ Accepts(l, h)
    /\ h.dd.body
    /\ ~nbr[l].isMaster
    /\ NothingLeft(l, h)
    /\ packetList' = [packetList EXCEPT ![l[1]] = Unregistered(l)]
    /\ nbr' = [nbr EXCEPT ![l] = last]
    /\ Request(l, last)
    /\ Returns(l)
    /\ Noticed(l, h.dd.hdrs, {})
    /\ net' = Taken(l, h)
    /\ UNCHANGED <<fault, senders, currentId, database, restarts>>

\* Any other acknowledgement: the next poll, with the next header, is
\* registered.  It is not sent here; the retransmission thread sends it when
\* its interval is up.  The more-bit is computed, but written into the packet
\* received, so the poll never has it.
acceptAck(l, h, missing) ==
  LET n == Listed(l, h, missing)
      poll == DD(l, FALSE, FALSE, TRUE, n.ddNum + 1, First(n.summary), TRUE)
      id == currentId[l[1]]
  IN
    /\ Accepts(l, h)
    /\ h.dd.body
    /\ ~n.isMaster
    /\ ~NothingLeft(l, h)
    /\ n.ddNum < MaxDd
    /\ id < MaxPackets
    /\ packetList' = [packetList EXCEPT ![l[1]] = Unregistered(l) \cup {[id |-> id, dd |-> poll]}]
    /\ currentId' = [currentId EXCEPT ![l[1]] = id + 1]
    /\ nbr' = [nbr EXCEPT ![l] = [n EXCEPT !.ddNum = @ + 1, !.summary = Rest(@), !.unAck = id]]
    /\ Returns(l)
    /\ Noticed(l, h.dd.hdrs, poll.hdrs)
    /\ net' = Taken(l, h)
    /\ UNCHANGED <<fault, threads, database, restarts>>

-----------------------------------------------------------------------------
(* The receive thread: LS requests and LS updates. *)

\* How the process ends on an LSA that is not found.  History: whether it has
\* described the LSA to this neighbour since it was started.
NullLsa(l, x) == IF x \in hist[l].told THEN "null_lsa" ELSE "null_unknown_lsa"

\* The LSA asked for goes into an LS update; one that is not found is a NULL
\* pointer that the handler reads through.
recvLSReq(l, x) ==
  /\ Idle(l[1])
  /\ \/ x \in Elems(lsdb[l[1]]) /\ net' = Sent({LSUpdate(l, x)}) /\ UNCHANGED fault
     \/ {x} \in Missing(l[1], {x}) /\ fault' = [fault EXCEPT ![l[1]] = NullLsa(l, x)] /\ UNCHANGED net
  /\ UNCHANGED <<nbr, handling, threads, schedule, database, restarts, hist>>

\* An LSA that is missing is inserted; one that is newer than the one held
\* replaces it (remove, then insert); any other is dropped.  All three are
\* acknowledged with a packet no router of this code reads.  An LSA that this
\* code originates is never newer: its sequence number is always 0x80000000.
recvLSUpdate(l, x) ==
  /\ Idle(l[1])
  /\ \/ /\ {x} \in Missing(l[1], {x})
        /\ Len(lsdb[l[1]]) < MaxLsdb
        /\ lsdb' = [lsdb EXCEPT ![l[1]] = Append(@, x)]
     \/ /\ x \in Elems(lsdb[l[1]])
        /\ \/ /\ \A r \in Local : x # Own[r]
              /\ lsdb' = [lsdb EXCEPT ![l[1]] = Replaced(@, x)]
           \/ UNCHANGED lsdb
  /\ UNCHANGED <<fault, nbr, handling, threads, schedule, generating, net, restarts, hist>>

-----------------------------------------------------------------------------
(* The sendEmptyDDPacets threads of a neighbour. *)

\* One thread goes from a to b.
Moved(s, a, b) == [s EXCEPT ![a] = @ - 1, ![b] = @ + 1]

Move(l, a, b) == senders' = [senders EXCEPT ![l] = Moved(senders[l], a, b)]

\* The loop's test: leave, or go on to sendDDPackets.
sendEmptyDDPacets(l) ==
  /\ Running(l[1])
  /\ senders[l]["top"] > 0
  /\ IF nbr[l].st = EXSTART
     THEN Move(l, "top", "test")
     ELSE senders' = [senders EXCEPT ![l]["top"] = @ - 1]
  /\ UNCHANGED <<fault, nbr, handling, requesters, schedule, database, net, restarts, hist>>

\* sendDDPackets reads the state a second time, to set isEmpty.
readEmpty(l) ==
  /\ Running(l[1])
  /\ senders[l]["test"] > 0
  /\ Move(l, "test", IF nbr[l].st = EXSTART THEN "init" ELSE "plain")
  /\ UNCHANGED <<fault, nbr, handling, requesters, schedule, database, net, restarts, hist>>

\* It then reads ddNum and sends: all flags set, or all clear.
sendDDPackets(l, isEmpty) ==
  /\ Running(l[1])
  /\ senders[l][IF isEmpty THEN "init" ELSE "plain"] > 0
  /\ Move(l, IF isEmpty THEN "init" ELSE "plain", "top")
  /\ net' = Sent({DD(l, isEmpty, isEmpty, isEmpty, SwapBytes(nbr[l].ddNum), {}, TRUE)})
  /\ IF isEmpty THEN UNCHANGED hist ELSE hist' = [hist EXCEPT ![l].stray = TRUE]
  /\ UNCHANGED <<fault, nbr, handling, requesters, schedule, database, restarts>>

-----------------------------------------------------------------------------
(* The sendLSReq threads of a neighbour. *)

\* One request per entry; the entry is erased as soon as it has been asked for.
sendLSReq(l, x) ==
  /\ Running(l[1])
  /\ requesters[l] > 0
  /\ x \in nbr[l].reqList
  /\ net' = Sent({LSReq(l, x)})
  /\ nbr' = [nbr EXCEPT ![l].reqList = @ \ {x}]
  /\ hist' = [hist EXCEPT ![l].asked = @ \cup {x}]
  /\ UNCHANGED <<fault, handling, threads, schedule, database, restarts>>

\* At the end of the list the thread returns.  No LOADINGDONE event is raised:
\* the state stays LOADING.
endLSReq(l) ==
  /\ Running(l[1])
  /\ requesters[l] > 0
  /\ nbr[l].reqList = {}
  /\ requesters' = [requesters EXCEPT ![l] = @ - 1]
  /\ UNCHANGED <<fault, nbr, handling, senders, schedule, database, net, restarts, hist>>

\* Two threads change the list at once: a sendLSReq thread and the receive
\* thread that appends to it, or two sendLSReq threads.  One outcome is that
\* the list is corrupted and the process ends (the others are the steps above).
corruptReqList(l) ==
  /\ Running(l[1])
  /\ \/ /\ requesters[l] > 0
        /\ \E h \in Current(l) : Accepts(l, h) /\ Missing(l[1], h.dd.hdrs) # {{}}
     \/ requesters[l] > 1 /\ nbr[l].reqList # {}
  /\ fault' = [fault EXCEPT ![l[1]] = "list_race"]
  /\ UNCHANGED <<nbr, handling, threads, schedule, database, net, restarts, hist>>

-----------------------------------------------------------------------------
(* The retransmission thread and lsaGenerate. *)

\* Mutant of retransmit: a packet is unregistered when it has been sent.
retransmitOnce(r, q) ==
  /\ Running(r)
  /\ net' = Sent({q.dd})
  /\ packetList' = [packetList EXCEPT ![r] = @ \ {q}]
  /\ UNCHANGED <<fault, nbr, handling, threads, currentId, database, restarts, hist>>

retransmit(r, q) ==
  /\ Running(r)
  /\ net' = Sent({q.dd})
  /\ UNCHANGED <<fault, nbr, handling, threads, schedule, database, restarts, hist>>

\* LSDatabase::remove and insertRouterLSA take the database's mutex one after
\* the other: between them the router's own LSA is in no list.  The first time
\* there is nothing to remove.
lsaGenerateRemove(r) ==
  /\ Running(r)
  /\ r \in Refreshing
  /\ ~generating[r]
  /\ lsdb' = [lsdb EXCEPT ![r] = Without(@, Own[r])]
  /\ generating' = [generating EXCEPT ![r] = TRUE]
  /\ UNCHANGED <<fault, nbr, handling, threads, schedule, net, restarts, hist>>

lsaGenerateInsert(r) ==
  /\ Running(r)
  /\ generating[r]
  /\ Len(lsdb[r]) < MaxLsdb
  /\ lsdb' = [lsdb EXCEPT ![r] = Append(@, Own[r])]
  /\ generating' = [generating EXCEPT ![r] = FALSE]
  /\ UNCHANGED <<fault, nbr, handling, threads, schedule, net, restarts, hist>>

-----------------------------------------------------------------------------
(* The environment. *)

\* The process ends, whatever it was doing, and is started again: nothing is
\* kept, and the database is empty until lsaGenerate has inserted the LSA that
\* main has generated.  Packets in flight stay in flight.
Restart(r) ==
  LET Mine == {l \in Link : l[1] = r} IN
    /\ restarts < MaxRestarts
    /\ restarts' = restarts + 1
    /\ fault' = [fault EXCEPT ![r] = "none"]
    /\ nbr' = [l \in Link |-> IF l \in Mine THEN NoNeighbor(l) ELSE nbr[l]]
    /\ handling' = [handling EXCEPT ![r] = NoPacket]
    /\ senders' = [l \in Link |-> IF l \in Mine THEN NoSenders ELSE senders[l]]
    /\ requesters' = [l \in Link |-> IF l \in Mine THEN 0 ELSE requesters[l]]
    /\ packetList' = [packetList EXCEPT ![r] = {}]
    /\ currentId' = [currentId EXCEPT ![r] = 0]
    /\ lsdb' = [lsdb EXCEPT ![r] = << >>]
    /\ generating' = [generating EXCEPT ![r] = FALSE]
    /\ hist' = [l \in Link |-> IF l \in Mine THEN NoHistory ELSE hist[l]]
    /\ UNCHANGED net

Lose(p) ==
  /\ Lossy
  /\ net' = net \ {p}
  /\ UNCHANGED <<fault, nbr, handling, threads, schedule, database, restarts, hist>>

recvDD(l, h) ==
  \/ recvOrphanDD(l, h) \/ wakeDD(l, h)
  \/ negotiateAsSlave(l, h) \/ negotiateAsMaster(l, h) \/ ignoreDD(l, h)
  \/ discardDD(l, h) \/ runaway(l, h)
  \/ \E missing \in Missing(l[1], h.dd.hdrs) :
       \/ acceptAsSlave(l, h, missing)
       \/ acceptLastAck(l, h, missing)
       \/ acceptAck(l, h, missing)

\* A foreign router asks for anything: what it has been told of, by this process
\* or by one that ran here before.  It updates any LSA of its own.
Requests(l) ==
  {p.lsa : p \in {q \in Incoming(l[1], "lsreq") : q.from = l[2]}} \cup (IF l[2] \in Foreign THEN Lsa ELSE {})
Updates(l) ==
  {p.lsa : p \in {q \in Incoming(l[1], "lsu") : q.from = l[2]}}
    \cup (IF l[2] \in Foreign THEN ForeignLsa ELSE {})

Receive(l) ==
  \/ \E twoWay \in BOOLEAN : Hears(l, twoWay) /\ recvHello(l, twoWay)
  \/ \E h \in Current(l) : recvDD(l, h)
  \/ \E x \in Requests(l) : recvLSReq(l, x)
  \/ \E x \in Updates(l) : recvLSUpdate(l, x)

SenderThread(l) ==
  \/ sendEmptyDDPacets(l) \/ readEmpty(l)
  \/ \E isEmpty \in BOOLEAN : sendDDPackets(l, isEmpty)

RequestThread(l) == endLSReq(l) \/ \E x \in nbr[l].reqList : sendLSReq(l, x)

Next ==
  \/ \E l \in Link : Receive(l)
  \/ \E l \in Link : SenderThread(l) \/ RequestThread(l) \/ corruptReqList(l)
  \/ \E r \in Local : \E q \in packetList[r] : retransmit(r, q)
  \/ \E r \in Local : lsaGenerateRemove(r) \/ lsaGenerateInsert(r)
  \/ \E r \in Restarting : Restart(r)
  \/ \E p \in net : Lose(p)

Spec == Init /\ [][Next]_vars

\* A DD of l[2] with this sequence number, an opening or not, reaches the
\* handler of l[1] or goes on in it.
Delivered(l, seq, opening) ==
  \E h \in Current(l) : h.dd.seq = seq /\ h.dd.i = opening /\ recvDD(l, h)

\* Threads are scheduled; hellos are sent for ever and one gets through; of the
\* openings of the master, of its polls, and of the replies with one sequence
\* number, not all are lost if they are sent over and over again.
Fairness ==
  /\ \A l \in Link :
       /\ WF_vars(SenderThread(l))
       /\ WF_vars(\E twoWay \in BOOLEAN : Hears(l, twoWay) /\ recvHello(l, twoWay))
       /\ WF_vars(handling[l[1]] # NoPacket /\ \E h \in Current(l) : recvDD(l, h))
       /\ SF_vars(Delivered(l, 0, l[2] > l[1]))
       /\ \A seq \in 1..MaxDd : SF_vars(Delivered(l, seq, FALSE))
  /\ \A r \in Local : WF_vars(\E q \in packetList[r] : retransmit(r, q))

FairSpec == Spec /\ Fairness

-----------------------------------------------------------------------------
(* Properties. *)

TypeOK ==
  /\ fault \in [Local -> {"none", "null_nbr", "null_lsa", "null_unknown_lsa", "runaway", "list_race"}]
  /\ nbr \in [Link -> NeighborType]
  /\ handling \in [Local -> Handled \cup {NoPacket}]
  /\ senders \in [Link -> [SenderPc -> Nat]]
  /\ requesters \in [Link -> Nat]
  /\ packetList \in [Local -> SUBSET [id : Nat, dd : DDPacket]]
  /\ currentId \in [Local -> Nat]
  /\ lsdb \in [Local -> Seq(Lsa)]
  /\ generating \in [Local -> BOOLEAN]
  /\ net \subseteq DDPacket \cup LSPacket
  /\ restarts \in 0..MaxRestarts
  /\ hist \in [Link -> History]

\* Once the DD exchange runs, the roles follow from the ids, so that of two
\* neighbours never both poll and never both wait, whatever was received and
\* however often the adjacency was reset (PacketManager.cpp:262-274).
RolesOpposed ==
  \A l \in Link : nbr[l].st >= EXCHANGE => (nbr[l].isMaster <=> l[2] > l[1])

\* The master's poll in progress.
Polling(l) == nbr[l].st = EXCHANGE /\ ~nbr[l].isMaster /\ nbr[l].ddNum > 0

Scheduled(l) == {q \in packetList[l[1]] : q.dd.to = l[2]}

PollRegistered(l) ==
  \E q \in Scheduled(l) : q.id = nbr[l].unAck /\ q.dd.seq = nbr[l].ddNum

\* A master that waits for an acknowledgement has its poll registered: the
\* poll is sent by nobody else, so without it the exchange stops for ever
\* (PacketManager.cpp:360, 389-390).
PollScheduled == \A l \in Link : Polling(l) => PollRegistered(l)

\* With several neighbours this holds for every poll but packet number 0,
\* which the first acknowledgement of any other neighbour unregisters.
LaterPollScheduled ==
  \A l \in Link : Polling(l) /\ nbr[l].unAck # 0 => PollRegistered(l)

\* While an adjacency comes up for the first time the retransmitter holds at
\* most its one unacknowledged poll, and nothing once the exchange has ended.
NoLeftoverPoll ==
  \A l \in Link :
    \A q \in Scheduled(l) : nbr[l].st = EXCHANGE /\ q.dd.seq = nbr[l].ddNum

\* Master and slave are never more than one poll apart.
Lockstep ==
  \A l \in Link :
    /\ l[2] \in Local
    /\ nbr[l].st >= EXCHANGE /\ nbr[Reverse(l)].st >= EXCHANGE
    /\ ~nbr[l].isMaster
    => nbr[Reverse(l)].ddNum \in {nbr[l].ddNum - 1, nbr[l].ddNum}

\* The headers in the last DD of l[1]: its last reply, or its registered poll.
Outstanding(l) ==
  nbr[l].lastDD.hdrs \cup UNION {q.dd.hdrs : q \in Scheduled(l)}

\* The headers that l[2] has not accepted yet: what is left of the last DD, and
\* the summary list.
Unheard(l) ==
  (IF Outstanding(l) \subseteq hist[Reverse(l)].heard THEN << >>
   ELSE <<CHOOSE x \in Outstanding(l) : x \notin hist[Reverse(l)].heard>>) \o nbr[l].summary

Transfer(l) == INSTANCE HeaderTransfer WITH
  database <- lsdb[l[1]],
  offered <- nbr[l].st >= EXCHANGE,
  rest <- Unheard(l),
  heard <- hist[Reverse(l)].heard,
  stray <- hist[l].stray

\* The exchange of two routers of this code implements HeaderTransfer: although
\* packets are lost, repeated and reordered, each side accepts the headers of
\* the other in the order of its database, none left out -- unless one of the
\* sender threads was overtaken by the receive thread and sent a DD with no
\* flags, which the peer takes for a reply (PacketManager.cpp:283, 560).
TransfersHeaders ==
  /\ \A l \in Link : Transfer(l)!Init
  /\ [][\A l \in Link : [Transfer(l)!Next]_(Transfer(l)!vars)]_vars

\* Every header accepted is of an LSA that is in the database, or is to be
\* asked for, or has been asked for.  (The router's own LSA may be absent while
\* lsaGenerate replaces it.)
NothingForgotten ==
  \A l \in Link :
    hist[l].heard \subseteq
      Elems(lsdb[l[1]]) \cup nbr[l].reqList \cup hist[l].asked \cup {x \in Lsa : l[1] \in Local /\ x = Own[l[1]]}

\* FULL: every LSA the peer has described is in the database, although the state
\* is decided by the request list alone (Neighbor.cpp:76), which sendLSReq empties.
FullMeansSynced ==
  \A l \in Link :
    nbr[l].st = FULL => hist[l].heard \subseteq Elems(lsdb[l[1]]) \cup {Own[l[1]]}

\* With at most two LSAs at the slave, a router ends the exchange only when it
\* has told its neighbour of every LSA it had.  (With more, the missing more-bit
\* makes the slave end it early.)
EndsTold == \A l \in Link : nbr[l].st >= LOADING => nbr[l].summary = << >>

\* A DD arrives only at a router that knows its sender.
NoOrphanDD == \A r \in Local : fault[r] # "null_nbr"

\* An LSA that this process has described is missing when it is asked for only
\* between the remove and the insert of lsaGenerate (LSAManager.cpp:21-23,
\* PacketManager.cpp:409-410).  One that it has not described yet may be missing at
\* any time: a neighbour may remember it from before a restart.
MissingOnlyWhileGenerating ==
  \A r \in Local : fault[r] = "null_lsa" => generating[r]

\* A packet without body is accepted only in place of the first reply.
RunawayOnlyAsMaster ==
  \A r \in Local : fault[r] = "runaway" =>
    \E l \in Link : l[1] = r /\ nbr[l].st = EXCHANGE /\ ~nbr[l].isMaster /\ nbr[l].ddNum = 0

\* The receive thread has appended its last header before the sendLSReq thread
\* starts on the list, which neither of them locks.
NoListRace == \A r \in Local : fault[r] # "list_race"

\* No LSA is in a database twice, as long as lsaGenerate does not run: between its
\* remove and its insert a copy may arrive (OneCopy of the module Origination).
NoDuplicateLsa ==
  \A r \in Local : \A j, k \in 1..Len(lsdb[r]) : lsdb[r][j] = lsdb[r][k] => j = k

\* The program says "dup dd packet" (PacketManager.cpp:278) when a slave repeats
\* its last reply; so it has sent one.
NoEmptyReplay == \A p \in net : p.type = "dd" => p.body

\* Two routers of this code that hear each other end the DD exchange on both
\* sides, or one of them has crashed.
ExchangeEnds ==
  <>(\/ \E r \in Local : fault[r] # "none"
     \/ \A l \in Link : nbr[l].st >= LOADING)
=============================================================================
