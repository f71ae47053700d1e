----------------------- MODULE AdjacencySafetyProofs ------------------------
(***************************************************************************)
(* More theorems about Adjacency, for any routers, foreign packets,        *)
(* restarts, databases and bounds: no header is forgotten, what ends a     *)
(* process and what cannot, and which polls stay registered.               *)
(***************************************************************************)
EXTENDS AdjacencyProofs, FiniteSetTheorems, WellFoundedInduction

-----------------------------------------------------------------------------
(* What the steps do to a Neighbor object and to the history, field by     *)
(* field, and to the variables the invariants speak of.                    *)

\* Only the Neighbor object and the history of l may change.
OnlyLink(l) == \A k \in Link : k # l => nbr'[k] = nbr[k] /\ hist'[k] = hist[k]

\* The headers that m holds are those of n.
SameHeaders(n, m) == m.lastDD = n.lastDD /\ m.summary = n.summary /\ m.reqList = n.reqList

\* m is n, but for the state and the last sequence number.
SameCount(n, m) ==
  SameHeaders(n, m) /\ m.isMaster = n.isMaster /\ m.ddNum = n.ddNum /\ m.unAck = n.unAck

\* An object that was not created yet is as the constructor will leave it.
Unborn == \A l \in Link : nbr[l].st = NoNbr => nbr[l] = NoNeighbor(l)

\* The types of an object's fields.
LEMMA NeighborFields ==
  ASSUME IInv, NEW l \in Link
  PROVE  /\ nbr[l] \in NeighborType /\ nbr[l].st \in Int /\ nbr[l].isMaster \in BOOLEAN
         /\ nbr[l].ddNum \in Nat /\ nbr[l].unAck \in Nat /\ nbr[l].lastDD \in DDPacket
         /\ nbr[l].summary \in Seq(Lsa) /\ nbr[l].reqList \in SUBSET Lsa
         /\ nbr[l].lastSeq \in Nat /\ DOMAIN nbr = Link /\ DOMAIN hist = Link
         /\ hist[l] \in History /\ l[1] \in Local
  BY LinkType DEF IInv, TypeOK, NeighborType, NoNbr, FULL

\* on2wayRecved and on1wayRecved (Neighbor.cpp:49-89).
LEMMA HelloFields ==
  ASSUME NEW n \in NeighborType
  PROVE  /\ n.st # INIT => TwoWay(n) = n
         /\ n.st = INIT => /\ TwoWay(n).st = EXSTART /\ TwoWay(n).ddNum = 0 /\ TwoWay(n).unAck = 0
                           /\ TwoWay(n).isMaster = TRUE /\ SameHeaders(n, TwoWay(n))
         /\ n.st < TWOWAY => OneWay(n) = n
         /\ n.st >= TWOWAY => OneWay(n).st = INIT /\ SameCount(n, OneWay(n))
<1>1. n.st \in Int
  BY DEF NeighborType, NoNbr, FULL
<1>2. /\ n.st # INIT => TwoWay(n) = n
      /\ n.st < TWOWAY => OneWay(n) = n
  BY <1>1 DEF TwoWay, OneWay, TWOWAY
<1>3. n.st = INIT => /\ TwoWay(n).st = EXSTART /\ TwoWay(n).ddNum = 0 /\ TwoWay(n).unAck = 0
                     /\ TwoWay(n).isMaster = TRUE /\ SameHeaders(n, TwoWay(n))
  BY DEF TwoWay, NeighborType, SameHeaders
<1>4. n.st >= TWOWAY => OneWay(n).st = INIT /\ SameCount(n, OneWay(n))
  BY DEF OneWay, NeighborType, SameHeaders, SameCount
<1>. QED
  BY <1>2, <1>3, <1>4

\* A hello creates the object, starts or resets the adjacency, or does nothing.
LEMMA HelloEffect ==
  ASSUME IInv, Unborn, NEW l \in Link, NEW twoWay \in BOOLEAN, recvHello(l, twoWay)
  PROVE  /\ Running(l[1]) /\ handling[l[1]] = NoPacket /\ OnlyLink(l)
         /\ SameHeaders(nbr[l], nbr'[l])
         /\ UNCHANGED <<fault, handling, requesters, packetList, currentId, lsdb, generating, net,
                        restarts, hist>>
         /\ \/ /\ twoWay /\ nbr[l].st \in {NoNbr, INIT}
               /\ nbr'[l].st = EXSTART /\ nbr'[l].ddNum = 0 /\ nbr'[l].unAck = 0
               /\ senders' = [senders EXCEPT ![l]["top"] = @ + 1]
            \/ /\ ~twoWay /\ (nbr[l].st = NoNbr \/ nbr[l].st >= TWOWAY)
               /\ nbr'[l].st = INIT /\ UNCHANGED senders
            \/ /\ nbr[l].st # NoNbr /\ nbr'[l] = nbr[l] /\ UNCHANGED senders
<1>. DEFINE n == IF nbr[l].st = NoNbr THEN Neighbor(l) ELSE nbr[l]
<1>1. nbr[l] \in NeighborType /\ DOMAIN nbr = Link /\ nbr[l].st \in Int
  BY NeighborFields
<1>2. /\ n \in NeighborType /\ SameHeaders(nbr[l], n) /\ n.st # NoNbr
      /\ n.st = IF nbr[l].st = NoNbr THEN INIT ELSE nbr[l].st
  <2>1. CASE nbr[l].st = NoNbr
    <3>1. nbr[l] = [Neighbor(l) EXCEPT !.st = NoNbr]
      BY <2>1 DEF Unborn, NoNeighbor
    <3>2. Neighbor(l) \in NeighborType /\ Neighbor(l).st = INIT
      BY NeighborIsTyped DEF Neighbor
    <3>3. SameHeaders(nbr[l], Neighbor(l))
      BY <3>1, <3>2 DEF SameHeaders, NeighborType
    <3>. QED
      BY <2>1, <3>2, <3>3 DEF INIT, NoNbr
  <2>2. CASE nbr[l].st # NoNbr
    BY <1>1, <2>2 DEF SameHeaders
  <2>. QED
    BY <2>1, <2>2
<1>3. /\ Running(l[1]) /\ handling[l[1]] = NoPacket
      /\ UNCHANGED <<fault, handling, requesters, packetList, currentId, lsdb, generating, net,
                     restarts, hist>>
      /\ \/ twoWay /\ nbr' = [nbr EXCEPT ![l] = TwoWay(n)] /\ Spawn(l, n)
         \/ ~twoWay /\ nbr' = [nbr EXCEPT ![l] = OneWay(n)] /\ UNCHANGED senders
  BY Zenon DEF recvHello, Idle, schedule, database
<1>. HIDE DEF n
<1>4. OnlyLink(l)
  BY <1>1, <1>3 DEF OnlyLink
<1>5. CASE twoWay /\ n.st = INIT
  <2>1. nbr'[l] = TwoWay(n) /\ Spawn(l, n)
    BY <1>1, <1>3, <1>5
  <2>2. nbr[l].st \in {NoNbr, INIT}
    BY <1>2, <1>5
  <2>. QED
    BY <1>2, <1>3, <1>4, <1>5, <2>1, <2>2, HelloFields DEF SameHeaders, Spawn
<1>6. CASE ~twoWay /\ n.st >= TWOWAY
  <2>1. nbr'[l] = OneWay(n) /\ UNCHANGED senders
    BY <1>1, <1>3, <1>6
  <2>2. nbr[l].st >= TWOWAY
    BY <1>2, <1>6 DEF INIT, TWOWAY
  <2>3. OneWay(n).st = INIT /\ SameHeaders(n, OneWay(n))
    BY <1>2, <1>6, HelloFields DEF SameCount
  <2>4. SameHeaders(nbr[l], nbr'[l]) /\ nbr'[l].st = INIT
    BY <1>2, <2>1, <2>3, Zenon DEF SameHeaders
  <2>. QED
    BY <1>3, <1>4, <1>6, <2>1, <2>2, <2>4, Zenon
<1>7. CASE (twoWay /\ n.st # INIT) \/ (~twoWay /\ n.st < TWOWAY)
  <2>1. nbr'[l] = n /\ UNCHANGED senders
    BY <1>1, <1>2, <1>3, <1>7, HelloFields DEF Spawn
  <2>2. CASE nbr[l].st = NoNbr
    <3>1. ~twoWay /\ nbr'[l].st = INIT /\ SameHeaders(nbr[l], nbr'[l])
      BY <1>2, <1>7, <2>1, <2>2
    <3>. QED
      BY <1>3, <1>4, <2>1, <2>2, <3>1, Zenon
  <2>3. CASE nbr[l].st # NoNbr
    <3>1. n = nbr[l]
      BY <2>3 DEF n
    <3>2. nbr'[l] = nbr[l] /\ SameHeaders(nbr[l], nbr'[l])
      BY <1>2, <2>1, <3>1, Zenon
    <3>. QED
      BY <1>3, <1>4, <2>1, <2>3, <3>2, Zenon
  <2>. QED
    BY <2>2, <2>3
<1>. QED
  <2>1. n.st \in Int
    BY <1>2 DEF NeighborType, NoNbr, FULL
  <2>. QED
    BY <1>5, <1>6, <1>7, <2>1 DEF TWOWAY

\* The handler begins by noting the last sequence number (PacketManager.cpp:250-255).
LEMMA NotedFields ==
  ASSUME IInv, NEW l \in Link, NEW h \in Current(l)
  PROVE  /\ Noted(l, h) \in NeighborType
         /\ Noted(l, h).st = nbr[l].st /\ SameCount(nbr[l], Noted(l, h))
<1>1. nbr[l] \in NeighborType /\ h.dd.seq \in Nat
  BY NeighborFields, CurrentType DEF IInv
<1>2. Noted(l, h) \in NeighborType
  BY NotedKept DEF Kept, Good
<1>. QED
  BY <1>1, <1>2 DEF Noted, NeighborType, SameCount, SameHeaders

\* A DD in INIT starts the adjacency and goes on (PacketManager.cpp:257-261).
LEMMA WakeEffect ==
  ASSUME IInv, NEW l \in Link, NEW h \in Current(l), wakeDD(l, h)
  PROVE  /\ OnlyLink(l) /\ SameHeaders(nbr[l], nbr'[l]) /\ nbr[l].st = INIT
         /\ nbr'[l].st = EXSTART /\ nbr'[l].ddNum = 0 /\ nbr'[l].unAck = 0
         /\ senders' = [senders EXCEPT ![l]["top"] = @ + 1]
         /\ handling' = [handling EXCEPT ![l[1]] = h] /\ net' = Taken(l, h)
         /\ UNCHANGED <<fault, requesters, packetList, currentId, lsdb, generating, restarts, hist>>
<1>1. /\ nbr[l].st = INIT /\ nbr' = [nbr EXCEPT ![l] = TwoWay(Noted(l, h))]
      /\ senders' = [senders EXCEPT ![l]["top"] = @ + 1]
      /\ handling' = [handling EXCEPT ![l[1]] = h] /\ net' = Taken(l, h)
      /\ UNCHANGED <<fault, requesters, packetList, currentId, lsdb, generating, restarts, hist>>
  BY Zenon DEF wakeDD, Spawn, GoesOn, schedule, database
<1>2. nbr'[l] = TwoWay(Noted(l, h)) /\ OnlyLink(l)
  BY <1>1, NeighborFields DEF OnlyLink
<1>3. SameHeaders(nbr[l], Noted(l, h)) /\ Noted(l, h).st = INIT /\ Noted(l, h) \in NeighborType
  BY <1>1, NotedFields DEF SameCount
<1>4. /\ TwoWay(Noted(l, h)).st = EXSTART
      /\ TwoWay(Noted(l, h)).ddNum = 0 /\ TwoWay(Noted(l, h)).unAck = 0
      /\ SameHeaders(Noted(l, h), TwoWay(Noted(l, h)))
  BY <1>3, HelloFields
<1>5. SameHeaders(nbr[l], nbr'[l])
  BY <1>2, <1>3, <1>4, Zenon DEF SameHeaders
<1>. QED
  BY <1>1, <1>2, <1>4, <1>5, Zenon

\* m is n after NEGOTIATIONDONE.
Negotiated(l, n, m) ==
  /\ m.st = EXCHANGE /\ m.summary = n.summary \o lsdb[l[1]]
  /\ m.isMaster = n.isMaster /\ m.ddNum = n.ddNum /\ m.unAck = n.unAck
  /\ m.lastDD = n.lastDD /\ m.reqList = n.reqList

\* NEGOTIATIONDONE lists the database (Neighbor.cpp:100-112, PacketManager.cpp:262-274).
LEMMA NegotiationFields ==
  ASSUME NEW l \in Link, NEW n \in NeighborType
  PROVE  Negotiated(l, n, NegotiationDone(l, n))
  BY DEF Negotiated, NegotiationDone, NeighborType

\* The negotiation settles the role and begins the exchange with the same packet.
LEMMA NegotiateEffect ==
  ASSUME IInv, NEW l \in Link, NEW h \in Current(l),
         negotiateAsSlave(l, h) \/ negotiateAsMaster(l, h)
  PROVE  /\ OnlyLink(l) /\ nbr[l].st = EXSTART /\ nbr'[l].st = EXCHANGE
         /\ nbr'[l].summary = nbr[l].summary \o lsdb[l[1]] /\ nbr'[l].lastDD = nbr[l].lastDD
         /\ nbr'[l].reqList = nbr[l].reqList /\ nbr'[l].unAck = nbr[l].unAck
         /\ \/ /\ PeerLeads(l, h.dd) /\ nbr'[l].isMaster = TRUE /\ nbr'[l].ddNum = h.dd.seq
               /\ handling' = [handling EXCEPT ![l[1]] = [h EXCEPT !.seq = @ + 1]]
            \/ /\ PeerFollows(l, h.dd) /\ nbr'[l].isMaster = FALSE /\ nbr'[l].ddNum = nbr[l].ddNum
               /\ handling' = [handling EXCEPT ![l[1]] = h]
         /\ net' = Taken(l, h)
         /\ UNCHANGED <<fault, senders, requesters, packetList, currentId, lsdb, generating,
                        restarts, hist>>
<1>1. nbr[l] \in NeighborType /\ DOMAIN nbr = Link /\ h.dd.seq \in Nat
  BY NeighborFields, CurrentType DEF IInv
<1>2. Noted(l, h) \in NeighborType /\ SameCount(nbr[l], Noted(l, h))
  BY NotedFields
<1>3. CASE negotiateAsSlave(l, h)
  <2>1. PICK n : n = [Noted(l, h) EXCEPT !.isMaster = TRUE, !.ddNum = h.dd.seq]
    OBVIOUS
  <2>2. /\ n \in NeighborType /\ n.isMaster = TRUE /\ n.ddNum = h.dd.seq
        /\ n.unAck = nbr[l].unAck /\ SameHeaders(nbr[l], n)
    BY <1>1, <1>2, <2>1 DEF SameCount, SameHeaders, NeighborType
  <2>3. /\ nbr[l].st = EXSTART /\ PeerLeads(l, h.dd) /\ net' = Taken(l, h)
        /\ nbr' = [nbr EXCEPT ![l] = NegotiationDone(l, n)]
        /\ handling' = [handling EXCEPT ![l[1]] = [h EXCEPT !.seq = @ + 1]]
        /\ UNCHANGED <<fault, senders, requesters, packetList, currentId, lsdb, generating,
                       restarts, hist>>
    BY <1>3, <2>1, Zenon DEF negotiateAsSlave, GoesOn, threads, schedule, database
  <2>4. nbr'[l] = NegotiationDone(l, n) /\ OnlyLink(l)
    BY <1>1, <2>3 DEF OnlyLink
  <2>5. Negotiated(l, n, nbr'[l])
    BY <2>2, <2>4, NegotiationFields, Zenon
  <2>6. n.summary = nbr[l].summary /\ n.lastDD = nbr[l].lastDD /\ n.reqList = nbr[l].reqList
    BY <2>2, Zenon DEF SameHeaders
  <2>. QED
    BY <2>2, <2>3, <2>4, <2>5, <2>6, Zenon DEF Negotiated
<1>4. CASE negotiateAsMaster(l, h)
  <2>1. PICK n : n = [Noted(l, h) EXCEPT !.isMaster = FALSE]
    OBVIOUS
  <2>2. /\ n \in NeighborType /\ n.isMaster = FALSE /\ n.ddNum = nbr[l].ddNum
        /\ n.unAck = nbr[l].unAck /\ SameHeaders(nbr[l], n)
    BY <1>1, <1>2, <2>1 DEF SameCount, SameHeaders, NeighborType
  <2>3. /\ nbr[l].st = EXSTART /\ PeerFollows(l, h.dd) /\ net' = Taken(l, h)
        /\ nbr' = [nbr EXCEPT ![l] = NegotiationDone(l, n)]
        /\ handling' = [handling EXCEPT ![l[1]] = h]
        /\ UNCHANGED <<fault, senders, requesters, packetList, currentId, lsdb, generating,
                       restarts, hist>>
    BY <1>4, <2>1, Zenon DEF negotiateAsMaster, GoesOn, threads, schedule, database
  <2>4. nbr'[l] = NegotiationDone(l, n) /\ OnlyLink(l)
    BY <1>1, <2>3 DEF OnlyLink
  <2>5. Negotiated(l, n, nbr'[l])
    BY <2>2, <2>4, NegotiationFields, Zenon
  <2>6. n.summary = nbr[l].summary /\ n.lastDD = nbr[l].lastDD /\ n.reqList = nbr[l].reqList
    BY <2>2, Zenon DEF SameHeaders
  <2>. QED
    BY <2>2, <2>3, <2>4, <2>5, <2>6, Zenon DEF Negotiated
<1>. QED
  BY <1>3, <1>4

\* A DD that is ignored, or discarded and perhaps answered, is only noted.
LEMMA NotedEffect ==
  ASSUME IInv, NEW l \in Link, NEW h \in Current(l), ignoreDD(l, h) \/ discardDD(l, h)
  PROVE  /\ OnlyLink(l) /\ nbr[l].st >= EXSTART /\ nbr'[l].st = nbr[l].st
         /\ SameCount(nbr[l], nbr'[l])
         /\ handling' = [handling EXCEPT ![l[1]] = NoPacket]
         /\ (net' = Taken(l, h) \/ (net' = Taken(l, h) \cup Followed(Replay(l, h)) /\ nbr[l].st >= EXCHANGE))
         /\ UNCHANGED <<fault, senders, requesters, packetList, currentId, lsdb, generating,
                        restarts, hist>>
<1>1. /\ nbr' = [nbr EXCEPT ![l] = Noted(l, h)]
      /\ nbr[l].st = EXSTART \/ nbr[l].st >= EXCHANGE
      /\ (net' = Taken(l, h) \/ (net' = Taken(l, h) \cup Followed(Replay(l, h)) /\ nbr[l].st >= EXCHANGE))
      /\ handling' = [handling EXCEPT ![l[1]] = NoPacket]
      /\ UNCHANGED <<fault, senders, requesters, packetList, currentId, lsdb, generating,
                     restarts, hist>>
  BY Zenon DEF ignoreDD, discardDD, Returns, threads, schedule, database
<1>2. nbr'[l] = Noted(l, h) /\ OnlyLink(l)
  BY <1>1, NeighborFields DEF OnlyLink
<1>3. nbr[l].st >= EXSTART
  BY <1>1, NeighborFields DEF EXSTART, EXCHANGE
<1>. QED
  BY <1>1, <1>2, <1>3, NotedFields, Zenon

\* EXCHANGEDONE chooses between LOADING and FULL (Neighbor.cpp:114-140).
LEMMA DoneFields ==
  ASSUME NEW n \in NeighborType
  PROVE  /\ ExchangeDone(n).st = IF n.reqList = {} THEN FULL ELSE LOADING
         /\ SameCount(n, ExchangeDone(n))
  BY DEF ExchangeDone, NeighborType, SameCount, SameHeaders

\* What every accepted DD does: its headers go on the request list, unless the
\* handler found them in the database (PacketManager.cpp:293-317).
AcceptedDD(l, h, missing) ==
  /\ Accepts(l, h) /\ h.dd.body /\ OnlyLink(l)
  /\ nbr'[l].isMaster = nbr[l].isMaster /\ nbr'[l].reqList = nbr[l].reqList \cup missing
  /\ hist'[l].heard = hist[l].heard \cup h.dd.hdrs
  /\ hist'[l].asked = hist[l].asked /\ hist'[l].stray = hist[l].stray
  /\ handling' = [handling EXCEPT ![l[1]] = NoPacket]
  /\ UNCHANGED <<fault, senders, lsdb, generating, restarts>>

\* The exchange has ended, with a sendLSReq thread if there is something to ask for.
Ended(l) ==
  \/ /\ nbr'[l].st = FULL /\ nbr'[l].reqList = {} /\ UNCHANGED requesters
  \/ /\ nbr'[l].st = LOADING /\ nbr'[l].reqList # {}
     /\ requesters' = [requesters EXCEPT ![l] = @ + 1]

\* A slave's reply.
ReplyTo(l, h) == DD(l, FALSE, FALSE, FALSE, h.dd.seq, First(nbr[l].summary), TRUE)

\* A master's next poll.
NextPoll(l) == DD(l, FALSE, FALSE, TRUE, nbr[l].ddNum + 1, First(nbr[l].summary), TRUE)

\* The object with the headers that are missing on its request list.
LEMMA ListedFields ==
  ASSUME IInv, NEW l \in Link, NEW h \in Current(l), NEW missing \in SUBSET Lsa
  PROVE  /\ Listed(l, h, missing) \in NeighborType
         /\ Listed(l, h, missing).st = nbr[l].st
         /\ Listed(l, h, missing).isMaster = nbr[l].isMaster
         /\ Listed(l, h, missing).ddNum = nbr[l].ddNum
         /\ Listed(l, h, missing).unAck = nbr[l].unAck
         /\ Listed(l, h, missing).lastDD = nbr[l].lastDD
         /\ Listed(l, h, missing).summary = nbr[l].summary
         /\ Listed(l, h, missing).reqList = nbr[l].reqList \cup missing
<1>1. nbr[l] \in NeighborType /\ h.dd.seq \in Nat
  BY NeighborFields, CurrentType DEF IInv
<1>2. Listed(l, h, missing) \in NeighborType
  BY ListedKept DEF Kept, Good
<1>. QED
  BY <1>1, <1>2 DEF Listed, Noted, NeighborType

\* The history of an accepted DD.
LEMMA NoticedFields ==
  ASSUME IInv, NEW l \in Link, NEW heard, NEW told, Noticed(l, heard, told)
  PROVE  /\ \A k \in Link : k # l => hist'[k] = hist[k]
         /\ hist'[l].heard = hist[l].heard \cup heard /\ hist'[l].told = hist[l].told \cup told
         /\ hist'[l].asked = hist[l].asked /\ hist'[l].stray = hist[l].stray
<1>1. hist[l] \in History /\ DOMAIN hist = Link
  BY NeighborFields
<1>2. hist'[l] = Learned(hist[l], heard, told) /\ \A k \in Link : k # l => hist'[k] = hist[k]
  BY <1>1 DEF Noticed
<1>. QED
  BY <1>1, <1>2 DEF Learned, History

\* A slave accepts a poll and replies (PacketManager.cpp:319-352).
LEMMA SlaveEffect ==
  ASSUME IInv, NEW l \in Link, NEW h \in Current(l), NEW missing \in SUBSET Lsa,
         acceptAsSlave(l, h, missing)
  PROVE  /\ AcceptedDD(l, h, missing) /\ nbr[l].isMaster
         /\ nbr'[l].ddNum = h.dd.seq /\ nbr'[l].unAck = nbr[l].unAck
         /\ nbr'[l].summary = Rest(nbr[l].summary) /\ nbr'[l].lastDD = ReplyTo(l, h)
         /\ hist'[l].told = hist[l].told \cup First(nbr[l].summary)
         /\ IF h.dd.m THEN nbr'[l].st = EXCHANGE /\ UNCHANGED requesters ELSE Ended(l)
         /\ net' = Taken(l, h) \cup Followed(Replay(l, h) \cup {ReplyTo(l, h)})
         /\ UNCHANGED <<packetList, currentId>>
<1>1. PICK n : n = Listed(l, h, missing)
  OBVIOUS
<1>2. PICK next : next = [n EXCEPT !.ddNum = h.dd.seq, !.summary = Rest(@), !.lastDD = ReplyTo(l, h)]
  OBVIOUS
<1>3. PICK last : last = IF h.dd.m THEN next ELSE ExchangeDone(next)
  OBVIOUS
<1>4. n.summary = nbr[l].summary /\ n \in NeighborType
  BY <1>1, ListedFields
<1>5. /\ Accepts(l, h) /\ h.dd.body /\ nbr[l].isMaster
      /\ net' = Taken(l, h) \cup Followed(Replay(l, h) \cup {ReplyTo(l, h)})
      /\ nbr' = [nbr EXCEPT ![l] = last] /\ Request(l, last)
      /\ handling' = [handling EXCEPT ![l[1]] = NoPacket]
      /\ Noticed(l, h.dd.hdrs, ReplyTo(l, h).hdrs)
      /\ UNCHANGED <<fault, senders, packetList, currentId, lsdb, generating, restarts>>
  BY <1>1, <1>2, <1>3, <1>4, Zenon DEF acceptAsSlave, Returns, schedule, database, ReplyTo
<1>6. nbr[l].st = EXCHANGE
  BY <1>5 DEF Accepts
<1>7. h.dd.seq \in Nat /\ ReplyTo(l, h) \in DDPacket /\ Rest(nbr[l].summary) \in Seq(Lsa)
  BY NeighborFields, CurrentType, LinkType, RestType, DDType DEF IInv, ReplyTo
<1>8. /\ next \in NeighborType /\ next.st = EXCHANGE /\ next.isMaster = nbr[l].isMaster
      /\ next.ddNum = h.dd.seq /\ next.unAck = nbr[l].unAck
      /\ next.summary = Rest(nbr[l].summary) /\ next.lastDD = ReplyTo(l, h)
      /\ next.reqList = nbr[l].reqList \cup missing
  <2>1. /\ n.st = nbr[l].st /\ n.isMaster = nbr[l].isMaster /\ n.unAck = nbr[l].unAck
        /\ n.reqList = nbr[l].reqList \cup missing
    BY <1>1, ListedFields
  <2>. QED
    BY <1>2, <1>4, <1>6, <1>7, <2>1 DEF NeighborType
<1>9. nbr'[l] = last /\ \A k \in Link : k # l => nbr'[k] = nbr[k]
  BY <1>5, NeighborFields
<1>10. /\ \A k \in Link : k # l => hist'[k] = hist[k]
       /\ hist'[l].heard = hist[l].heard \cup h.dd.hdrs
       /\ hist'[l].told = hist[l].told \cup First(nbr[l].summary)
       /\ hist'[l].asked = hist[l].asked /\ hist'[l].stray = hist[l].stray
  <2>1. ReplyTo(l, h).hdrs = First(nbr[l].summary)
    BY DEF ReplyTo, DD
  <2>. QED
    BY <1>5, <2>1, NoticedFields
<1>11. CASE h.dd.m
  <2>1. last = next
    BY <1>3, <1>11
  <2>2. UNCHANGED requesters
    BY <1>5, <1>8, <2>1 DEF Request, EXCHANGE, LOADING
  <2>. QED
    BY <1>5, <1>8, <1>9, <1>10, <1>11, <2>1, <2>2, Zenon DEF AcceptedDD, OnlyLink
<1>12. CASE ~h.dd.m
  <2>1. last.st = (IF next.reqList = {} THEN FULL ELSE LOADING) /\ SameCount(next, last)
    BY <1>3, <1>8, <1>12, DoneFields
  <2>2. last.reqList = next.reqList
    BY <2>1, Zenon DEF SameCount, SameHeaders
  <2>3. Ended(l)
    BY <1>5, <1>9, <2>1, <2>2 DEF Ended, Request, LOADING, FULL
  <2>. QED
    BY <1>5, <1>8, <1>9, <1>10, <1>12, <2>1, <2>3, Zenon
      DEF AcceptedDD, OnlyLink, SameCount, SameHeaders
<1>. QED
  BY <1>11, <1>12

\* A master ends the exchange with the last acknowledgement (PacketManager.cpp:354-374).
LEMMA LastAckEffect ==
  ASSUME IInv, NEW l \in Link, NEW h \in Current(l), NEW missing \in SUBSET Lsa,
         acceptLastAck(l, h, missing)
  PROVE  /\ AcceptedDD(l, h, missing) /\ ~nbr[l].isMaster
         /\ nbr[l].summary = << >> /\ ~h.dd.m /\ Ended(l)
         /\ nbr'[l].ddNum = nbr[l].ddNum + 1 /\ nbr'[l].unAck = 0
         /\ nbr'[l].summary = nbr[l].summary /\ nbr'[l].lastDD = nbr[l].lastDD
         /\ hist'[l].told = hist[l].told /\ net' = Taken(l, h)
         /\ packetList' = [packetList EXCEPT ![l[1]] = Unregistered(l)] /\ UNCHANGED currentId
<1>1. PICK n : n = Listed(l, h, missing)
  OBVIOUS
<1>2. PICK next : next = [n EXCEPT !.ddNum = @ + 1, !.unAck = 0]
  OBVIOUS
<1>3. PICK last : last = ExchangeDone(next)
  OBVIOUS
<1>4. /\ Accepts(l, h) /\ h.dd.body /\ ~nbr[l].isMaster
      /\ nbr[l].summary = << >> /\ ~h.dd.m /\ net' = Taken(l, h)
      /\ packetList' = [packetList EXCEPT ![l[1]] = Unregistered(l)]
      /\ nbr' = [nbr EXCEPT ![l] = last] /\ Request(l, last)
      /\ handling' = [handling EXCEPT ![l[1]] = NoPacket]
      /\ Noticed(l, h.dd.hdrs, {})
      /\ UNCHANGED <<fault, senders, currentId, lsdb, generating, restarts>>
  BY <1>1, <1>2, <1>3, Zenon DEF acceptLastAck, NothingLeft, Returns, database
<1>5. /\ next \in NeighborType /\ next.isMaster = nbr[l].isMaster
      /\ next.ddNum = nbr[l].ddNum + 1 /\ next.unAck = 0
      /\ next.summary = nbr[l].summary /\ next.lastDD = nbr[l].lastDD
      /\ next.reqList = nbr[l].reqList \cup missing
  <2>1. /\ n \in NeighborType /\ n.isMaster = nbr[l].isMaster /\ n.ddNum = nbr[l].ddNum
        /\ n.summary = nbr[l].summary /\ n.lastDD = nbr[l].lastDD
        /\ n.reqList = nbr[l].reqList \cup missing
    BY <1>1, ListedFields
  <2>2. nbr[l].ddNum + 1 \in Nat /\ 0 \in Nat
    BY NeighborFields
  <2>3. /\ next = [st |-> n.st, isMaster |-> n.isMaster, ddNum |-> nbr[l].ddNum + 1,
                    lastSeq |-> n.lastSeq, lastDD |-> n.lastDD, unAck |-> 0,
                    summary |-> n.summary, reqList |-> n.reqList]
    BY <1>2, <2>1 DEF NeighborType
  <2>4. next \in NeighborType
    BY <2>1, <2>2, <2>3 DEF NeighborType
  <2>. QED
    BY <2>1, <2>3, <2>4
<1>6. nbr'[l] = last /\ \A k \in Link : k # l => nbr'[k] = nbr[k]
  BY <1>4, NeighborFields
<1>7. /\ \A k \in Link : k # l => hist'[k] = hist[k]
      /\ hist'[l].heard = hist[l].heard \cup h.dd.hdrs
      /\ hist'[l].told = hist[l].told
      /\ hist'[l].asked = hist[l].asked /\ hist'[l].stray = hist[l].stray
  <2>1. /\ \A k \in Link : k # l => hist'[k] = hist[k]
        /\ hist'[l].heard = hist[l].heard \cup h.dd.hdrs
        /\ hist'[l].told = hist[l].told \cup {}
        /\ hist'[l].asked = hist[l].asked /\ hist'[l].stray = hist[l].stray
    BY <1>4, NoticedFields, Zenon
  <2>. QED
    BY <2>1
<1>8. last.st = (IF next.reqList = {} THEN FULL ELSE LOADING) /\ SameCount(next, last)
  BY <1>3, <1>5, DoneFields
<1>9. last.reqList = next.reqList
  BY <1>8, Zenon DEF SameCount, SameHeaders
<1>10. Ended(l)
  BY <1>4, <1>6, <1>8, <1>9 DEF Ended, Request, LOADING, FULL
<1>. QED
  BY <1>4, <1>5, <1>6, <1>7, <1>8, <1>10, Zenon DEF AcceptedDD, OnlyLink, SameCount, SameHeaders

\* Any other acknowledgement makes the master register its next poll
\* (PacketManager.cpp:376-399).
LEMMA AckEffect ==
  ASSUME IInv, NEW l \in Link, NEW h \in Current(l), NEW missing \in SUBSET Lsa,
         acceptAck(l, h, missing)
  PROVE  /\ AcceptedDD(l, h, missing) /\ ~nbr[l].isMaster
         /\ nbr[l].summary # << >> \/ h.dd.m
         /\ nbr[l].ddNum < MaxDd
         /\ nbr'[l].st = EXCHANGE /\ UNCHANGED requesters
         /\ nbr'[l].ddNum = nbr[l].ddNum + 1 /\ nbr'[l].unAck = currentId[l[1]]
         /\ nbr'[l].summary = Rest(nbr[l].summary) /\ nbr'[l].lastDD = nbr[l].lastDD
         /\ hist'[l].told = hist[l].told \cup First(nbr[l].summary) /\ net' = Taken(l, h)
         /\ packetList' = [packetList EXCEPT ![l[1]] =
              Unregistered(l) \cup {[id |-> currentId[l[1]], dd |-> NextPoll(l)]}]
         /\ currentId' = [currentId EXCEPT ![l[1]] = currentId[l[1]] + 1]
<1>1. PICK n : n = Listed(l, h, missing)
  OBVIOUS
<1>2. PICK id : id = currentId[l[1]]
  OBVIOUS
<1>3. PICK next : next = [n EXCEPT !.ddNum = @ + 1, !.summary = Rest(@), !.unAck = id]
  OBVIOUS
<1>4. /\ n \in NeighborType /\ n.isMaster = nbr[l].isMaster /\ n.ddNum = nbr[l].ddNum
      /\ n.st = nbr[l].st /\ n.summary = nbr[l].summary /\ n.lastDD = nbr[l].lastDD
      /\ n.reqList = nbr[l].reqList \cup missing
  BY <1>1, ListedFields
<1>5. /\ Accepts(l, h) /\ h.dd.body /\ ~nbr[l].isMaster
      /\ ~NothingLeft(l, h) /\ nbr[l].ddNum < MaxDd /\ net' = Taken(l, h)
      /\ packetList' = [packetList EXCEPT ![l[1]] = Unregistered(l) \cup {[id |-> id, dd |-> NextPoll(l)]}]
      /\ currentId' = [currentId EXCEPT ![l[1]] = id + 1]
      /\ nbr' = [nbr EXCEPT ![l] = next]
      /\ handling' = [handling EXCEPT ![l[1]] = NoPacket]
      /\ Noticed(l, h.dd.hdrs, NextPoll(l).hdrs)
      /\ UNCHANGED <<fault, senders, requesters, lsdb, generating, restarts>>
  BY <1>1, <1>2, <1>3, <1>4, Zenon DEF acceptAck, Returns, database, threads, NextPoll
<1>6. nbr[l].st = EXCHANGE /\ (nbr[l].summary # << >> \/ h.dd.m)
  BY <1>5 DEF Accepts, NothingLeft
<1>7. /\ next.st = EXCHANGE /\ next.isMaster = nbr[l].isMaster
      /\ next.ddNum = nbr[l].ddNum + 1 /\ next.unAck = id
      /\ next.summary = Rest(nbr[l].summary) /\ next.lastDD = nbr[l].lastDD
      /\ next.reqList = nbr[l].reqList \cup missing
  BY <1>3, <1>4, <1>6 DEF NeighborType
<1>8. nbr'[l] = next /\ \A k \in Link : k # l => nbr'[k] = nbr[k]
  BY <1>5, NeighborFields
<1>9. NextPoll(l).hdrs = First(nbr[l].summary)
  BY DEF NextPoll, DD
<1>10. /\ \A k \in Link : k # l => hist'[k] = hist[k]
       /\ hist'[l].heard = hist[l].heard \cup h.dd.hdrs
       /\ hist'[l].told = hist[l].told \cup First(nbr[l].summary)
       /\ hist'[l].asked = hist[l].asked /\ hist'[l].stray = hist[l].stray
  BY <1>5, <1>9, NoticedFields
<1>. QED
  BY <1>2, <1>5, <1>6, <1>7, <1>8, <1>10, Zenon DEF AcceptedDD, OnlyLink

\* A sendLSReq thread asks for an LSA and erases it from the list (PacketManager.cpp:577-598).
LEMMA AskEffect ==
  ASSUME IInv, NEW l \in Link, NEW x, sendLSReq(l, x)
  PROVE  /\ OnlyLink(l) /\ x \in nbr[l].reqList /\ x \in Lsa /\ requesters[l] > 0 /\ Running(l[1])
         /\ nbr'[l].st = nbr[l].st /\ nbr'[l].isMaster = nbr[l].isMaster
         /\ nbr'[l].ddNum = nbr[l].ddNum /\ nbr'[l].unAck = nbr[l].unAck
         /\ nbr'[l].lastDD = nbr[l].lastDD /\ nbr'[l].summary = nbr[l].summary
         /\ nbr'[l].reqList = nbr[l].reqList \ {x}
         /\ hist'[l].heard = hist[l].heard /\ hist'[l].told = hist[l].told
         /\ hist'[l].asked = hist[l].asked \cup {x} /\ hist'[l].stray = hist[l].stray
         /\ net' = Sent({LSReq(l, x)})
         /\ UNCHANGED <<fault, handling, senders, requesters, packetList, currentId, lsdb,
                        generating, restarts>>
<1>1. /\ nbr[l] \in NeighborType /\ DOMAIN nbr = Link /\ hist[l] \in History /\ DOMAIN hist = Link
      /\ nbr[l].reqList \in SUBSET Lsa
  BY NeighborFields
<1>2. /\ Running(l[1]) /\ requesters[l] > 0 /\ x \in nbr[l].reqList /\ net' = Sent({LSReq(l, x)})
      /\ nbr' = [nbr EXCEPT ![l].reqList = @ \ {x}]
      /\ hist' = [hist EXCEPT ![l].asked = @ \cup {x}]
      /\ UNCHANGED <<fault, handling, senders, requesters, packetList, currentId, lsdb,
                     generating, restarts>>
  BY Zenon DEF sendLSReq, threads, schedule, database
<1>3. nbr'[l] = [nbr[l] EXCEPT !.reqList = @ \ {x}] /\ hist'[l] = [hist[l] EXCEPT !.asked = @ \cup {x}]
  BY <1>1, <1>2
<1>4. OnlyLink(l)
  BY <1>1, <1>2 DEF OnlyLink
<1>5. /\ nbr'[l].st = nbr[l].st /\ nbr'[l].isMaster = nbr[l].isMaster
      /\ nbr'[l].ddNum = nbr[l].ddNum /\ nbr'[l].unAck = nbr[l].unAck
      /\ nbr'[l].lastDD = nbr[l].lastDD /\ nbr'[l].summary = nbr[l].summary
      /\ nbr'[l].reqList = nbr[l].reqList \ {x}
  BY <1>1, <1>3 DEF NeighborType
<1>6. /\ hist'[l].heard = hist[l].heard /\ hist'[l].told = hist[l].told
      /\ hist'[l].asked = hist[l].asked \cup {x} /\ hist'[l].stray = hist[l].stray
  BY <1>1, <1>3 DEF History
<1>. QED
  BY <1>1, <1>2, <1>4, <1>5, <1>6

\* What a sendEmptyDDPacets thread sends: all flags set, or all clear.
Bare(l, e) == DD(l, e, e, e, SwapBytes(nbr[l].ddNum), {}, TRUE)

\* A sendEmptyDDPacets thread sends, or only moves on (PacketManager.cpp:477-575).
LEMMA SenderEffect ==
  ASSUME IInv, NEW l \in Link, SenderThread(l)
  PROVE  /\ Running(l[1])
         /\ UNCHANGED <<fault, nbr, handling, requesters, packetList, currentId, lsdb, generating, restarts>>
         /\ \A k \in Link : /\ hist'[k].heard = hist[k].heard /\ hist'[k].told = hist[k].told
                            /\ hist'[k].asked = hist[k].asked
                            /\ k # l => hist'[k] = hist[k]
         /\ UNCHANGED net \/ \E e \in BOOLEAN : net' = Sent({Bare(l, e)}) /\ (e => UNCHANGED hist)
                                                /\ (~e => hist'[l].stray = TRUE)
<1>1. hist[l] \in History /\ DOMAIN hist = Link
  BY NeighborFields
<1>2. CASE sendEmptyDDPacets(l) \/ readEmpty(l)
  BY <1>2, Zenon DEF sendEmptyDDPacets, readEmpty, schedule, database
<1>3. ASSUME NEW e \in BOOLEAN, sendDDPackets(l, e)
      PROVE  /\ Running(l[1]) /\ net' = Sent({Bare(l, e)})
             /\ IF e THEN UNCHANGED hist ELSE hist' = [hist EXCEPT ![l].stray = TRUE]
             /\ UNCHANGED <<fault, nbr, handling, requesters, packetList, currentId, lsdb, generating,
                            restarts>>
  BY <1>3, Zenon DEF sendDDPackets, schedule, database, Bare
<1>4. ASSUME hist' = [hist EXCEPT ![l].stray = TRUE]
      PROVE  /\ \A k \in Link : /\ hist'[k].heard = hist[k].heard /\ hist'[k].told = hist[k].told
                                /\ hist'[k].asked = hist[k].asked
                                /\ k # l => hist'[k] = hist[k]
             /\ hist'[l].stray = TRUE
  <2>1. hist'[l] = [hist[l] EXCEPT !.stray = TRUE] /\ \A k \in Link : k # l => hist'[k] = hist[k]
    BY <1>1, <1>4
  <2>2. /\ hist'[l].heard = hist[l].heard /\ hist'[l].told = hist[l].told
        /\ hist'[l].asked = hist[l].asked /\ hist'[l].stray = TRUE
    BY <1>1, <2>1 DEF History
  <2>. QED
    BY <2>1, <2>2, Zenon
<1>5. ASSUME NEW e \in BOOLEAN, sendDDPackets(l, e)
      PROVE  /\ Running(l[1]) /\ net' = Sent({Bare(l, e)})
             /\ UNCHANGED <<fault, nbr, handling, requesters, packetList, currentId, lsdb, generating,
                            restarts>>
             /\ \A k \in Link : /\ hist'[k].heard = hist[k].heard /\ hist'[k].told = hist[k].told
                                /\ hist'[k].asked = hist[k].asked
                                /\ k # l => hist'[k] = hist[k]
             /\ (e => UNCHANGED hist) /\ (~e => hist'[l].stray = TRUE)
  <2>1. CASE e
    BY <1>3, <1>5, <2>1, Zenon
  <2>2. CASE ~e
    BY <1>3, <1>4, <1>5, <2>2, Zenon
  <2>. QED
    BY <2>1, <2>2
<1>. QED
  BY <1>2, <1>5, Zenon DEF SenderThread

\* A restart forgets what the router had, and nothing else.
LEMMA RestartEffect ==
  ASSUME IInv, NEW r \in Restarting, Restart(r)
  PROVE  /\ r \in Local
         /\ \A l \in Link : IF l[1] = r
              THEN nbr'[l] = NoNeighbor(l) /\ hist'[l] = NoHistory /\ requesters'[l] = 0
                   /\ senders'[l] = NoSenders
              ELSE nbr'[l] = nbr[l] /\ hist'[l] = hist[l] /\ requesters'[l] = requesters[l]
                   /\ senders'[l] = senders[l]
         /\ fault' = [fault EXCEPT ![r] = "none"]
         /\ handling' = [handling EXCEPT ![r] = NoPacket]
         /\ packetList' = [packetList EXCEPT ![r] = {}] /\ currentId' = [currentId EXCEPT ![r] = 0]
         /\ lsdb' = [lsdb EXCEPT ![r] = << >>]
         /\ generating' = [generating EXCEPT ![r] = FALSE] /\ UNCHANGED net
<1>1. r \in Local
  BY DbAssumption
<1>. QED
  BY <1>1, Zenon DEF Restart

-----------------------------------------------------------------------------
(* Lists of LSAs. *)

\* insertRouterLSA adds its argument (LSDatabase.cpp:30-40).
LEMMA ElemsAppend ==
  ASSUME NEW s \in Seq(Lsa), NEW x \in Lsa
  PROVE  Elems(Append(s, x)) = Elems(s) \cup {x}
<1>. DEFINE t == Append(s, x)
<1>1. Len(t) = Len(s) + 1 /\ Len(s) \in Nat /\ t[Len(s) + 1] = x /\ \A k \in 1..Len(s) : t[k] = s[k]
  OBVIOUS
<1>2. \A k \in 1..Len(t) : k \in 1..Len(s) \/ k = Len(s) + 1
  BY <1>1
<1>3. 1..Len(s) \subseteq 1..Len(t) /\ Len(s) + 1 \in 1..Len(t)
  BY <1>1
<1>. HIDE DEF t
<1>4. ASSUME NEW y \in Elems(t) PROVE y \in Elems(s) \cup {x}
  <2>1. PICK k \in 1..Len(t) : y = t[k]
    BY DEF Elems
  <2>. QED
    BY <1>1, <1>2, <2>1, Zenon DEF Elems
<1>5. ASSUME NEW y \in Elems(s) \cup {x} PROVE y \in Elems(t)
  <2>1. CASE y = x
    BY <1>1, <1>3, <2>1, Zenon DEF Elems
  <2>2. CASE y \in Elems(s)
    <3>1. PICK k \in 1..Len(s) : y = s[k]
      BY <2>2 DEF Elems
    <3>. QED
      BY <1>1, <1>3, <3>1, Zenon DEF Elems
  <2>. QED
    BY <2>1, <2>2
<1>. QED
  BY <1>4, <1>5, Zenon DEF t

\* Appending a list appends its elements (Neighbor.cpp:100-112).
LEMMA ElemsConcat ==
  ASSUME NEW s \in Seq(Lsa), NEW t \in Seq(Lsa)
  PROVE  Elems(s \o t) = Elems(s) \cup Elems(t)
<1>. DEFINE u == s \o t
<1>1. /\ Len(u) = Len(s) + Len(t) /\ Len(s) \in Nat /\ Len(t) \in Nat
      /\ \A k \in 1..Len(s) : u[k] = s[k]
      /\ \A k \in 1..Len(t) : u[Len(s) + k] = t[k]
  OBVIOUS
<1>2. \A k \in 1..Len(u) : k \in 1..Len(s) \/ (k - Len(s) \in 1..Len(t) /\ k = Len(s) + (k - Len(s)))
  BY <1>1
<1>3. 1..Len(s) \subseteq 1..Len(u) /\ \A k \in 1..Len(t) : Len(s) + k \in 1..Len(u)
  BY <1>1
<1>. HIDE DEF u
<1>4. ASSUME NEW y \in Elems(u) PROVE y \in Elems(s) \cup Elems(t)
  <2>1. PICK k \in 1..Len(u) : y = u[k]
    BY DEF Elems
  <2>2. CASE k \in 1..Len(s)
    BY <1>1, <2>1, <2>2, Zenon DEF Elems
  <2>3. CASE k - Len(s) \in 1..Len(t) /\ k = Len(s) + (k - Len(s))
    <3>1. u[k] = t[k - Len(s)]
      BY <1>1, <2>3, Zenon
    <3>. QED
      BY <2>1, <2>3, <3>1, Zenon DEF Elems
  <2>. QED
    BY <1>2, <2>2, <2>3
<1>5. ASSUME NEW y \in Elems(s) PROVE y \in Elems(u)
  <2>1. PICK k \in 1..Len(s) : y = s[k]
    BY <1>5 DEF Elems
  <2>. QED
    BY <1>1, <1>3, <2>1, Zenon DEF Elems
<1>6. ASSUME NEW y \in Elems(t) PROVE y \in Elems(u)
  <2>1. PICK k \in 1..Len(t) : y = t[k]
    BY <1>6 DEF Elems
  <2>2. u[Len(s) + k] = y /\ Len(s) + k \in 1..Len(u)
    BY <1>1, <1>3, <2>1, Zenon
  <2>. QED
    BY <2>2, Zenon DEF Elems
<1>. QED
  BY <1>4, <1>5, <1>6, Zenon DEF u

\* A DD takes the first header, and leaves the others (PacketManager.cpp:328-341).
LEMMA ElemsRest ==
  ASSUME NEW s \in Seq(Lsa)
  PROVE  First(s) \subseteq Elems(s) /\ Elems(Rest(s)) \subseteq Elems(s)
<1>1. CASE s = << >>
  BY <1>1 DEF First, Rest, Elems
<1>2. CASE s # << >>
  <2>1. /\ Len(s) \in Nat /\ Len(s) > 0 /\ Len(Tail(s)) = Len(s) - 1 /\ Head(s) = s[1]
        /\ \A k \in 1..Len(s) - 1 : Tail(s)[k] = s[k + 1]
    BY <1>2
  <2>2. 1 \in 1..Len(s) /\ \A k \in 1..Len(s) - 1 : k + 1 \in 1..Len(s)
    BY <2>1
  <2>3. First(s) = {s[1]} /\ Rest(s) = Tail(s)
    BY <1>2, <2>1 DEF First, Rest
  <2>4. First(s) \subseteq Elems(s)
    BY <2>2, <2>3, Zenon DEF Elems
  <2>5. ASSUME NEW y \in Elems(Tail(s)) PROVE y \in Elems(s)
    <3>1. PICK k \in 1..Len(s) - 1 : y = Tail(s)[k]
      BY <2>1 DEF Elems
    <3>. QED
      BY <2>1, <2>2, <3>1, Zenon DEF Elems
  <2>. QED
    BY <2>3, <2>4, <2>5, Zenon
<1>. QED
  BY <1>1, <1>2

\* A set of positions has a first one.
LEMMA FirstPosition ==
  ASSUME NEW n \in Nat, NEW I \in SUBSET (1..n), I # {}
  PROVE  \E k \in I : \A h \in 1..k - 1 : h \notin I
<1>. DEFINE N == 1..n
            T == {1..j : j \in I}
<1>1. IsWellFoundedOn(StrictSubsetOrdering(N), FiniteSubsetsOf(N))
  BY FS_StrictSubsetOrderingWellFounded
<1>2. T # {} /\ \A t \in T : \E j \in I : t = 1..j
  OBVIOUS
<1>3. T \subseteq FiniteSubsetsOf(N)
  <2>1. ASSUME NEW j \in I PROVE 1..j \in SUBSET N /\ IsFiniteSet(1..j)
    <3>1. j \in Nat /\ 1 \in Int /\ j \in Int /\ 1..j \subseteq N
      OBVIOUS
    <3>. QED
      BY <3>1, FS_Interval
  <2>. QED
    BY <2>1, Zenon DEF FiniteSubsetsOf
<1>4. PICK t \in T : \A u \in T : <<u, t>> \notin StrictSubsetOrdering(N)
  <2>. HIDE DEF T, N
  <2>. QED
    BY <1>1, <1>2, <1>3, WFMin, Zenon
<1>5. PICK k \in I : t = 1..k
  BY <1>2
<1>6. ASSUME NEW h \in 1..k - 1, h \in I PROVE FALSE
  <2>1. 1..h \in T /\ 1..h \subseteq 1..k /\ 1..h \in SUBSET N /\ 1..k \in SUBSET N
    BY <1>6
  <2>2. k \in 1..k /\ k \notin 1..h
    BY <1>6
  <2>3. <<1..h, 1..k>> \in StrictSubsetOrdering(N)
    BY <2>1, <2>2 DEF StrictSubsetOrdering
  <2>. QED
    BY <1>4, <1>5, <2>1, <2>3
<1>. QED
  BY <1>6

\* vector::erase takes out one entry, the first, and no other LSA (LSDatabase.cpp:62-74).
LEMMA WithoutIs ==
  ASSUME NEW s \in Seq(Lsa), NEW x
  PROVE  \/ x \notin Elems(s) /\ Without(s, x) = s
         \/ \E k \in 1..Len(s) : /\ s[k] = x /\ \A h \in 1..k - 1 : s[h] # x
                                 /\ Without(s, x) = [j \in 1..Len(s) - 1 |-> IF j < k THEN s[j] ELSE s[j + 1]]
<1>1. CASE x \notin Elems(s)
  BY <1>1 DEF Without
<1>2. CASE x \in Elems(s)
  <2>. DEFINE I == {j \in 1..Len(s) : s[j] = x}
  <2>1. I # {} /\ Len(s) \in Nat
    BY <1>2 DEF Elems
  <2>2. \E k \in I : \A h \in 1..k - 1 : h \notin I
    <3>. HIDE DEF I
    <3>1. I \in SUBSET (1..Len(s))
      BY DEF I
    <3>. QED
      BY <2>1, <3>1, FirstPosition
  <2>3. PICK i \in 1..Len(s) : s[i] = x /\ \A h \in 1..i - 1 : h \notin I
    BY <2>2
  <2>4. \A h \in 1..i - 1 : s[h] # x
    BY <2>1, <2>3
  <2>5. PICK k : k = CHOOSE j \in 1..Len(s) : s[j] = x /\ \A h \in 1..j - 1 : s[h] # x
    OBVIOUS
  <2>6. k \in 1..Len(s) /\ s[k] = x /\ \A h \in 1..k - 1 : s[h] # x
    BY <2>3, <2>4, <2>5, Zenon
  <2>7. Without(s, x) = [j \in 1..Len(s) - 1 |-> IF j < k THEN s[j] ELSE s[j + 1]]
    BY <1>2, <2>5, Zenon DEF Without
  <2>. QED
    BY <2>6, <2>7, Zenon
<1>. QED
  BY <1>1, <1>2

\* Erasing an LSA leaves the others.
LEMMA ElemsWithout ==
  ASSUME NEW s \in Seq(Lsa), NEW x
  PROVE  Elems(s) \ {x} \subseteq Elems(Without(s, x)) /\ Elems(Without(s, x)) \subseteq Elems(s)
<1>1. CASE Without(s, x) = s
  BY <1>1
<1>2. ASSUME NEW k \in 1..Len(s), s[k] = x,
             Without(s, x) = [j \in 1..Len(s) - 1 |-> IF j < k THEN s[j] ELSE s[j + 1]]
      PROVE  Elems(s) \ {x} \subseteq Elems(Without(s, x)) /\ Elems(Without(s, x)) \subseteq Elems(s)
  <2>. DEFINE t == Without(s, x)
  <2>1. Len(s) \in Nat /\ Len(t) = Len(s) - 1
    <3>1. Len(s) \in Nat /\ Len(s) - 1 \in Nat /\ t \in Seq(Lsa) /\ DOMAIN t = 1..Len(s) - 1
      BY <1>2, WithoutType
    <3>2. DOMAIN t = 1..Len(t) /\ Len(t) \in Nat
      BY <3>1
    <3>. QED
      BY <3>1, <3>2
  <2>2. \A j \in 1..Len(t) : t[j] = (IF j < k THEN s[j] ELSE s[j + 1]) /\ j \in 1..Len(s) /\ j + 1 \in 1..Len(s)
    BY <1>2, <2>1
  <2>3. \A j \in 1..Len(s) : j # k => (j < k /\ j \in 1..Len(t)) \/ (j - 1 \in 1..Len(t) /\ ~(j - 1 < k) /\ (j - 1) + 1 = j)
    BY <1>2, <2>1
  <2>. HIDE DEF t
  <2>4. ASSUME NEW y \in Elems(s), y # x PROVE y \in Elems(t)
    <3>1. PICK j \in 1..Len(s) : y = s[j]
      BY DEF Elems
    <3>2. j # k
      BY <1>2, <2>4, <3>1
    <3>3. CASE j < k /\ j \in 1..Len(t)
      BY <2>2, <3>1, <3>3 DEF Elems
    <3>4. CASE j - 1 \in 1..Len(t) /\ ~(j - 1 < k) /\ (j - 1) + 1 = j
      <4>1. t[j - 1] = y
        BY <2>2, <3>1, <3>4
      <4>. QED
        BY <3>4, <4>1, Zenon DEF Elems
    <3>. QED
      BY <2>3, <3>2, <3>3, <3>4
  <2>5. ASSUME NEW y \in Elems(t) PROVE y \in Elems(s)
    <3>1. PICK j \in 1..Len(t) : y = t[j]
      BY DEF Elems
    <3>. QED
      BY <2>2, <3>1 DEF Elems
  <2>. QED
    BY <2>4, <2>5 DEF t
<1>. QED
  BY <1>1, <1>2, WithoutIs, Zenon

\* Replacing an LSA keeps the database's set of LSAs (LSDatabase.cpp:62-74, 30-40).
LEMMA ElemsReplaced ==
  ASSUME NEW s \in Seq(Lsa), NEW x \in Lsa
  PROVE  Elems(s) \subseteq Elems(Replaced(s, x)) /\ Elems(Replaced(s, x)) \subseteq Elems(s) \cup {x}
<1>1. Without(s, x) \in Seq(Lsa) /\ Elems(Replaced(s, x)) = Elems(Without(s, x)) \cup {x}
  BY WithoutType, ElemsAppend DEF Replaced
<1>. QED
  BY <1>1, ElemsWithout

-----------------------------------------------------------------------------
(* What the steps do to the databases. *)

\* An LS update only adds to the database (PacketManager.cpp:431-466).
LEMMA UpdateEffect ==
  ASSUME IInv, NEW l \in Link, NEW x \in Updates(l), recvLSUpdate(l, x)
  PROVE  /\ UNCHANGED <<fault, nbr, handling, senders, requesters, packetList, currentId,
                        generating, net, restarts, hist>>
         /\ x \in Lsa /\ Running(l[1]) /\ handling[l[1]] = NoPacket
         /\ \A r \in Local : r # l[1] => lsdb'[r] = lsdb[r]
         /\ Elems(lsdb[l[1]]) \subseteq Elems(lsdb'[l[1]])
         /\ Elems(lsdb'[l[1]]) \subseteq Elems(lsdb[l[1]]) \cup {x}
<1>1. x \in Lsa /\ l[1] \in Local /\ lsdb \in [Local -> Seq(Lsa)]
  BY RequestsType, LinkType DEF IInv, TypeOK
<1>2. /\ UNCHANGED <<fault, nbr, handling, senders, requesters, packetList, currentId,
                     generating, net, restarts, hist>>
      /\ Running(l[1]) /\ handling[l[1]] = NoPacket
      /\ \/ lsdb' = [lsdb EXCEPT ![l[1]] = Append(@, x)]
         \/ lsdb' = [lsdb EXCEPT ![l[1]] = Replaced(@, x)]
         \/ UNCHANGED lsdb
  BY Zenon DEF recvLSUpdate, Idle, threads, schedule
<1>3. lsdb[l[1]] \in Seq(Lsa)
  BY <1>1
<1>4. ASSUME NEW s, s = Append(lsdb[l[1]], x) \/ s = Replaced(lsdb[l[1]], x),
             lsdb' = [lsdb EXCEPT ![l[1]] = s]
      PROVE  /\ \A r \in Local : r # l[1] => lsdb'[r] = lsdb[r]
             /\ Elems(lsdb[l[1]]) \subseteq Elems(lsdb'[l[1]])
             /\ Elems(lsdb'[l[1]]) \subseteq Elems(lsdb[l[1]]) \cup {x}
  <2>1. lsdb'[l[1]] = s /\ \A r \in Local : r # l[1] => lsdb'[r] = lsdb[r]
    BY <1>1, <1>4
  <2>2. Elems(lsdb[l[1]]) \subseteq Elems(s) /\ Elems(s) \subseteq Elems(lsdb[l[1]]) \cup {x}
    <3>1. CASE s = Append(lsdb[l[1]], x)
      BY <1>1, <1>3, <3>1, ElemsAppend
    <3>2. CASE s = Replaced(lsdb[l[1]], x)
      BY <1>1, <1>3, <3>2, ElemsReplaced
    <3>. QED
      BY <1>4, <3>1, <3>2
  <2>. QED
    BY <2>1, <2>2
<1>5. CASE UNCHANGED lsdb
  BY <1>1, <1>2, <1>5
<1>6. CASE lsdb' = [lsdb EXCEPT ![l[1]] = Append(@, x)]
  BY <1>1, <1>2, <1>4, <1>6, Zenon
<1>7. CASE lsdb' = [lsdb EXCEPT ![l[1]] = Replaced(@, x)]
  BY <1>1, <1>2, <1>4, <1>7, Zenon
<1>. QED
  BY <1>2, <1>5, <1>6, <1>7, Zenon

\* lsaGenerate takes out the router's own LSA and puts it back (LSAManager.cpp:16-28).
LEMMA GenerateEffect ==
  ASSUME IInv, NEW r \in Local, lsaGenerateRemove(r) \/ lsaGenerateInsert(r)
  PROVE  /\ UNCHANGED <<fault, nbr, handling, senders, requesters, packetList, currentId,
                        net, restarts, hist>>
         /\ Running(r) /\ Own[r] \in Lsa
         /\ \A k \in Local : k # r => lsdb'[k] = lsdb[k] /\ generating'[k] = generating[k]
         /\ \/ /\ r \in Refreshing /\ generating'[r] /\ ~generating[r]
               /\ Elems(lsdb[r]) \ {Own[r]} \subseteq Elems(lsdb'[r])
               /\ Elems(lsdb'[r]) \subseteq Elems(lsdb[r])
            \/ /\ generating[r] /\ ~generating'[r]
               /\ Elems(lsdb'[r]) = Elems(lsdb[r]) \cup {Own[r]}
<1>1. Own[r] \in Lsa /\ lsdb \in [Local -> Seq(Lsa)] /\ generating \in [Local -> BOOLEAN]
  BY DbAssumption DEF IInv, TypeOK
<1>2. lsdb[r] \in Seq(Lsa)
  BY <1>1
<1>3. CASE lsaGenerateRemove(r)
  <2>1. /\ UNCHANGED <<fault, nbr, handling, senders, requesters, packetList, currentId,
                       net, restarts, hist>>
        /\ Running(r) /\ r \in Refreshing /\ ~generating[r]
        /\ lsdb' = [lsdb EXCEPT ![r] = Without(@, Own[r])]
        /\ generating' = [generating EXCEPT ![r] = TRUE]
    BY <1>3, Zenon DEF lsaGenerateRemove, threads, schedule
  <2>2. /\ lsdb'[r] = Without(lsdb[r], Own[r]) /\ generating'[r]
        /\ \A k \in Local : k # r => lsdb'[k] = lsdb[k] /\ generating'[k] = generating[k]
    BY <1>1, <2>1
  <2>. QED
    BY <1>1, <1>2, <2>1, <2>2, ElemsWithout, Zenon
<1>4. CASE lsaGenerateInsert(r)
  <2>1. /\ UNCHANGED <<fault, nbr, handling, senders, requesters, packetList, currentId,
                       net, restarts, hist>>
        /\ Running(r) /\ generating[r]
        /\ lsdb' = [lsdb EXCEPT ![r] = Append(@, Own[r])]
        /\ generating' = [generating EXCEPT ![r] = FALSE]
    BY <1>4, Zenon DEF lsaGenerateInsert, threads, schedule
  <2>2. /\ lsdb'[r] = Append(lsdb[r], Own[r]) /\ ~generating'[r]
        /\ \A k \in Local : k # r => lsdb'[k] = lsdb[k] /\ generating'[k] = generating[k]
    BY <1>1, <2>1
  <2>. QED
    BY <1>1, <1>2, <2>1, <2>2, ElemsAppend, Zenon
<1>. QED
  BY <1>3, <1>4

\* The steps that leave the Neighbor objects, the history and the databases alone.
OtherStep ==
  \/ \E l \in Link : \/ \E h \in Current(l) : recvOrphanDD(l, h) \/ runaway(l, h)
                     \/ \E x \in Requests(l) : recvLSReq(l, x)
                     \/ endLSReq(l) \/ corruptReqList(l)
  \/ \E r \in Local : \E q \in packetList[r] : retransmit(r, q)
  \/ \E p \in net : Lose(p)
  \/ UNCHANGED vars

\* They do leave them alone.
LEMMA OtherEffect ==
  OtherStep => UNCHANGED <<nbr, hist, lsdb, generating, packetList, currentId, senders, handling>>
  BY Zenon DEF OtherStep, recvOrphanDD, runaway, recvLSReq, endLSReq, corruptReqList, retransmit,
       Lose, vars, threads, schedule, database

\* The steps in which a DD packet is accepted.
AcceptStep(l, h) ==
  \E missing \in Missing(l[1], h.dd.hdrs) :
    acceptAsSlave(l, h, missing) \/ acceptLastAck(l, h, missing) \/ acceptAck(l, h, missing)

\* Every step is one of these.
LEMMA StepCases ==
  [Next]_vars =>
    \/ \E l \in Link, twoWay \in BOOLEAN : Hears(l, twoWay) /\ recvHello(l, twoWay)
    \/ \E l \in Link : \E h \in Current(l) :
         \/ wakeDD(l, h) \/ negotiateAsSlave(l, h) \/ negotiateAsMaster(l, h)
         \/ ignoreDD(l, h) \/ discardDD(l, h) \/ AcceptStep(l, h)
    \/ \E l \in Link : \E x \in Updates(l) : recvLSUpdate(l, x)
    \/ \E l \in Link : SenderThread(l) \/ \E x \in nbr[l].reqList : sendLSReq(l, x)
    \/ \E r \in Local : lsaGenerateRemove(r) \/ lsaGenerateInsert(r)
    \/ \E r \in Restarting : Restart(r)
    \/ OtherStep
<1>. SUFFICES ASSUME [Next]_vars
              PROVE
    \/ \E l \in Link, twoWay \in BOOLEAN : Hears(l, twoWay) /\ recvHello(l, twoWay)
    \/ \E l \in Link : \E h \in Current(l) :
         \/ wakeDD(l, h) \/ negotiateAsSlave(l, h) \/ negotiateAsMaster(l, h)
         \/ ignoreDD(l, h) \/ discardDD(l, h) \/ AcceptStep(l, h)
    \/ \E l \in Link : \E x \in Updates(l) : recvLSUpdate(l, x)
    \/ \E l \in Link : SenderThread(l) \/ \E x \in nbr[l].reqList : sendLSReq(l, x)
    \/ \E r \in Local : lsaGenerateRemove(r) \/ lsaGenerateInsert(r)
    \/ \E r \in Restarting : Restart(r)
    \/ OtherStep
  OBVIOUS
<1>1. CASE \E l \in Link : Receive(l)
  BY <1>1, Zenon DEF Receive, recvDD, AcceptStep, OtherStep
<1>2. CASE \E l \in Link : SenderThread(l) \/ RequestThread(l) \/ corruptReqList(l)
  BY <1>2, Zenon DEF RequestThread, OtherStep
<1>3. CASE (\E r \in Local : \E q \in packetList[r] : retransmit(r, q))
           \/ (\E p \in net : Lose(p)) \/ UNCHANGED vars
  BY <1>3, Zenon DEF OtherStep
<1>. QED
  BY <1>1, <1>2, <1>3, Zenon DEF Next

-----------------------------------------------------------------------------
(* Objects that do not exist yet. *)

\* With the invariant of AdjacencyProofs, what is known of every state.
Known == IInv /\ Unborn

\* Once it has been created a Neighbor object stays, except in a restart.
LEMMA Created ==
  ASSUME Known, NEW l \in Link, OnlyLink(l),
         nbr'[l].st \in {INIT, EXSTART, EXCHANGE, LOADING, FULL}
  PROVE  Unborn'
<1>1. nbr'[l].st # NoNbr
  BY DEF NoNbr, INIT, EXSTART, EXCHANGE, LOADING, FULL
<1>2. ASSUME NEW k \in Link, nbr'[k].st = NoNbr PROVE nbr'[k] = NoNeighbor(k)
  BY <1>1, <1>2, Zenon DEF OnlyLink, Known, Unborn
<1>. QED
  BY <1>2, Zenon DEF Unborn

\* The absent objects are as they were made.
LEMMA UnbornStep == Known /\ [Next]_vars => Unborn'
<1>. SUFFICES ASSUME Known, [Next]_vars PROVE Unborn'
  OBVIOUS
<1>. USE DEF Known
<1>1. ASSUME UNCHANGED nbr PROVE Unborn'
  BY <1>1, Zenon DEF Unborn
<1>2. ASSUME NEW l \in Link, NEW twoWay \in BOOLEAN, recvHello(l, twoWay) PROVE Unborn'
  <2>1. /\ OnlyLink(l) /\ nbr[l].st \in NoNbr..FULL
        /\ \/ nbr'[l].st = EXSTART \/ nbr'[l].st = INIT
           \/ nbr[l].st # NoNbr /\ nbr'[l] = nbr[l]
    BY <1>2, HelloEffect, NeighborFields, Zenon DEF NeighborType
  <2>2. CASE nbr'[l].st = EXSTART \/ nbr'[l].st = INIT
    BY <2>1, <2>2, Created
  <2>3. CASE nbr[l].st # NoNbr /\ nbr'[l] = nbr[l]
    BY <2>1, <2>3, Zenon DEF Unborn, OnlyLink
  <2>. QED
    BY <2>1, <2>2, <2>3
<1>3. ASSUME NEW l \in Link, NEW h \in Current(l),
             \/ wakeDD(l, h) \/ negotiateAsSlave(l, h) \/ negotiateAsMaster(l, h)
             \/ ignoreDD(l, h) \/ discardDD(l, h) \/ AcceptStep(l, h)
      PROVE  Unborn'
  <2>1. CASE wakeDD(l, h)
    BY <2>1, WakeEffect, Created
  <2>2. CASE negotiateAsSlave(l, h) \/ negotiateAsMaster(l, h)
    BY <2>2, NegotiateEffect, Created
  <2>3. CASE ignoreDD(l, h) \/ discardDD(l, h)
    <3>1. OnlyLink(l) /\ nbr'[l].st >= EXSTART
      BY <2>3, NotedEffect
    <3>2. nbr'[l].st # NoNbr
      BY <3>1 DEF EXSTART, NoNbr
    <3>. QED
      BY <3>1, <3>2, Zenon DEF Unborn, OnlyLink
  <2>4. CASE AcceptStep(l, h)
    <3>1. PICK missing \in Missing(l[1], h.dd.hdrs) :
            acceptAsSlave(l, h, missing) \/ acceptLastAck(l, h, missing) \/ acceptAck(l, h, missing)
      BY <2>4, Zenon DEF AcceptStep
    <3>2. missing \in SUBSET Lsa
      BY LinkType, CurrentType, MissingType DEF IInv, DDPacket
    <3>3. /\ OnlyLink(l)
          /\ nbr'[l].st = EXCHANGE \/ nbr'[l].st = FULL \/ nbr'[l].st = LOADING
      BY <3>1, <3>2, SlaveEffect, LastAckEffect, AckEffect, Zenon DEF AcceptedDD, Ended
    <3>. QED
      BY <3>3, Created
  <2>. QED
    BY <1>3, <2>1, <2>2, <2>3, <2>4
<1>4. ASSUME NEW l \in Link, NEW x \in Updates(l), recvLSUpdate(l, x) PROVE Unborn'
  BY <1>1, <1>4, UpdateEffect
<1>5. ASSUME NEW l \in Link, SenderThread(l) PROVE Unborn'
  BY <1>1, <1>5, SenderEffect
<1>6. ASSUME NEW l \in Link, NEW x \in nbr[l].reqList, sendLSReq(l, x) PROVE Unborn'
  <2>1. OnlyLink(l) /\ nbr'[l].st = nbr[l].st
    BY <1>6, AskEffect
  <2>2. nbr[l].st # NoNbr
    BY <1>6 DEF Unborn, NoNeighbor, Neighbor
  <2>. QED
    BY <2>1, <2>2, Zenon DEF Unborn, OnlyLink
<1>7. ASSUME NEW r \in Local, lsaGenerateRemove(r) \/ lsaGenerateInsert(r) PROVE Unborn'
  BY <1>1, <1>7, GenerateEffect
<1>8. ASSUME NEW r \in Restarting, Restart(r) PROVE Unborn'
  <2>1. \A k \in Link : nbr'[k] = NoNeighbor(k) \/ nbr'[k] = nbr[k]
    BY <1>8, RestartEffect
  <2>. QED
    BY <2>1, Zenon DEF Unborn
<1>9. CASE OtherStep
  BY <1>1, <1>9, OtherEffect
<1>. QED
  BY <1>2, <1>3, <1>4, <1>5, <1>6, <1>7, <1>8, <1>9, StepCases, Zenon

\* It holds of every state.
LEMMA KnownAlways == Spec => []Known
<1>1. Init => Known
  BY InitIInv, Zenon DEF Known, Init, Unborn
<1>2. Known /\ [Next]_vars => Known'
  BY NextIInv, UnbornStep, Zenon DEF Known
<1>. QED
  BY <1>1, <1>2, PTL DEF Spec

-----------------------------------------------------------------------------
(* Nothing is forgotten. *)

\* The headers of l that the router has, or will ask for, or has asked for.
Remembered(l) ==
  Elems(lsdb[l[1]]) \cup nbr[l].reqList \cup hist[l].asked \cup {Own[l[1]]}

\* The property, one link at a time.
AllRemembered == \A l \in Link : hist[l].heard \subseteq Remembered(l)

\* It is the same property, before a step and after it.
LEMMA ForgottenAs ==
  /\ IInv => (NothingForgotten <=> AllRemembered)
  /\ IInv' => (NothingForgotten' <=> AllRemembered')
<1>1. ASSUME NEW l \in Link
      PROVE  {x \in Lsa : l[1] \in Local /\ x = Own[l[1]]} = {Own[l[1]]}
  BY LinkType, DbAssumption
<1>2. IInv => (NothingForgotten <=> AllRemembered)
  BY <1>1, Zenon DEF NothingForgotten, AllRemembered, Remembered
<1>. QED
  BY <1>2, PTL

\* A link whose headers are still the same, and are not lost.
LEMMA StillRemembered ==
  ASSUME NEW k \in Link, hist[k].heard \subseteq Remembered(k),
         hist'[k].heard = hist[k].heard, hist[k].asked \subseteq hist'[k].asked,
         nbr[k].reqList \subseteq nbr'[k].reqList \cup hist'[k].asked,
         Elems(lsdb[k[1]]) \subseteq Elems(lsdb'[k[1]]) \cup {Own[k[1]]}
  PROVE  hist'[k].heard \subseteq Remembered(k)'
  BY DEF Remembered

\* Every step keeps the headers in memory (PacketManager.cpp:305-317, 577-598).
LEMMA ForgottenStep == Known /\ NothingForgotten /\ [Next]_vars => NothingForgotten'
<1>. SUFFICES ASSUME Known, NothingForgotten, [Next]_vars PROVE NothingForgotten'
  OBVIOUS
<1>. DEFINE R(k) == hist'[k].heard \subseteq Remembered(k)'
<1>1. IInv /\ Unborn /\ IInv'
  BY NextIInv DEF Known
<1>2. \A k \in Link : hist[k].heard \subseteq Remembered(k)
  BY <1>1, ForgottenAs DEF AllRemembered
<1>3. SUFFICES \A k \in Link : R(k)
  BY <1>1, ForgottenAs DEF AllRemembered
<1>4. ASSUME NEW k \in Link, hist'[k] = hist[k], nbr'[k].reqList = nbr[k].reqList,
             Elems(lsdb[k[1]]) \subseteq Elems(lsdb'[k[1]]) \cup {Own[k[1]]}
      PROVE  R(k)
  BY <1>2, <1>4, StillRemembered
<1>5. ASSUME UNCHANGED lsdb, NEW l \in Link, OnlyLink(l), R(l) PROVE \A k \in Link : R(k)
  <2>1. ASSUME NEW k \in Link, k # l PROVE R(k)
    <3>1. hist'[k] = hist[k] /\ nbr'[k].reqList = nbr[k].reqList
      BY <1>5, <2>1, Zenon DEF OnlyLink
    <3>2. Elems(lsdb[k[1]]) \subseteq Elems(lsdb'[k[1]]) \cup {Own[k[1]]}
      BY <1>5
    <3>. QED
      BY <1>4, <3>1, <3>2
  <2>. QED
    BY <1>5, <2>1, Zenon
<1>6. ASSUME UNCHANGED lsdb, NEW l \in Link, OnlyLink(l), UNCHANGED hist, SameHeaders(nbr[l], nbr'[l])
      PROVE  \A k \in Link : R(k)
  <2>1. R(l)
    BY <1>4, <1>6 DEF SameHeaders
  <2>. QED
    BY <1>5, <1>6, <2>1
<1>. HIDE DEF R
<1>7. ASSUME NEW l \in Link, NEW twoWay \in BOOLEAN, recvHello(l, twoWay) PROVE \A k \in Link : R(k)
  BY <1>1, <1>6, <1>7, HelloEffect, Zenon
<1>8. ASSUME NEW l \in Link, NEW h \in Current(l),
             \/ wakeDD(l, h) \/ negotiateAsSlave(l, h) \/ negotiateAsMaster(l, h)
             \/ ignoreDD(l, h) \/ discardDD(l, h) \/ AcceptStep(l, h)
      PROVE  \A k \in Link : R(k)
  <2>1. CASE wakeDD(l, h)
    BY <1>1, <1>6, <2>1, WakeEffect, Zenon
  <2>2. CASE negotiateAsSlave(l, h) \/ negotiateAsMaster(l, h)
    <3>1. OnlyLink(l) /\ UNCHANGED <<lsdb, hist>> /\ nbr'[l].reqList = nbr[l].reqList
      BY <1>1, <2>2, NegotiateEffect, Zenon
    <3>2. R(l)
      BY <1>4, <3>1
    <3>. QED
      BY <1>5, <3>1, <3>2
  <2>3. CASE ignoreDD(l, h) \/ discardDD(l, h)
    BY <1>1, <1>6, <2>3, NotedEffect, Zenon DEF SameCount
  <2>4. CASE AcceptStep(l, h)
    <3>1. PICK missing \in Missing(l[1], h.dd.hdrs) :
            acceptAsSlave(l, h, missing) \/ acceptLastAck(l, h, missing) \/ acceptAck(l, h, missing)
      BY <2>4, Zenon DEF AcceptStep
    <3>2. missing \in SUBSET Lsa /\ h.dd.hdrs \ Elems(lsdb[l[1]]) \subseteq missing
      BY <1>1, LinkType, CurrentType, MissingType DEF IInv, DDPacket, Missing
    <3>3. AcceptedDD(l, h, missing)
      BY <1>1, <3>1, <3>2, SlaveEffect, LastAckEffect, AckEffect, Zenon
    <3>4. /\ OnlyLink(l) /\ UNCHANGED lsdb /\ nbr'[l].reqList = nbr[l].reqList \cup missing
          /\ hist'[l].heard = hist[l].heard \cup h.dd.hdrs /\ hist'[l].asked = hist[l].asked
      BY <3>3, Zenon DEF AcceptedDD
    <3>5. R(l)
      BY <1>2, <3>2, <3>4 DEF R, Remembered
    <3>. QED
      BY <1>5, <3>4, <3>5
  <2>. QED
    BY <1>8, <2>1, <2>2, <2>3, <2>4
<1>9. ASSUME NEW l \in Link, NEW x \in Updates(l), recvLSUpdate(l, x) PROVE \A k \in Link : R(k)
  <2>1. /\ UNCHANGED <<nbr, hist>> /\ \A r \in Local : r # l[1] => lsdb'[r] = lsdb[r]
        /\ Elems(lsdb[l[1]]) \subseteq Elems(lsdb'[l[1]])
    BY <1>1, <1>9, UpdateEffect, Zenon
  <2>2. ASSUME NEW k \in Link PROVE Elems(lsdb[k[1]]) \subseteq Elems(lsdb'[k[1]]) \cup {Own[k[1]]}
    BY <2>1, LinkType
  <2>. QED
    BY <1>4, <2>1, <2>2
<1>10. ASSUME NEW l \in Link, SenderThread(l) PROVE \A k \in Link : R(k)
  <2>1. /\ UNCHANGED <<nbr, lsdb>>
        /\ \A k \in Link : hist'[k].heard = hist[k].heard /\ hist'[k].asked = hist[k].asked
    BY <1>1, <1>10, SenderEffect, Zenon
  <2>. QED
    BY <1>2, <2>1 DEF R, Remembered
<1>11. ASSUME NEW l \in Link, NEW x \in nbr[l].reqList, sendLSReq(l, x) PROVE \A k \in Link : R(k)
  <2>1. /\ OnlyLink(l) /\ UNCHANGED lsdb /\ nbr'[l].reqList = nbr[l].reqList \ {x}
        /\ hist'[l].heard = hist[l].heard /\ hist'[l].asked = hist[l].asked \cup {x}
    BY <1>1, <1>11, AskEffect, Zenon
  <2>2. R(l)
    BY <1>2, <2>1 DEF R, Remembered
  <2>. QED
    BY <1>5, <2>1, <2>2
<1>12. ASSUME NEW r \in Local, lsaGenerateRemove(r) \/ lsaGenerateInsert(r) PROVE \A k \in Link : R(k)
  <2>1. /\ UNCHANGED <<nbr, hist>> /\ \A k \in Local : k # r => lsdb'[k] = lsdb[k]
        /\ \/ Elems(lsdb[r]) \ {Own[r]} \subseteq Elems(lsdb'[r])
           \/ Elems(lsdb'[r]) = Elems(lsdb[r]) \cup {Own[r]}
    BY <1>1, <1>12, GenerateEffect, Zenon
  <2>2. ASSUME NEW k \in Link PROVE Elems(lsdb[k[1]]) \subseteq Elems(lsdb'[k[1]]) \cup {Own[k[1]]}
    BY <2>1, LinkType
  <2>. QED
    BY <1>4, <2>1, <2>2
<1>13. ASSUME NEW r \in Restarting, Restart(r) PROVE \A k \in Link : R(k)
  <2>1. /\ \A k \in Link : (k[1] = r /\ hist'[k] = NoHistory)
                           \/ (k[1] # r /\ hist'[k] = hist[k] /\ nbr'[k] = nbr[k])
        /\ lsdb' = [lsdb EXCEPT ![r] = << >>]
    BY <1>1, <1>13, RestartEffect, Zenon
  <2>2. ASSUME NEW k \in Link, k[1] = r PROVE R(k)
    <3>1. hist'[k] = NoHistory
      BY <2>1, <2>2
    <3>. QED
      BY <3>1 DEF R, NoHistory
  <2>3. ASSUME NEW k \in Link, k[1] # r PROVE R(k)
    <3>1. lsdb'[k[1]] = lsdb[k[1]]
      BY <1>1, <2>1, <2>3, LinkType DEF IInv, TypeOK
    <3>. QED
      BY <1>4, <2>1, <2>3, <3>1
  <2>. QED
    BY <2>2, <2>3
<1>14. CASE OtherStep
  <2>1. UNCHANGED <<nbr, hist, lsdb>>
    BY <1>14, OtherEffect
  <2>. QED
    BY <1>4, <2>1
<1>. QED
  BY <1>7, <1>8, <1>9, <1>10, <1>11, <1>12, <1>13, <1>14, StepCases, Zenon

\* Every LSA of which the router has heard a header is in its database, on the
\* request list or asked for, whatever the neighbour sends, and through restarts,
\* losses and lsaGenerate's two steps (PacketManager.cpp:305-317, 577-598).
THEOREM HeadersRemembered == Spec => []NothingForgotten
<1>1. Init => NothingForgotten
  <2>1. NoHistory.heard = {}
    BY DEF NoHistory
  <2>. QED
    BY <2>1 DEF Init, NothingForgotten
<1>. QED
  BY <1>1, KnownAlways, ForgottenStep, PTL DEF Spec

-----------------------------------------------------------------------------
(* Where packets come from. *)

\* What a step may add to net.
Fresh(p) ==
  \/ \E l \in Link : \E h \in Current(l) : p \in Replay(l, h) /\ nbr[l].st >= EXCHANGE
  \/ \E l \in Link : \E h \in Current(l) : \E missing \in SUBSET Lsa :
       acceptAsSlave(l, h, missing) /\ p = ReplyTo(l, h)
  \/ \E l \in Link, e \in BOOLEAN : SenderThread(l) /\ p = Bare(l, e)
  \/ \E r \in Local : \E q \in packetList[r] : Running(r) /\ p = q.dd
  \/ \E l \in Link : \E x \in nbr[l].reqList : sendLSReq(l, x) /\ p = LSReq(l, x)
  \/ \E l \in Link : \E x \in Requests(l) :
       recvLSReq(l, x) /\ x \in Elems(lsdb[l[1]]) /\ p = LSUpdate(l, x)

\* Accepted headers are LSAs, and so are those of them that are missing.
LEMMA AcceptTyped ==
  ASSUME IInv, NEW l \in Link, NEW h \in Current(l), AcceptStep(l, h)
  PROVE  \E missing \in SUBSET Lsa :
           /\ missing \in Missing(l[1], h.dd.hdrs)
           /\ acceptAsSlave(l, h, missing) \/ acceptLastAck(l, h, missing) \/ acceptAck(l, h, missing)
<1>1. l[1] \in Local /\ h.dd.hdrs \in SUBSET Lsa
  BY LinkType, CurrentType DEF IInv, DDPacket
<1>2. \A missing \in Missing(l[1], h.dd.hdrs) : missing \in SUBSET Lsa
  BY <1>1, MissingType
<1>. QED
  BY <1>2, Zenon DEF AcceptStep

\* A packet that is new in net was sent by one of these.
LEMMA NewPackets ==
  ASSUME Known, [Next]_vars, NEW p \in net', p \notin net
  PROVE  p.to \in Local /\ Fresh(p)
<1>1. IInv /\ Unborn
  BY DEF Known
<1>2. \A ps : p \in Sent(ps) => p.to \in Local /\ p \in ps
  BY DEF Sent, Followed
<1>3. ASSUME NEW l \in Link, NEW h \in Current(l) PROVE p \notin Taken(l, h)
  BY DEF Taken
<1>4. \A ps : p \in Followed(ps) => p.to \in Local /\ p \in ps
  BY DEF Followed
<1>5. ASSUME NEW l \in Link, NEW twoWay \in BOOLEAN, recvHello(l, twoWay) PROVE FALSE
  BY <1>1, <1>5, HelloEffect, Zenon
<1>6. ASSUME NEW l \in Link, NEW h \in Current(l),
             \/ wakeDD(l, h) \/ negotiateAsSlave(l, h) \/ negotiateAsMaster(l, h)
             \/ ignoreDD(l, h) \/ discardDD(l, h) \/ AcceptStep(l, h)
      PROVE  p.to \in Local /\ Fresh(p)
  <2>1. CASE wakeDD(l, h)
    BY <1>1, <1>3, <2>1, WakeEffect, Zenon
  <2>2. CASE negotiateAsSlave(l, h) \/ negotiateAsMaster(l, h)
    BY <1>1, <1>3, <2>2, NegotiateEffect, Zenon
  <2>3. CASE ignoreDD(l, h) \/ discardDD(l, h)
    <3>1. /\ net' = Taken(l, h) \/ (net' = Taken(l, h) \cup Followed(Replay(l, h)) /\ nbr[l].st >= EXCHANGE)
      BY <1>1, <2>3, NotedEffect, Zenon
    <3>2. p \in Followed(Replay(l, h)) /\ nbr[l].st >= EXCHANGE
      BY <1>3, <3>1
    <3>. QED
      BY <1>4, <3>2, Zenon DEF Fresh
  <2>4. CASE AcceptStep(l, h)
    <3>1. PICK missing \in SUBSET Lsa :
            acceptAsSlave(l, h, missing) \/ acceptLastAck(l, h, missing) \/ acceptAck(l, h, missing)
      BY <1>1, <2>4, AcceptTyped, Zenon
    <3>2. CASE acceptLastAck(l, h, missing) \/ acceptAck(l, h, missing)
      <4>1. net' = Taken(l, h)
        BY <1>1, <3>2, LastAckEffect, AckEffect, Zenon
      <4>. QED
        BY <1>3, <4>1
    <3>3. CASE acceptAsSlave(l, h, missing)
      <4>1. net' = Taken(l, h) \cup Followed(Replay(l, h) \cup {ReplyTo(l, h)}) /\ AcceptedDD(l, h, missing)
        BY <1>1, <3>3, SlaveEffect, Zenon
      <4>2. p \in Followed(Replay(l, h) \cup {ReplyTo(l, h)}) /\ nbr[l].st >= EXCHANGE
        BY <1>3, <4>1 DEF AcceptedDD, Accepts, EXCHANGE
      <4>3. p.to \in Local /\ p \in Replay(l, h) \cup {ReplyTo(l, h)}
        BY <1>4, <4>2, Zenon
      <4>4. p \in Replay(l, h) \/ p = ReplyTo(l, h)
        BY <4>3
      <4>. QED
        BY <3>3, <4>2, <4>3, <4>4, Zenon DEF Fresh
    <3>. QED
      BY <3>1, <3>2, <3>3
  <2>. QED
    BY <1>6, <2>1, <2>2, <2>3, <2>4
<1>7. ASSUME NEW l \in Link, NEW x \in Updates(l), recvLSUpdate(l, x) PROVE FALSE
  BY <1>1, <1>7, UpdateEffect, Zenon
<1>8. ASSUME NEW l \in Link, SenderThread(l) PROVE p.to \in Local /\ Fresh(p)
  <2>1. PICK e \in BOOLEAN : net' = Sent({Bare(l, e)})
    BY <1>1, <1>8, SenderEffect, Zenon
  <2>2. p.to \in Local /\ p \in {Bare(l, e)}
    BY <1>2, <2>1, Zenon
  <2>. QED
    BY <1>8, <2>2 DEF Fresh
<1>9. ASSUME NEW l \in Link, NEW x \in nbr[l].reqList, sendLSReq(l, x) PROVE p.to \in Local /\ Fresh(p)
  <2>1. net' = Sent({LSReq(l, x)})
    BY <1>1, <1>9, AskEffect, Zenon
  <2>2. p.to \in Local /\ p \in {LSReq(l, x)}
    BY <1>2, <2>1, Zenon
  <2>. QED
    BY <1>9, <2>2 DEF Fresh
<1>10. ASSUME NEW r \in Local, lsaGenerateRemove(r) \/ lsaGenerateInsert(r) PROVE FALSE
  BY <1>1, <1>10, GenerateEffect, Zenon
<1>11. ASSUME NEW r \in Restarting, Restart(r) PROVE FALSE
  BY <1>1, <1>11, RestartEffect, Zenon
<1>12. CASE OtherStep
  <2>1. ASSUME NEW l \in Link, NEW h \in Current(l), recvOrphanDD(l, h) PROVE FALSE
    BY <1>3, <2>1, Zenon DEF recvOrphanDD
  <2>2. ASSUME NEW l \in Link, NEW h \in Current(l), runaway(l, h) PROVE p.to \in Local /\ Fresh(p)
    <3>1. net' = Taken(l, h) \cup Followed(Replay(l, h)) /\ Accepts(l, h)
      BY <2>2, Zenon DEF runaway
    <3>2. p \in Followed(Replay(l, h)) /\ nbr[l].st >= EXCHANGE
      BY <1>3, <3>1 DEF Accepts, EXCHANGE
    <3>. QED
      BY <1>4, <3>2, Zenon DEF Fresh
  <2>3. ASSUME NEW l \in Link, NEW x \in Requests(l), recvLSReq(l, x) PROVE p.to \in Local /\ Fresh(p)
    <3>1. x \in Elems(lsdb[l[1]]) /\ net' = Sent({LSUpdate(l, x)})
      BY <2>3, Zenon DEF recvLSReq
    <3>2. p.to \in Local /\ p \in {LSUpdate(l, x)}
      BY <1>2, <3>1, Zenon
    <3>. QED
      BY <2>3, <3>1, <3>2 DEF Fresh
  <2>4. ASSUME NEW l \in Link, endLSReq(l) \/ corruptReqList(l) PROVE FALSE
    BY <2>4, Zenon DEF endLSReq, corruptReqList
  <2>5. ASSUME NEW r \in Local, NEW q \in packetList[r], retransmit(r, q) PROVE p.to \in Local /\ Fresh(p)
    <3>1. Running(r) /\ net' = Sent({q.dd})
      BY <2>5, Zenon DEF retransmit
    <3>2. p.to \in Local /\ p \in {q.dd}
      BY <1>2, <3>1, Zenon
    <3>. QED
      BY <3>1, <3>2 DEF Fresh
  <2>6. ASSUME NEW k \in net, Lose(k) PROVE FALSE
    BY <2>6 DEF Lose
  <2>7. CASE UNCHANGED vars
    BY <2>7, Zenon DEF vars
  <2>. QED
    BY <1>12, <2>1, <2>2, <2>3, <2>4, <2>5, <2>6, <2>7, Zenon DEF OtherStep
<1>. QED
  BY <1>5, <1>6, <1>7, <1>8, <1>9, <1>10, <1>11, <1>12, StepCases, Zenon

\* The packet that a receive thread is in the middle of.
LEMMA NewHandled ==
  ASSUME Known, [Next]_vars, NEW r \in Local, handling'[r] # NoPacket
  PROVE  \/ handling'[r] = handling[r]
         \/ \E l \in Link : \E h \in Current(l) :
              l[1] = r /\ (handling'[r] = h \/ (PeerLeads(l, h.dd) /\ handling'[r] = [h EXCEPT !.seq = @ + 1]))
<1>1. IInv /\ Unborn /\ DOMAIN handling = Local /\ \A l \in Link : l[1] \in Local
  BY LinkType DEF Known, IInv, TypeOK
<1>2. ASSUME NEW l \in Link, handling' = [handling EXCEPT ![l[1]] = NoPacket] PROVE handling'[r] = handling[r]
  BY <1>1, <1>2
<1>3. ASSUME NEW l \in Link, NEW h, handling' = [handling EXCEPT ![l[1]] = h]
      PROVE  handling'[r] = handling[r] \/ (l[1] = r /\ handling'[r] = h)
  BY <1>1, <1>3
<1>4. ASSUME NEW l \in Link, NEW twoWay \in BOOLEAN, recvHello(l, twoWay) PROVE UNCHANGED handling
  BY <1>1, <1>4, HelloEffect, Zenon
<1>5. ASSUME NEW l \in Link, NEW h \in Current(l),
             \/ wakeDD(l, h) \/ negotiateAsSlave(l, h) \/ negotiateAsMaster(l, h)
             \/ ignoreDD(l, h) \/ discardDD(l, h) \/ AcceptStep(l, h)
      PROVE  \/ handling'[r] = handling[r]
             \/ l[1] = r /\ (handling'[r] = h \/ (PeerLeads(l, h.dd) /\ handling'[r] = [h EXCEPT !.seq = @ + 1]))
  <2>1. CASE wakeDD(l, h)
    BY <1>1, <1>3, <2>1, WakeEffect, Zenon
  <2>2. CASE negotiateAsSlave(l, h) \/ negotiateAsMaster(l, h)
    <3>1. \/ PeerLeads(l, h.dd) /\ handling' = [handling EXCEPT ![l[1]] = [h EXCEPT !.seq = @ + 1]]
          \/ handling' = [handling EXCEPT ![l[1]] = h]
      BY <1>1, <2>2, NegotiateEffect, Zenon
    <3>. QED
      BY <1>3, <3>1, Zenon
  <2>3. CASE ignoreDD(l, h) \/ discardDD(l, h)
    BY <1>1, <1>2, <2>3, NotedEffect, Zenon
  <2>4. CASE AcceptStep(l, h)
    <3>1. PICK missing \in SUBSET Lsa :
            acceptAsSlave(l, h, missing) \/ acceptLastAck(l, h, missing) \/ acceptAck(l, h, missing)
      BY <1>1, <2>4, AcceptTyped, Zenon
    <3>2. handling' = [handling EXCEPT ![l[1]] = NoPacket]
      BY <1>1, <3>1, SlaveEffect, LastAckEffect, AckEffect, Zenon DEF AcceptedDD
    <3>. QED
      BY <1>2, <3>2
  <2>. QED
    BY <1>5, <2>1, <2>2, <2>3, <2>4
<1>6. ASSUME NEW l \in Link, NEW x \in Updates(l), recvLSUpdate(l, x) PROVE UNCHANGED handling
  BY <1>1, <1>6, UpdateEffect, Zenon
<1>7. ASSUME NEW l \in Link, SenderThread(l) PROVE UNCHANGED handling
  BY <1>1, <1>7, SenderEffect, Zenon
<1>8. ASSUME NEW l \in Link, NEW x \in nbr[l].reqList, sendLSReq(l, x) PROVE UNCHANGED handling
  BY <1>1, <1>8, AskEffect, Zenon
<1>9. ASSUME NEW k \in Local, lsaGenerateRemove(k) \/ lsaGenerateInsert(k) PROVE UNCHANGED handling
  BY <1>1, <1>9, GenerateEffect, Zenon
<1>10. ASSUME NEW k \in Restarting, Restart(k) PROVE handling'[r] = handling[r]
  BY <1>1, <1>10, RestartEffect
<1>11. CASE OtherStep
  BY <1>11, OtherEffect
<1>12. CASE \E l \in Link : \E h \in Current(l) :
               \/ wakeDD(l, h) \/ negotiateAsSlave(l, h) \/ negotiateAsMaster(l, h)
               \/ ignoreDD(l, h) \/ discardDD(l, h) \/ AcceptStep(l, h)
  BY <1>5, <1>12, Zenon
<1>13. CASE UNCHANGED handling \/ handling'[r] = handling[r]
  BY <1>13
<1>. QED
  BY <1>4, <1>6, <1>7, <1>8, <1>9, <1>10, <1>11, <1>12, <1>13, StepCases, Zenon

\* What a step may do to one Neighbor object.
LEMMA LinkSteps ==
  ASSUME Known, [Next]_vars, NEW k \in Link
  PROVE  \/ nbr'[k] = nbr[k] /\ (hist'[k] = hist[k] \/ SenderThread(k))
         \/ \E twoWay \in BOOLEAN : Hears(k, twoWay) /\ recvHello(k, twoWay)
         \/ \E h \in Current(k) :
              \/ wakeDD(k, h) \/ negotiateAsSlave(k, h) \/ negotiateAsMaster(k, h)
              \/ ignoreDD(k, h) \/ discardDD(k, h)
              \/ \E missing \in SUBSET Lsa :
                   /\ missing \in Missing(k[1], h.dd.hdrs)
                   /\ acceptAsSlave(k, h, missing) \/ acceptLastAck(k, h, missing) \/ acceptAck(k, h, missing)
         \/ \E x \in nbr[k].reqList : sendLSReq(k, x)
         \/ k[1] \in Restarting /\ Restart(k[1])
<1>1. IInv /\ Unborn
  BY DEF Known
<1>2. ASSUME NEW l \in Link, OnlyLink(l) PROVE l = k \/ (nbr'[k] = nbr[k] /\ hist'[k] = hist[k])
  BY <1>2, Zenon DEF OnlyLink
<1>3. ASSUME NEW l \in Link, NEW twoWay \in BOOLEAN, Hears(l, twoWay), recvHello(l, twoWay)
      PROVE  (nbr'[k] = nbr[k] /\ hist'[k] = hist[k]) \/ (Hears(k, twoWay) /\ recvHello(k, twoWay))
  BY <1>1, <1>2, <1>3, HelloEffect, Zenon
<1>4. ASSUME NEW l \in Link, NEW h \in Current(l),
             \/ wakeDD(l, h) \/ negotiateAsSlave(l, h) \/ negotiateAsMaster(l, h)
             \/ ignoreDD(l, h) \/ discardDD(l, h)
      PROVE  l = k \/ (nbr'[k] = nbr[k] /\ hist'[k] = hist[k])
  BY <1>1, <1>2, <1>4, WakeEffect, NegotiateEffect, NotedEffect, Zenon
<1>5. ASSUME NEW l \in Link, NEW h \in Current(l), AcceptStep(l, h)
      PROVE  \/ nbr'[k] = nbr[k] /\ hist'[k] = hist[k]
             \/ l = k /\ \E missing \in SUBSET Lsa :
                  /\ missing \in Missing(l[1], h.dd.hdrs)
                  /\ acceptAsSlave(l, h, missing) \/ acceptLastAck(l, h, missing) \/ acceptAck(l, h, missing)
  <2>1. PICK missing \in SUBSET Lsa :
          /\ missing \in Missing(l[1], h.dd.hdrs)
          /\ acceptAsSlave(l, h, missing) \/ acceptLastAck(l, h, missing) \/ acceptAck(l, h, missing)
    BY <1>1, <1>5, AcceptTyped, Zenon
  <2>2. OnlyLink(l)
    BY <1>1, <2>1, SlaveEffect, LastAckEffect, AckEffect, Zenon DEF AcceptedDD
  <2>. QED
    BY <1>2, <2>1, <2>2, Zenon
<1>6. ASSUME NEW l \in Link, NEW x \in Updates(l), recvLSUpdate(l, x) PROVE UNCHANGED <<nbr, hist>>
  BY <1>1, <1>6, UpdateEffect, Zenon
<1>7. ASSUME NEW l \in Link, SenderThread(l)
      PROVE  nbr'[k] = nbr[k] /\ (hist'[k] = hist[k] \/ l = k)
  BY <1>1, <1>7, SenderEffect, Zenon
<1>8. ASSUME NEW l \in Link, NEW x \in nbr[l].reqList, sendLSReq(l, x)
      PROVE  l = k \/ (nbr'[k] = nbr[k] /\ hist'[k] = hist[k])
  BY <1>1, <1>2, <1>8, AskEffect, Zenon
<1>9. ASSUME NEW r \in Local, lsaGenerateRemove(r) \/ lsaGenerateInsert(r) PROVE UNCHANGED <<nbr, hist>>
  BY <1>1, <1>9, GenerateEffect, Zenon
<1>10. ASSUME NEW r \in Restarting, Restart(r)
       PROVE  k[1] = r \/ (nbr'[k] = nbr[k] /\ hist'[k] = hist[k])
  BY <1>1, <1>10, RestartEffect, Zenon
<1>11. CASE OtherStep
  BY <1>11, OtherEffect, Zenon
<1>. QED
  BY <1>3, <1>4, <1>5, <1>6, <1>7, <1>8, <1>9, <1>10, <1>11, StepCases, Zenon

\* The last DD of a slave.
LEMMA NewLastDD ==
  ASSUME Known, [Next]_vars, NEW k \in Link
  PROVE  \/ nbr'[k].lastDD = nbr[k].lastDD
         \/ nbr'[k].lastDD = EmptyDD(k)
         \/ \E h \in Current(k) : \E missing \in SUBSET Lsa :
              acceptAsSlave(k, h, missing) /\ nbr'[k].lastDD = ReplyTo(k, h)
<1>1. IInv /\ Unborn
  BY DEF Known
<1>2. ASSUME NEW twoWay \in BOOLEAN, recvHello(k, twoWay) PROVE nbr'[k].lastDD = nbr[k].lastDD
  BY <1>1, <1>2, HelloEffect, Zenon DEF SameHeaders
<1>3. ASSUME NEW h \in Current(k),
             \/ wakeDD(k, h) \/ negotiateAsSlave(k, h) \/ negotiateAsMaster(k, h)
             \/ ignoreDD(k, h) \/ discardDD(k, h)
      PROVE  nbr'[k].lastDD = nbr[k].lastDD
  BY <1>1, <1>3, WakeEffect, NegotiateEffect, NotedEffect, Zenon DEF SameHeaders, SameCount
<1>4. ASSUME NEW h \in Current(k), NEW missing \in SUBSET Lsa,
             acceptAsSlave(k, h, missing) \/ acceptLastAck(k, h, missing) \/ acceptAck(k, h, missing)
      PROVE  \/ nbr'[k].lastDD = nbr[k].lastDD
             \/ acceptAsSlave(k, h, missing) /\ nbr'[k].lastDD = ReplyTo(k, h)
  BY <1>1, <1>4, SlaveEffect, LastAckEffect, AckEffect, Zenon
<1>5. ASSUME NEW x \in nbr[k].reqList, sendLSReq(k, x) PROVE nbr'[k].lastDD = nbr[k].lastDD
  BY <1>1, <1>5, AskEffect, Zenon
<1>6. ASSUME k[1] \in Restarting, Restart(k[1]) PROVE nbr'[k].lastDD = EmptyDD(k)
  <2>1. nbr'[k] = NoNeighbor(k)
    BY <1>1, <1>6, RestartEffect
  <2>. QED
    BY <2>1 DEF NoNeighbor, Neighbor
<1>. QED
  BY <1>2, <1>3, <1>4, <1>5, <1>6, LinkSteps, Zenon

\* The packets registered for retransmission.
LEMMA NewScheduled ==
  ASSUME Known, [Next]_vars, NEW r \in Local, NEW q \in packetList'[r]
  PROVE  \/ q \in packetList[r]
         \/ \E l \in Link : \E h \in Current(l) : \E missing \in SUBSET Lsa :
              /\ l[1] = r /\ acceptAck(l, h, missing)
              /\ q = [id |-> currentId[r], dd |-> NextPoll(l)]
<1>1. IInv /\ Unborn /\ DOMAIN packetList = Local /\ \A l \in Link : l[1] \in Local
  BY LinkType DEF Known, IInv, TypeOK
<1>2. ASSUME NEW l \in Link, NEW twoWay \in BOOLEAN, recvHello(l, twoWay) PROVE UNCHANGED packetList
  BY <1>1, <1>2, HelloEffect, Zenon
<1>3. ASSUME NEW l \in Link, NEW h \in Current(l),
             \/ wakeDD(l, h) \/ negotiateAsSlave(l, h) \/ negotiateAsMaster(l, h)
             \/ ignoreDD(l, h) \/ discardDD(l, h)
      PROVE  UNCHANGED packetList
  BY <1>1, <1>3, WakeEffect, NegotiateEffect, NotedEffect, Zenon
<1>4. ASSUME NEW l \in Link, NEW h \in Current(l), AcceptStep(l, h)
      PROVE  \/ q \in packetList[r]
             \/ \E missing \in SUBSET Lsa : /\ l[1] = r /\ acceptAck(l, h, missing)
                                            /\ q = [id |-> currentId[r], dd |-> NextPoll(l)]
  <2>1. PICK missing \in SUBSET Lsa :
          acceptAsSlave(l, h, missing) \/ acceptLastAck(l, h, missing) \/ acceptAck(l, h, missing)
    BY <1>1, <1>4, AcceptTyped, Zenon
  <2>2. CASE acceptAsSlave(l, h, missing)
    BY <1>1, <2>2, SlaveEffect, Zenon
  <2>3. CASE acceptLastAck(l, h, missing)
    <3>1. packetList' = [packetList EXCEPT ![l[1]] = Unregistered(l)]
      BY <1>1, <2>3, LastAckEffect, Zenon
    <3>. QED
      BY <1>1, <3>1 DEF Unregistered
  <2>4. CASE acceptAck(l, h, missing)
    <3>1. packetList' = [packetList EXCEPT ![l[1]] =
                           Unregistered(l) \cup {[id |-> currentId[l[1]], dd |-> NextPoll(l)]}]
      BY <1>1, <2>4, AckEffect, Zenon
    <3>2. q \in packetList[r] \/ (l[1] = r /\ q = [id |-> currentId[l[1]], dd |-> NextPoll(l)])
      BY <1>1, <3>1 DEF Unregistered
    <3>. QED
      BY <2>4, <3>2, Zenon
  <2>. QED
    BY <2>1, <2>2, <2>3, <2>4
<1>5. ASSUME NEW l \in Link, NEW x \in Updates(l), recvLSUpdate(l, x) PROVE UNCHANGED packetList
  BY <1>1, <1>5, UpdateEffect, Zenon
<1>6. ASSUME NEW l \in Link, SenderThread(l) PROVE UNCHANGED packetList
  BY <1>1, <1>6, SenderEffect, Zenon
<1>7. ASSUME NEW l \in Link, NEW x \in nbr[l].reqList, sendLSReq(l, x) PROVE UNCHANGED packetList
  BY <1>1, <1>7, AskEffect, Zenon
<1>8. ASSUME NEW k \in Local, lsaGenerateRemove(k) \/ lsaGenerateInsert(k) PROVE UNCHANGED packetList
  BY <1>1, <1>8, GenerateEffect, Zenon
<1>9. ASSUME NEW k \in Restarting, Restart(k) PROVE q \in packetList[r]
  <2>1. packetList' = [packetList EXCEPT ![k] = {}]
    BY <1>1, <1>9, RestartEffect
  <2>. QED
    BY <1>1, <2>1
<1>10. CASE OtherStep
  BY <1>10, OtherEffect
<1>. QED
  BY <1>2, <1>3, <1>4, <1>5, <1>6, <1>7, <1>8, <1>9, <1>10, StepCases, Zenon

-----------------------------------------------------------------------------
(* What ends a process: a packet without a body. *)

\* A DD without a body is one of zeros.
Zeros(p) == ~p.body => p.seq = 0 /\ ~p.i

\* The DDs without body that there are, and what the one that ends a process met.
BodylessZero ==
  /\ \A p \in net : p.type = "dd" => Zeros(p)
  /\ \A l \in Link : Zeros(nbr[l].lastDD)
  /\ \A r \in Local : \A q \in packetList[r] : Zeros(q.dd)
  /\ \A r \in Local : handling[r] # NoPacket =>
       Zeros(handling[r].dd) /\ (~handling[r].dd.body => handling[r].seq = 0)
  /\ RunawayOnlyAsMaster

\* The packet that is handled.
LEMMA CurrentZero ==
  ASSUME BodylessZero, NEW l \in Link, NEW h \in Current(l)
  PROVE  Zeros(h.dd) /\ (~h.dd.body => h.seq = 0)
<1>1. CASE handling[l[1]] # NoPacket
  <2>1. h = handling[l[1]]
    BY <1>1 DEF Current
  <2>. QED
    BY <1>1, <2>1, LinkType DEF BodylessZero
<1>2. CASE handling[l[1]] = NoPacket
  <2>1. PICK p \in ArrivingDD(l[1]) : h = Arrived(l, p)
    BY <1>2 DEF Current
  <2>2. h.dd = p /\ h.seq = p.seq
    BY <2>1 DEF Arrived
  <2>3. CASE p \in Incoming(l[1], "dd")
    BY <2>2, <2>3 DEF Incoming, BodylessZero, Zeros
  <2>4. CASE p \in ForeignDD(l[1])
    BY <2>2, <2>4 DEF ForeignDD, Zeros
  <2>. QED
    BY <2>1, <2>3, <2>4 DEF ArrivingDD
<1>. QED
  BY <1>1, <1>2

\* The packets this code builds have a body, but for the empty lastDD.
LEMMA BuiltZeros ==
  ASSUME NEW l \in Link, NEW h, NEW e \in BOOLEAN
  PROVE  Zeros(EmptyDD(l)) /\ Zeros(ReplyTo(l, h)) /\ Zeros(NextPoll(l)) /\ Zeros(Bare(l, e))
  BY DEF Zeros, EmptyDD, ReplyTo, NextPoll, Bare, DD

\* A process that has ended does nothing.
LEMMA EndedIsEnded ==
  ASSUME Known, [Next]_vars, NEW l \in Link, ~Running(l[1]), fault'[l[1]] = fault[l[1]]
  PROVE  nbr'[l] = nbr[l]
<1>1. IInv /\ Unborn /\ l[1] \in Local
  BY LinkType DEF Known
<1>2. ASSUME NEW twoWay, recvHello(l, twoWay) PROVE FALSE
  BY <1>2 DEF recvHello, Idle
<1>3. ASSUME NEW h \in Current(l) PROVE FALSE
  BY <1>1, <1>3, CurrentType DEF IInv
<1>4. ASSUME NEW x, sendLSReq(l, x) PROVE FALSE
  BY <1>4 DEF sendLSReq
<1>5. ASSUME l[1] \in Restarting, Restart(l[1]) PROVE FALSE
  <2>1. fault' = [fault EXCEPT ![l[1]] = "none"]
    BY <1>1, <1>5, RestartEffect
  <2>. QED
    BY <1>1, <2>1 DEF Running, IInv, TypeOK
<1>. QED
  BY <1>2, <1>3, <1>4, <1>5, LinkSteps, Zenon

\* What ends a process, or sets the fault back.
LEMMA NewFault ==
  ASSUME Known, [Next]_vars, NEW r \in Local
  PROVE  \/ fault'[r] = fault[r]
         \/ fault'[r] = "none" /\ r \in Restarting /\ Restart(r)
         \/ \E l \in Link : \E h \in Current(l) : l[1] = r /\ recvOrphanDD(l, h) /\ fault'[r] = "null_nbr"
         \/ \E l \in Link : \E h \in Current(l) : l[1] = r /\ runaway(l, h) /\ fault'[r] = "runaway"
         \/ \E l \in Link : \E x \in Requests(l) :
              /\ l[1] = r /\ recvLSReq(l, x) /\ {x} \in Missing(r, {x}) /\ fault'[r] = NullLsa(l, x)
              /\ fault'[r] \in {"null_lsa", "null_unknown_lsa"}
         \/ \E l \in Link : l[1] = r /\ corruptReqList(l) /\ fault'[r] = "list_race"
<1>1. IInv /\ Unborn /\ DOMAIN fault = Local
  BY DEF Known, IInv, TypeOK
<1>2. ASSUME NEW l \in Link, NEW twoWay \in BOOLEAN, recvHello(l, twoWay) PROVE UNCHANGED fault
  BY <1>1, <1>2, HelloEffect, Zenon
<1>3. ASSUME NEW l \in Link, NEW h \in Current(l),
             \/ wakeDD(l, h) \/ negotiateAsSlave(l, h) \/ negotiateAsMaster(l, h)
             \/ ignoreDD(l, h) \/ discardDD(l, h)
      PROVE  UNCHANGED fault
  BY <1>1, <1>3, WakeEffect, NegotiateEffect, NotedEffect, Zenon
<1>4. ASSUME NEW l \in Link, NEW h \in Current(l), AcceptStep(l, h) PROVE UNCHANGED fault
  <2>1. PICK missing \in SUBSET Lsa :
          acceptAsSlave(l, h, missing) \/ acceptLastAck(l, h, missing) \/ acceptAck(l, h, missing)
    BY <1>1, <1>4, AcceptTyped, Zenon
  <2>. QED
    BY <1>1, <2>1, SlaveEffect, LastAckEffect, AckEffect, Zenon DEF AcceptedDD
<1>5. ASSUME NEW l \in Link, NEW x \in Updates(l), recvLSUpdate(l, x) PROVE UNCHANGED fault
  BY <1>1, <1>5, UpdateEffect, Zenon
<1>6. ASSUME NEW l \in Link, SenderThread(l) PROVE UNCHANGED fault
  BY <1>1, <1>6, SenderEffect, Zenon
<1>7. ASSUME NEW l \in Link, NEW x \in nbr[l].reqList, sendLSReq(l, x) PROVE UNCHANGED fault
  BY <1>1, <1>7, AskEffect, Zenon
<1>8. ASSUME NEW k \in Local, lsaGenerateRemove(k) \/ lsaGenerateInsert(k) PROVE UNCHANGED fault
  BY <1>1, <1>8, GenerateEffect, Zenon
<1>9. ASSUME NEW k \in Restarting, Restart(k)
      PROVE  fault'[r] = fault[r] \/ (r = k /\ fault'[r] = "none")
  BY <1>1, <1>9, RestartEffect
<1>10. ASSUME NEW l \in Link, NEW f, fault' = [fault EXCEPT ![l[1]] = f]
       PROVE  fault'[r] = fault[r] \/ (l[1] = r /\ fault'[r] = f)
  BY <1>1, <1>10
<1>11. CASE OtherStep
  <2>1. ASSUME NEW l \in Link, NEW h \in Current(l), recvOrphanDD(l, h)
        PROVE  fault'[r] = fault[r] \/ (l[1] = r /\ fault'[r] = "null_nbr")
    BY <1>10, <2>1, Zenon DEF recvOrphanDD
  <2>2. ASSUME NEW l \in Link, NEW h \in Current(l), runaway(l, h)
        PROVE  fault'[r] = fault[r] \/ (l[1] = r /\ fault'[r] = "runaway")
    BY <1>10, <2>2, Zenon DEF runaway
  <2>3. ASSUME NEW l \in Link, NEW x \in Requests(l), recvLSReq(l, x)
        PROVE  \/ fault'[r] = fault[r]
               \/ /\ l[1] = r /\ {x} \in Missing(r, {x}) /\ fault'[r] = NullLsa(l, x)
                  /\ fault'[r] \in {"null_lsa", "null_unknown_lsa"}
    <3>1. fault'[r] = fault[r] \/ (l[1] = r /\ {x} \in Missing(r, {x}) /\ fault'[r] = NullLsa(l, x))
      BY <1>10, <2>3, Zenon DEF recvLSReq
    <3>2. NullLsa(l, x) \in {"null_lsa", "null_unknown_lsa"}
      BY DEF NullLsa
    <3>. QED
      BY <3>1, <3>2
  <2>4. ASSUME NEW l \in Link, endLSReq(l) PROVE UNCHANGED fault
    BY <2>4, Zenon DEF endLSReq
  <2>5. ASSUME NEW l \in Link, corruptReqList(l)
        PROVE  fault'[r] = fault[r] \/ (l[1] = r /\ fault'[r] = "list_race")
    BY <1>10, <2>5, Zenon DEF corruptReqList
  <2>6. ASSUME NEW k \in Local, NEW q \in packetList[k], retransmit(k, q) PROVE UNCHANGED fault
    BY <2>6, Zenon DEF retransmit
  <2>7. ASSUME NEW k \in net, Lose(k) PROVE UNCHANGED fault
    BY <2>7, Zenon DEF Lose
  <2>8. CASE UNCHANGED vars
    BY <2>8, Zenon DEF vars
  <2>. QED
    BY <1>11, <2>1, <2>2, <2>3, <2>4, <2>5, <2>6, <2>7, <2>8, Zenon DEF OtherStep
<1>. QED
  BY <1>2, <1>3, <1>4, <1>5, <1>6, <1>7, <1>8, <1>9, <1>11, StepCases, Zenon

\* Every step keeps it: packets without a body are the zeros that a slave replays
\* before it has replied, and only a master that expects number 0 accepts them.
LEMMA BodylessStep == Known /\ BodylessZero /\ [Next]_vars => BodylessZero'
<1>. SUFFICES ASSUME Known, BodylessZero, [Next]_vars PROVE BodylessZero'
  OBVIOUS
<1>1. ASSUME NEW p \in net', p.type = "dd" PROVE Zeros(p)
  <2>1. CASE p \in net
    BY <1>1, <2>1 DEF BodylessZero
  <2>2. CASE p \notin net
    <3>1. Fresh(p)
      BY <2>2, NewPackets
    <3>2. ASSUME NEW l \in Link, NEW h \in Current(l), p \in Replay(l, h) PROVE Zeros(p)
      BY <3>2 DEF Replay, BodylessZero
    <3>3. ASSUME NEW r \in Local, NEW q \in packetList[r], p = q.dd PROVE Zeros(p)
      BY <3>3 DEF BodylessZero
    <3>4. ASSUME NEW l, NEW x, p = LSReq(l, x) \/ p = LSUpdate(l, x) PROVE FALSE
      BY <1>1, <3>4 DEF LSReq, LSUpdate
    <3>. QED
      BY <3>1, <3>2, <3>3, <3>4, BuiltZeros, Zenon DEF Fresh
  <2>. QED
    BY <2>1, <2>2
<1>2. ASSUME NEW l \in Link PROVE Zeros(nbr'[l].lastDD)
  <2>1. Zeros(nbr[l].lastDD)
    BY DEF BodylessZero
  <2>. QED
    BY <2>1, NewLastDD, BuiltZeros, Zenon
<1>3. ASSUME NEW r \in Local, NEW q \in packetList'[r] PROVE Zeros(q.dd)
  <2>1. ASSUME NEW l \in Link, q = [id |-> currentId[r], dd |-> NextPoll(l)] PROVE Zeros(q.dd)
    BY <2>1, BuiltZeros
  <2>2. CASE q \in packetList[r]
    BY <2>2 DEF BodylessZero
  <2>. QED
    BY <2>1, <2>2, NewScheduled, Zenon
<1>4. ASSUME NEW r \in Local, handling'[r] # NoPacket
      PROVE  Zeros(handling'[r].dd) /\ (~handling'[r].dd.body => handling'[r].seq = 0)
  <2>1. ASSUME NEW l \in Link, NEW h \in Current(l), PeerLeads(l, h.dd), handling'[r] = [h EXCEPT !.seq = @ + 1]
        PROVE  Zeros(handling'[r].dd) /\ (~handling'[r].dd.body => handling'[r].seq = 0)
    <3>1. h.dd.i /\ Zeros(h.dd) /\ h \in Handled
      BY <2>1, CurrentZero, CurrentType DEF PeerLeads, Known, IInv
    <3>2. handling'[r].dd = h.dd
      BY <2>1, <3>1 DEF Handled
    <3>. QED
      BY <3>1, <3>2 DEF Zeros
  <2>2. ASSUME NEW l \in Link, NEW h \in Current(l), handling'[r] = h
        PROVE  Zeros(handling'[r].dd) /\ (~handling'[r].dd.body => handling'[r].seq = 0)
    BY <2>2, CurrentZero
  <2>3. CASE handling'[r] = handling[r]
    BY <1>4, <2>3 DEF BodylessZero
  <2>. QED
    BY <1>4, <2>1, <2>2, <2>3, NewHandled, Zenon
<1>5. ASSUME NEW r \in Local, fault'[r] = "runaway"
      PROVE  \E l \in Link : l[1] = r /\ nbr'[l].st = EXCHANGE /\ ~nbr'[l].isMaster /\ nbr'[l].ddNum = 0
  <2>1. CASE fault'[r] = fault[r]
    <3>1. PICK l \in Link : l[1] = r /\ nbr[l].st = EXCHANGE /\ ~nbr[l].isMaster /\ nbr[l].ddNum = 0
      BY <1>5, <2>1 DEF BodylessZero, RunawayOnlyAsMaster
    <3>2. nbr'[l] = nbr[l]
      BY <1>5, <2>1, <3>1, EndedIsEnded DEF Running
    <3>. QED
      BY <3>1, <3>2
  <2>2. ASSUME NEW l \in Link, NEW h \in Current(l), l[1] = r, runaway(l, h)
        PROVE  nbr'[l].st = EXCHANGE /\ ~nbr'[l].isMaster /\ nbr'[l].ddNum = 0
    <3>1. Accepts(l, h) /\ ~h.dd.body /\ UNCHANGED nbr
      BY <2>2, Zenon DEF runaway
    <3>2. h.seq = 0 /\ nbr[l].ddNum \in Nat
      BY <3>1, CurrentZero, NeighborFields DEF Known
    <3>. QED
      BY <3>1, <3>2 DEF Accepts
  <2>. QED
    BY <1>5, <2>1, <2>2, NewFault
<1>. QED
  BY <1>1, <1>2, <1>3, <1>4, <1>5 DEF BodylessZero, RunawayOnlyAsMaster

\* The loop over the headers runs away only in a master that waits for its first
\* reply, whatever the other routers send (PacketManager.cpp:276-303, 555-570).
THEOREM RunawayOnlyFirst == Spec => []RunawayOnlyAsMaster
<1>1. Init => BodylessZero
  <2>. SUFFICES ASSUME Init PROVE BodylessZero
    OBVIOUS
  <2>1. ASSUME NEW l \in Link PROVE Zeros(nbr[l].lastDD)
    <3>1. nbr[l].lastDD = EmptyDD(l)
      BY DEF Init, NoNeighbor, Neighbor
    <3>. QED
      BY <3>1, BuiltZeros
  <2>. QED
    BY <2>1 DEF Init, BodylessZero, RunawayOnlyAsMaster
<1>2. BodylessZero => RunawayOnlyAsMaster
  BY DEF BodylessZero
<1>. QED
  BY <1>1, <1>2, KnownAlways, BodylessStep, PTL DEF Spec

-----------------------------------------------------------------------------
(* Which polls stay registered. *)

\* What is registered stays, unless it is acknowledged or the router restarts.
LEMMA OldScheduled ==
  ASSUME Known, [Next]_vars, NEW r \in Local
  PROVE  \/ UNCHANGED <<packetList[r], currentId[r]>>
         \/ r \in Restarting /\ Restart(r)
         \/ \E k \in Link : \E h \in Current(k) : \E missing \in SUBSET Lsa :
              /\ k[1] = r
              /\ \/ acceptLastAck(k, h, missing) /\ packetList'[r] = Unregistered(k) /\ currentId'[r] = currentId[r]
                 \/ /\ acceptAck(k, h, missing) /\ currentId'[r] = currentId[r] + 1
                    /\ packetList'[r] = Unregistered(k) \cup {[id |-> currentId[r], dd |-> NextPoll(k)]}
<1>1. /\ IInv /\ Unborn /\ DOMAIN packetList = Local /\ DOMAIN currentId = Local
      /\ \A l \in Link : l[1] \in Local
  BY LinkType DEF Known, IInv, TypeOK
<1>2. ASSUME NEW l \in Link, NEW twoWay \in BOOLEAN, recvHello(l, twoWay)
      PROVE  UNCHANGED <<packetList, currentId>>
  BY <1>1, <1>2, HelloEffect, Zenon
<1>3. ASSUME NEW l \in Link, NEW h \in Current(l),
             \/ wakeDD(l, h) \/ negotiateAsSlave(l, h) \/ negotiateAsMaster(l, h)
             \/ ignoreDD(l, h) \/ discardDD(l, h)
      PROVE  UNCHANGED <<packetList, currentId>>
  BY <1>1, <1>3, WakeEffect, NegotiateEffect, NotedEffect, Zenon
<1>4. ASSUME NEW l \in Link, NEW h \in Current(l), AcceptStep(l, h)
      PROVE  \/ UNCHANGED <<packetList[r], currentId[r]>>
             \/ \E missing \in SUBSET Lsa :
                  /\ l[1] = r
                  /\ \/ acceptLastAck(l, h, missing) /\ packetList'[r] = Unregistered(l) /\ currentId'[r] = currentId[r]
                     \/ /\ acceptAck(l, h, missing) /\ currentId'[r] = currentId[r] + 1
                        /\ packetList'[r] = Unregistered(l) \cup {[id |-> currentId[r], dd |-> NextPoll(l)]}
  <2>1. PICK missing \in SUBSET Lsa :
          acceptAsSlave(l, h, missing) \/ acceptLastAck(l, h, missing) \/ acceptAck(l, h, missing)
    BY <1>1, <1>4, AcceptTyped, Zenon
  <2>2. CASE acceptAsSlave(l, h, missing)
    BY <1>1, <2>2, SlaveEffect, Zenon
  <2>3. CASE acceptLastAck(l, h, missing)
    <3>1. packetList' = [packetList EXCEPT ![l[1]] = Unregistered(l)] /\ UNCHANGED currentId
      BY <1>1, <2>3, LastAckEffect, Zenon
    <3>2. IF l[1] = r THEN packetList'[r] = Unregistered(l) ELSE packetList'[r] = packetList[r]
      BY <1>1, <3>1
    <3>. QED
      BY <2>3, <3>1, <3>2, Zenon
  <2>4. CASE acceptAck(l, h, missing)
    <3>1. /\ packetList' = [packetList EXCEPT ![l[1]] =
                              Unregistered(l) \cup {[id |-> currentId[l[1]], dd |-> NextPoll(l)]}]
          /\ currentId' = [currentId EXCEPT ![l[1]] = currentId[l[1]] + 1]
      BY <1>1, <2>4, AckEffect, Zenon
    <3>2. IF l[1] = r
          THEN /\ currentId'[r] = currentId[r] + 1
               /\ packetList'[r] = Unregistered(l) \cup {[id |-> currentId[r], dd |-> NextPoll(l)]}
          ELSE packetList'[r] = packetList[r] /\ currentId'[r] = currentId[r]
      BY <1>1, <3>1
    <3>. QED
      BY <2>4, <3>2, Zenon
  <2>. QED
    BY <2>1, <2>2, <2>3, <2>4
<1>5. ASSUME NEW l \in Link, NEW x \in Updates(l), recvLSUpdate(l, x)
      PROVE  UNCHANGED <<packetList, currentId>>
  BY <1>1, <1>5, UpdateEffect, Zenon
<1>6. ASSUME NEW l \in Link, SenderThread(l) PROVE UNCHANGED <<packetList, currentId>>
  BY <1>1, <1>6, SenderEffect, Zenon
<1>7. ASSUME NEW l \in Link, NEW x \in nbr[l].reqList, sendLSReq(l, x)
      PROVE  UNCHANGED <<packetList, currentId>>
  BY <1>1, <1>7, AskEffect, Zenon
<1>8. ASSUME NEW k \in Local, lsaGenerateRemove(k) \/ lsaGenerateInsert(k)
      PROVE  UNCHANGED <<packetList, currentId>>
  BY <1>1, <1>8, GenerateEffect, Zenon
<1>9. ASSUME NEW k \in Restarting, Restart(k)
      PROVE  k = r \/ UNCHANGED <<packetList[r], currentId[r]>>
  BY <1>1, <1>9, RestartEffect
<1>10. CASE OtherStep
  BY <1>10, OtherEffect
<1>. QED
  BY <1>2, <1>3, <1>4, <1>5, <1>6, <1>7, <1>8, <1>9, <1>10, StepCases, Zenon

\* Every router has at most one neighbour.
OneNeighbor == \A k, l \in Link : k[1] = l[1] => k = l

\* A master that has not polled yet has no packet to wait for.
FreshCounters ==
  \A l \in Link :
    /\ nbr[l].st = EXSTART => nbr[l].ddNum = 0 /\ nbr[l].unAck = 0
    /\ nbr[l].st = EXCHANGE /\ ~nbr[l].isMaster /\ nbr[l].ddNum = 0 => nbr[l].unAck = 0

\* The numbers of the polls were given out, each to one poll.
PollNumbers ==
  /\ \A l \in Link : Polling(l) => nbr[l].unAck < currentId[l[1]]
  /\ \A k, l \in Link :
       Polling(k) /\ Polling(l) /\ k[1] = l[1] /\ nbr[k].unAck = nbr[l].unAck /\ nbr[l].unAck # 0 => k = l

\* A poll that no other neighbour's acknowledgement can unregister is registered.
SafePolls == \A l \in Link : Polling(l) /\ (nbr[l].unAck # 0 \/ OneNeighbor) => PollRegistered(l)

Polls == FreshCounters /\ PollNumbers /\ SafePolls

\* Only an acknowledgement makes a link poll, or changes its poll.
LEMMA PollSteps ==
  ASSUME Known, Polls, [Next]_vars, NEW l \in Link
  PROVE  /\ nbr'[l].st = EXSTART => nbr'[l].ddNum = 0 /\ nbr'[l].unAck = 0
         /\ nbr'[l].st = EXCHANGE /\ ~nbr'[l].isMaster /\ nbr'[l].ddNum = 0 => nbr'[l].unAck = 0
         /\ Polling(l)' =>
              \/ Polling(l) /\ nbr'[l].unAck = nbr[l].unAck /\ nbr'[l].ddNum = nbr[l].ddNum
              \/ \E h \in Current(l) : \E missing \in SUBSET Lsa : acceptAck(l, h, missing)
<1>1. IInv /\ Unborn
  BY DEF Known
<1>2. /\ nbr[l].st = EXSTART => nbr[l].ddNum = 0 /\ nbr[l].unAck = 0
      /\ nbr[l].st = EXCHANGE /\ ~nbr[l].isMaster /\ nbr[l].ddNum = 0 => nbr[l].unAck = 0
  BY DEF Polls, FreshCounters
<1>3. nbr[l].ddNum \in Nat /\ l[1] \in Local
  BY <1>1, NeighborFields, LinkType
<1>4. Polling(l)' <=> nbr'[l].st = EXCHANGE /\ ~nbr'[l].isMaster /\ nbr'[l].ddNum > 0
  BY DEF Polling
<1>5. CASE /\ nbr'[l].st = nbr[l].st /\ nbr'[l].isMaster = nbr[l].isMaster
           /\ nbr'[l].unAck = nbr[l].unAck /\ nbr'[l].ddNum = nbr[l].ddNum
  BY <1>2, <1>4, <1>5 DEF Polling
<1>6. CASE nbr'[l].st \in {NoNbr, INIT, LOADING, FULL}
  BY <1>4, <1>6 DEF NoNbr, INIT, EXSTART, EXCHANGE, LOADING, FULL
<1>7. CASE nbr'[l].st = EXSTART /\ nbr'[l].ddNum = 0 /\ nbr'[l].unAck = 0
  BY <1>4, <1>7 DEF EXSTART, EXCHANGE
<1>8. CASE nbr'[l].st = EXCHANGE /\ nbr'[l].isMaster
  BY <1>4, <1>8 DEF EXSTART, EXCHANGE
<1>9. CASE nbr'[l].st = EXCHANGE /\ nbr'[l].ddNum = 0 /\ nbr'[l].unAck = 0
  BY <1>4, <1>9 DEF EXSTART, EXCHANGE
<1>10. CASE nbr'[l] = nbr[l]
  BY <1>5, <1>10
<1>11. ASSUME NEW twoWay \in BOOLEAN, recvHello(l, twoWay)
       PROVE  \/ nbr'[l].st = EXSTART /\ nbr'[l].ddNum = 0 /\ nbr'[l].unAck = 0
              \/ nbr'[l].st \in {NoNbr, INIT, LOADING, FULL}
              \/ nbr'[l] = nbr[l]
  BY <1>1, <1>11, HelloEffect, Zenon
<1>12. ASSUME NEW h \in Current(l), wakeDD(l, h)
       PROVE  nbr'[l].st = EXSTART /\ nbr'[l].ddNum = 0 /\ nbr'[l].unAck = 0
  BY <1>1, <1>12, WakeEffect, Zenon
<1>13. ASSUME NEW h \in Current(l), negotiateAsSlave(l, h) \/ negotiateAsMaster(l, h)
       PROVE  \/ nbr'[l].st = EXCHANGE /\ nbr'[l].isMaster
              \/ nbr'[l].st = EXCHANGE /\ nbr'[l].ddNum = 0 /\ nbr'[l].unAck = 0
  BY <1>1, <1>2, <1>13, NegotiateEffect, Zenon
<1>14. ASSUME NEW h \in Current(l), ignoreDD(l, h) \/ discardDD(l, h)
       PROVE  /\ nbr'[l].st = nbr[l].st /\ nbr'[l].isMaster = nbr[l].isMaster
              /\ nbr'[l].unAck = nbr[l].unAck /\ nbr'[l].ddNum = nbr[l].ddNum
  BY <1>1, <1>14, NotedEffect, Zenon DEF SameCount
<1>15. ASSUME NEW h \in Current(l), NEW missing \in SUBSET Lsa, acceptAsSlave(l, h, missing)
       PROVE  \/ nbr'[l].st = EXCHANGE /\ nbr'[l].isMaster
              \/ nbr'[l].st \in {NoNbr, INIT, LOADING, FULL}
  BY <1>1, <1>15, SlaveEffect, Zenon DEF AcceptedDD, Ended
<1>16. ASSUME NEW h \in Current(l), NEW missing \in SUBSET Lsa, acceptLastAck(l, h, missing)
       PROVE  nbr'[l].st \in {NoNbr, INIT, LOADING, FULL}
  BY <1>1, <1>16, LastAckEffect, Zenon DEF Ended
<1>17. ASSUME NEW h \in Current(l), NEW missing \in SUBSET Lsa, acceptAck(l, h, missing)
       PROVE  nbr'[l].st = EXCHANGE /\ nbr'[l].ddNum # 0
  BY <1>1, <1>3, <1>17, AckEffect
<1>18. ASSUME NEW h \in Current(l), NEW missing \in SUBSET Lsa, acceptAck(l, h, missing)
       PROVE  /\ nbr'[l].st = EXSTART => nbr'[l].ddNum = 0 /\ nbr'[l].unAck = 0
              /\ nbr'[l].st = EXCHANGE /\ ~nbr'[l].isMaster /\ nbr'[l].ddNum = 0 => nbr'[l].unAck = 0
              /\ Polling(l)' =>
                  \/ Polling(l) /\ nbr'[l].unAck = nbr[l].unAck /\ nbr'[l].ddNum = nbr[l].ddNum
                  \/ \E g \in Current(l) : \E m \in SUBSET Lsa : acceptAck(l, g, m)
  <2>1. nbr'[l].st # EXSTART /\ nbr'[l].ddNum # 0
    BY <1>17, <1>18 DEF EXSTART, EXCHANGE
  <2>. QED
    BY <1>18, <2>1, Zenon
<1>19. ASSUME NEW x \in nbr[l].reqList, sendLSReq(l, x)
       PROVE  /\ nbr'[l].st = nbr[l].st /\ nbr'[l].isMaster = nbr[l].isMaster
              /\ nbr'[l].unAck = nbr[l].unAck /\ nbr'[l].ddNum = nbr[l].ddNum
  BY <1>1, <1>19, AskEffect, Zenon
<1>20. ASSUME l[1] \in Restarting, Restart(l[1]) PROVE nbr'[l].st \in {NoNbr, INIT, LOADING, FULL}
  BY <1>1, <1>20, RestartEffect, NeighborIsTyped
<1>. QED
  BY <1>5, <1>6, <1>7, <1>8, <1>9, <1>10, <1>11, <1>12, <1>13, <1>14, <1>15, <1>16, <1>18, <1>19, <1>20,
     LinkSteps, Zenon

\* Only an acknowledgement unregisters, and only its own poll or packet number 0.
LEMMA PollsStep == Known /\ Polls /\ [Next]_vars => Polls'
<1>. SUFFICES ASSUME Known, Polls, [Next]_vars PROVE Polls'
  OBVIOUS
<1>1. IInv /\ Unborn /\ \A l \in Link : l[1] \in Local /\ nbr[l].ddNum \in Nat /\ nbr[l].unAck \in Nat
  BY LinkType, NeighborFields DEF Known
<1>2. FreshCounters'
  BY PollSteps, Zenon DEF FreshCounters
<1>3. ASSUME NEW l \in Link, Polling(l)'
      PROVE  \/ Polling(l) /\ nbr'[l].unAck = nbr[l].unAck /\ nbr'[l].ddNum = nbr[l].ddNum
             \/ \E h \in Current(l) : \E missing \in SUBSET Lsa : acceptAck(l, h, missing)
  BY <1>3, PollSteps, Zenon
<1>4. ASSUME NEW l \in Link, NEW h \in Current(l), NEW missing \in SUBSET Lsa, acceptAck(l, h, missing)
      PROVE  /\ nbr'[l].ddNum = nbr[l].ddNum + 1 /\ nbr'[l].unAck = currentId[l[1]]
             /\ currentId'[l[1]] = currentId[l[1]] + 1 /\ currentId[l[1]] \in Nat
             /\ [id |-> currentId[l[1]], dd |-> NextPoll(l)] \in packetList'[l[1]]
             /\ nbr[l].st = EXCHANGE /\ ~nbr[l].isMaster /\ OnlyLink(l)
  <2>1. /\ packetList' = [packetList EXCEPT ![l[1]] =
                            Unregistered(l) \cup {[id |-> currentId[l[1]], dd |-> NextPoll(l)]}]
        /\ currentId' = [currentId EXCEPT ![l[1]] = currentId[l[1]] + 1]
        /\ nbr'[l].ddNum = nbr[l].ddNum + 1 /\ nbr'[l].unAck = currentId[l[1]]
        /\ ~nbr[l].isMaster /\ AcceptedDD(l, h, missing)
    BY <1>1, <1>4, AckEffect, Zenon
  <2>2. currentId \in [Local -> Nat] /\ DOMAIN packetList = Local
    BY <1>1 DEF IInv, TypeOK
  <2>. QED
    BY <1>1, <2>1, <2>2 DEF AcceptedDD, Accepts
<1>5. ASSUME NEW l \in Link, ~(l[1] \in Restarting /\ Restart(l[1]))
      PROVE  currentId[l[1]] \in Nat /\ currentId'[l[1]] >= currentId[l[1]]
  <2>1. currentId[l[1]] \in Nat
    BY <1>1 DEF IInv, TypeOK
  <2>2. currentId'[l[1]] = currentId[l[1]] \/ currentId'[l[1]] = currentId[l[1]] + 1
    BY <1>1, <1>5, OldScheduled, Zenon
  <2>. QED
    BY <2>1, <2>2
<1>6. ASSUME NEW l \in Link, l[1] \in Restarting, Restart(l[1]) PROVE ~Polling(l)'
  <2>1. nbr'[l].st = NoNbr
    BY <1>1, <1>6, RestartEffect, NeighborIsTyped
  <2>. QED
    BY <2>1 DEF Polling, NoNbr, EXCHANGE
<1>7. ASSUME NEW l \in Link, Polling(l)' PROVE nbr'[l].unAck < currentId'[l[1]]
  <2>1. CASE Polling(l) /\ nbr'[l].unAck = nbr[l].unAck
    <3>1. nbr[l].unAck < currentId[l[1]]
      BY <2>1, Zenon DEF Polls, PollNumbers
    <3>2. ~(l[1] \in Restarting /\ Restart(l[1]))
      BY <1>6, <1>7
    <3>3. currentId[l[1]] \in Nat /\ currentId'[l[1]] >= currentId[l[1]] /\ currentId'[l[1]] \in Nat
      <4>1. currentId' \in [Local -> Nat]
        BY NextIInv DEF Known, IInv, TypeOK
      <4>. QED
        BY <1>1, <1>5, <3>2, <4>1
    <3>4. nbr[l].unAck \in Nat
      BY <1>1
    <3>. QED
      BY <2>1, <3>1, <3>3, <3>4
  <2>2. CASE \E h \in Current(l) : \E missing \in SUBSET Lsa : acceptAck(l, h, missing)
    <3>1. /\ nbr'[l].unAck = currentId[l[1]] /\ currentId'[l[1]] = currentId[l[1]] + 1
          /\ currentId[l[1]] \in Nat
      BY <1>4, <2>2, Zenon
    <3>. QED
      BY <3>1
  <2>. QED
    BY <1>3, <1>7, <2>1, <2>2
<1>8. ASSUME NEW k \in Link, NEW l \in Link, Polling(k)', Polling(l)', k[1] = l[1], k # l,
             nbr'[k].unAck = nbr'[l].unAck, nbr'[l].unAck # 0
      PROVE  FALSE
  <2>1. ASSUME NEW j \in Link, NEW i \in Link, i # j, i[1] = j[1], Polling(i)',
               NEW h \in Current(j), NEW missing \in SUBSET Lsa, acceptAck(j, h, missing)
        PROVE  nbr'[j].unAck # nbr'[i].unAck
    <3>1. nbr'[j].unAck = currentId[j[1]] /\ OnlyLink(j)
      BY <1>4, <2>1, Zenon
    <3>2. nbr'[i] = nbr[i]
      BY <2>1, <3>1 DEF OnlyLink
    <3>3. Polling(i)
      BY <2>1, <3>2 DEF Polling
    <3>4. nbr[i].unAck < currentId[i[1]] /\ currentId[i[1]] \in Nat
      BY <1>1, <3>3 DEF Polls, PollNumbers, IInv, TypeOK
    <3>. QED
      BY <1>1, <2>1, <3>1, <3>2, <3>4
  <2>2. CASE Polling(k) /\ nbr'[k].unAck = nbr[k].unAck /\ Polling(l) /\ nbr'[l].unAck = nbr[l].unAck
    BY <1>8, <2>2 DEF Polls, PollNumbers
  <2>. QED
    BY <1>3, <1>8, <2>1, <2>2
<1>9. ASSUME NEW l \in Link, Polling(l)', nbr'[l].unAck # 0 \/ OneNeighbor PROVE PollRegistered(l)'
  <2>1. ASSUME NEW q, q \in packetList'[l[1]], q.dd.to = l[2], q.id = nbr'[l].unAck, q.dd.seq = nbr'[l].ddNum
        PROVE  PollRegistered(l)'
    BY <2>1 DEF PollRegistered, Scheduled
  <2>2. CASE \E h \in Current(l) : \E missing \in SUBSET Lsa : acceptAck(l, h, missing)
    <3>1. PICK q : q = [id |-> currentId[l[1]], dd |-> NextPoll(l)]
      OBVIOUS
    <3>2. /\ nbr'[l].ddNum = nbr[l].ddNum + 1 /\ nbr'[l].unAck = currentId[l[1]]
          /\ q \in packetList'[l[1]]
      BY <1>4, <2>2, <3>1, Zenon
    <3>3. q.id = currentId[l[1]] /\ q.dd.to = l[2] /\ q.dd.seq = nbr[l].ddNum + 1
      BY <3>1 DEF NextPoll, DD
    <3>. QED
      BY <2>1, <3>2, <3>3
  <2>3. CASE Polling(l) /\ nbr'[l].unAck = nbr[l].unAck /\ nbr'[l].ddNum = nbr[l].ddNum
    <3>1. PollRegistered(l)
      BY <1>9, <2>3, Zenon DEF Polls, SafePolls
    <3>2. PICK q \in packetList[l[1]] : q.dd.to = l[2] /\ q.id = nbr[l].unAck /\ q.dd.seq = nbr[l].ddNum
      BY <3>1 DEF PollRegistered, Scheduled
    <3>3. CASE packetList'[l[1]] = packetList[l[1]]
      BY <2>1, <2>3, <3>2, <3>3
    <3>4. ASSUME NEW k \in Link, k[1] = l[1], NEW h \in Current(k), NEW missing \in SUBSET Lsa,
                 acceptLastAck(k, h, missing) \/ acceptAck(k, h, missing),
                 Unregistered(k) \subseteq packetList'[l[1]]
          PROVE  PollRegistered(l)'
      <4>1. CASE k = l
        <5>1. CASE acceptAck(k, h, missing)
          BY <2>2, <4>1, <5>1, Zenon
        <5>2. CASE acceptLastAck(k, h, missing)
          <6>1. Ended(l)
            BY <1>1, <4>1, <5>2, LastAckEffect, Zenon
          <6>. QED
            BY <1>9, <6>1 DEF Ended, Polling, EXCHANGE, LOADING, FULL
        <5>. QED
          BY <3>4, <5>1, <5>2
      <4>2. CASE k # l
        <5>1. nbr[l].unAck # 0 /\ nbr[k].st = EXCHANGE /\ ~nbr[k].isMaster
          <6>1. ~OneNeighbor
            BY <3>4, <4>2, Zenon DEF OneNeighbor
          <6>2. AcceptedDD(k, h, missing) /\ ~nbr[k].isMaster
            BY <1>1, <3>4, LastAckEffect, AckEffect, Zenon
          <6>. QED
            BY <1>9, <2>3, <6>1, <6>2, Zenon DEF AcceptedDD, Accepts
        <5>2. nbr[k].unAck # nbr[l].unAck
          <6>1. CASE nbr[k].ddNum = 0
            BY <5>1, <6>1 DEF Polls, FreshCounters
          <6>2. CASE nbr[k].ddNum # 0
            <7>1. Polling(k)
              BY <1>1, <5>1, <6>2 DEF Polling
            <7>. QED
              BY <2>3, <3>4, <4>2, <5>1, <7>1, Zenon DEF Polls, PollNumbers
          <6>. QED
            BY <6>1, <6>2
        <5>3. q \in Unregistered(k)
          BY <3>2, <3>4, <5>2 DEF Unregistered
        <5>. QED
          BY <2>1, <2>3, <3>2, <3>4, <5>3
      <4>. QED
        BY <4>1, <4>2
    <3>5. CASE l[1] \in Restarting /\ Restart(l[1])
      BY <1>6, <1>9, <3>5
    <3>6. \/ packetList'[l[1]] = packetList[l[1]]
          \/ l[1] \in Restarting /\ Restart(l[1])
          \/ \E k \in Link : \E h \in Current(k) : \E missing \in SUBSET Lsa :
               /\ k[1] = l[1]
               /\ acceptLastAck(k, h, missing) \/ acceptAck(k, h, missing)
               /\ Unregistered(k) \subseteq packetList'[l[1]]
      <4>1. ASSUME NEW k \in Link, NEW q2, \/ packetList'[l[1]] = Unregistered(k)
                                           \/ packetList'[l[1]] = Unregistered(k) \cup {q2}
            PROVE  Unregistered(k) \subseteq packetList'[l[1]]
        BY <4>1
      <4>2. PICK r \in Local : r = l[1]
        BY <1>1
      <4>3. \/ UNCHANGED <<packetList[r], currentId[r]>>
            \/ r \in Restarting /\ Restart(r)
            \/ \E k \in Link : \E h \in Current(k) : \E missing \in SUBSET Lsa :
                 /\ k[1] = r
                 /\ \/ acceptLastAck(k, h, missing) /\ packetList'[r] = Unregistered(k) /\ currentId'[r] = currentId[r]
                    \/ /\ acceptAck(k, h, missing) /\ currentId'[r] = currentId[r] + 1
                       /\ packetList'[r] = Unregistered(k) \cup {[id |-> currentId[r], dd |-> NextPoll(k)]}
        BY OldScheduled
      <4>4. CASE UNCHANGED <<packetList[r], currentId[r]>>
        BY <4>2, <4>4
      <4>5. CASE r \in Restarting /\ Restart(r)
        BY <4>2, <4>5
      <4>6. ASSUME NEW k \in Link, NEW h \in Current(k), NEW missing \in SUBSET Lsa, k[1] = r,
                   \/ acceptLastAck(k, h, missing) /\ packetList'[r] = Unregistered(k)
                   \/ /\ acceptAck(k, h, missing)
                      /\ packetList'[r] = Unregistered(k) \cup {[id |-> currentId[r], dd |-> NextPoll(k)]}
            PROVE  \E k2 \in Link : \E h2 \in Current(k2) : \E missing2 \in SUBSET Lsa :
                     /\ k2[1] = l[1]
                     /\ acceptLastAck(k2, h2, missing2) \/ acceptAck(k2, h2, missing2)
                     /\ Unregistered(k2) \subseteq packetList'[l[1]]
        <5>1. Unregistered(k) \subseteq packetList'[l[1]] /\ k[1] = l[1]
          BY <4>1, <4>2, <4>6
        <5>. QED
          BY <4>6, <5>1, Zenon
      <4>. QED
        BY <4>3, <4>4, <4>5, <4>6, Zenon
    <3>. QED
      BY <3>3, <3>4, <3>5, <3>6, Zenon
  <2>. QED
    BY <1>3, <1>9, <2>2, <2>3
<1>10. PollNumbers'
  BY <1>7, <1>8 DEF PollNumbers
<1>11. SafePolls'
  BY <1>9 DEF SafePolls
<1>. QED
  BY <1>2, <1>10, <1>11 DEF Polls

\* It holds of every state.
LEMMA PollsAlways == Spec => []Polls
<1>1. Init => Polls
  <2>. SUFFICES ASSUME Init PROVE Polls
    OBVIOUS
  <2>1. ASSUME NEW l \in Link PROVE nbr[l].st # EXSTART /\ nbr[l].st # EXCHANGE /\ ~Polling(l)
    <3>1. nbr[l].st = NoNbr
      BY NeighborIsTyped DEF Init
    <3>. QED
      BY <3>1 DEF Polling, NoNbr, EXSTART, EXCHANGE
  <2>. QED
    BY <2>1, Zenon DEF Polls, FreshCounters, PollNumbers, SafePolls
<1>. QED
  BY <1>1, KnownAlways, PollsStep, PTL DEF Spec

\* A master's poll is registered until it is acknowledged, whatever its other
\* neighbours do, unless it is packet number 0 (PacketManager.cpp:360, 389-390).
THEOREM LaterPollsStay == Spec => []LaterPollScheduled
<1>1. Polls => LaterPollScheduled
  BY DEF Polls, SafePolls, LaterPollScheduled
<1>. QED
  BY <1>1, PollsAlways, PTL

\* Routers that have one neighbour each have every poll registered until it is
\* acknowledged (PacketManager.cpp:360, 389-390).
THEOREM PollsStay == ASSUME OneNeighbor PROVE Spec => []PollScheduled
<1>1. Polls => PollScheduled
  BY DEF Polls, SafePolls, PollScheduled
<1>. QED
  BY <1>1, PollsAlways, PTL

-----------------------------------------------------------------------------
(* Every LSA that is asked for is there, but for lsaGenerate. *)

\* The LSAs of a router, its own included while lsaGenerate replaces it.
Held(r) == Elems(lsdb[r]) \cup {x \in {Own[r]} : generating[r]}

\* What a DD of a local router describes, before a step and after it.
Describes(p) == \A r \in Local : p.from = r => p.hdrs \subseteq Held(r)
DescribesNext(p) == \A r \in Local : p.from = r => p.hdrs \subseteq Held(r)'

\* Headers and requests speak of LSAs that their router has.
Describable ==
  /\ \A l \in Link : /\ Elems(nbr[l].summary) \subseteq Held(l[1])
                     /\ nbr[l].lastDD.hdrs \subseteq Held(l[1]) /\ hist[l].told \subseteq Held(l[1])
                     /\ l[2] \in Local => nbr[l].reqList \subseteq Held(l[2])
  /\ \A r \in Local : \A q \in packetList[r] : q.dd.hdrs \subseteq Held(r)
  /\ \A r \in Local : handling[r] # NoPacket => Describes(handling[r].dd)
  /\ \A p \in net : /\ p.type = "dd" => Describes(p)
                    /\ p.type = "lsreq" => p.to \in Local /\ p.lsa \in Held(p.to)

\* Packets go from one router to another, and only local ones are in net.
Addressed ==
  /\ \A l \in Link : nbr[l].lastDD.from = l[1] /\ nbr[l].lastDD.to = l[2]
  /\ \A r \in Local : \A q \in packetList[r] : \E l \in Link : l[1] = r /\ q.dd.from = l[1] /\ q.dd.to = l[2]
  /\ \A p \in net : p.from \in Local /\ p.to \in Local /\ p.from # p.to

\* The packets this code builds say where they come from and go to.
LEMMA BuiltAddressed ==
  ASSUME NEW l \in Link, NEW h, NEW e, NEW x
  PROVE  \A p \in {EmptyDD(l), ReplyTo(l, h), NextPoll(l), Bare(l, e), LSReq(l, x), LSUpdate(l, x)} :
           p.from = l[1] /\ p.to = l[2] /\ l[1] \in Local /\ l[1] # l[2]
<1>1. l[1] \in Local /\ l[1] # l[2]
  BY LinkType DEF Link
<1>. QED
  BY <1>1 DEF EmptyDD, ReplyTo, NextPoll, Bare, LSReq, LSUpdate, DD

\* Every step keeps the addresses.
LEMMA AddressedStep == Known /\ Addressed /\ [Next]_vars => Addressed'
<1>. SUFFICES ASSUME Known, Addressed, [Next]_vars PROVE Addressed'
  OBVIOUS
<1>1. \A l \in Link : l[1] \in Local /\ l[1] # l[2]
  BY LinkType DEF Link
<1>2. ASSUME NEW l \in Link PROVE nbr'[l].lastDD.from = l[1] /\ nbr'[l].lastDD.to = l[2]
  <2>1. ASSUME NEW h, nbr'[l].lastDD = EmptyDD(l) \/ nbr'[l].lastDD = ReplyTo(l, h)
        PROVE  nbr'[l].lastDD.from = l[1] /\ nbr'[l].lastDD.to = l[2]
    BY <2>1, BuiltAddressed
  <2>2. CASE nbr'[l].lastDD = nbr[l].lastDD
    BY <2>2 DEF Addressed
  <2>. QED
    BY <2>1, <2>2, NewLastDD, Zenon
<1>3. ASSUME NEW r \in Local, NEW q \in packetList'[r]
      PROVE  \E l \in Link : l[1] = r /\ q.dd.from = l[1] /\ q.dd.to = l[2]
  <2>1. CASE q \in packetList[r]
    BY <2>1 DEF Addressed
  <2>2. ASSUME NEW l \in Link, l[1] = r, q = [id |-> currentId[r], dd |-> NextPoll(l)]
        PROVE  l[1] = r /\ q.dd.from = l[1] /\ q.dd.to = l[2]
    BY <2>2, BuiltAddressed
  <2>. QED
    BY <2>1, <2>2, NewScheduled, Zenon
<1>4. ASSUME NEW p \in net' PROVE p.from \in Local /\ p.to \in Local /\ p.from # p.to
  <2>1. CASE p \in net
    BY <2>1 DEF Addressed
  <2>2. CASE p \notin net
    <3>1. p.to \in Local /\ Fresh(p)
      BY <2>2, NewPackets
    <3>2. ASSUME NEW l \in Link, p.from = l[1], p.to = l[2] PROVE p.from \in Local /\ p.from # p.to
      BY <1>1, <3>2
    <3>3. ASSUME NEW l \in Link, NEW h \in Current(l), p \in Replay(l, h) PROVE p.from = l[1] /\ p.to = l[2]
      BY <3>3 DEF Replay, Addressed
    <3>4. ASSUME NEW l \in Link, NEW h, NEW e, NEW x,
                 p = ReplyTo(l, h) \/ p = Bare(l, e) \/ p = LSReq(l, x) \/ p = LSUpdate(l, x)
          PROVE  p.from = l[1] /\ p.to = l[2]
      BY <3>4, BuiltAddressed
    <3>5. ASSUME NEW r \in Local, NEW q \in packetList[r], p = q.dd
          PROVE  \E l \in Link : p.from = l[1] /\ p.to = l[2]
      BY <3>5 DEF Addressed
    <3>6. \E l \in Link : p.from = l[1] /\ p.to = l[2]
      BY <3>1, <3>3, <3>4, <3>5, Zenon DEF Fresh
    <3>. QED
      BY <3>1, <3>2, <3>6
  <2>. QED
    BY <2>1, <2>2
<1>. QED
  BY <1>2, <1>3, <1>4 DEF Addressed

\* It holds of every state.
LEMMA AddressedAlways == Spec => []Addressed
<1>1. Init => Addressed
  <2>. SUFFICES ASSUME Init PROVE Addressed
    OBVIOUS
  <2>1. ASSUME NEW l \in Link PROVE nbr[l].lastDD.from = l[1] /\ nbr[l].lastDD.to = l[2]
    <3>1. nbr[l].lastDD = EmptyDD(l)
      BY DEF Init, NoNeighbor, Neighbor
    <3>. QED
      BY <3>1, BuiltAddressed
  <2>. QED
    BY <2>1 DEF Init, Addressed
<1>. QED
  BY <1>1, KnownAlways, AddressedStep, PTL DEF Spec

\* The headers a Neighbor object takes in.
TakesIn(k) ==
  /\ Elems(nbr'[k].summary) \subseteq Elems(nbr[k].summary) \cup Elems(lsdb[k[1]])
  /\ hist'[k].told \subseteq hist[k].told \cup Elems(nbr[k].summary)
  /\ \/ nbr'[k].reqList \subseteq nbr[k].reqList
     \/ \E h \in Current(k) : nbr'[k].reqList \subseteq nbr[k].reqList \cup h.dd.hdrs

\* They come from its summary list, its database or the packet.
LEMMA NewHeaders == ASSUME Known, [Next]_vars, NEW k \in Link PROVE TakesIn(k)
<1>1. /\ IInv /\ Unborn /\ nbr[k].summary \in Seq(Lsa) /\ lsdb[k[1]] \in Seq(Lsa)
  BY NeighborFields, LinkType DEF Known, IInv, TypeOK
<1>2. ASSUME nbr'[k].summary = nbr[k].summary, hist'[k].told = hist[k].told,
             nbr'[k].reqList = nbr[k].reqList
      PROVE  TakesIn(k)
  BY <1>2 DEF TakesIn
<1>3. CASE nbr'[k] = nbr[k] /\ (hist'[k] = hist[k] \/ SenderThread(k))
  <2>1. hist'[k].told = hist[k].told
    BY <1>1, <1>3, SenderEffect, Zenon
  <2>. QED
    BY <1>2, <1>3, <2>1
<1>4. ASSUME NEW twoWay \in BOOLEAN, recvHello(k, twoWay) PROVE TakesIn(k)
  BY <1>1, <1>2, <1>4, HelloEffect, Zenon DEF SameHeaders
<1>5. ASSUME NEW h \in Current(k), wakeDD(k, h) PROVE TakesIn(k)
  BY <1>1, <1>2, <1>5, WakeEffect, Zenon DEF SameHeaders
<1>6. ASSUME NEW h \in Current(k), negotiateAsSlave(k, h) \/ negotiateAsMaster(k, h) PROVE TakesIn(k)
  <2>1. nbr'[k].summary = nbr[k].summary \o lsdb[k[1]] /\ UNCHANGED hist /\ nbr'[k].reqList = nbr[k].reqList
    BY <1>1, <1>6, NegotiateEffect, Zenon
  <2>. QED
    BY <1>1, <2>1, ElemsConcat DEF TakesIn
<1>7. ASSUME NEW h \in Current(k), ignoreDD(k, h) \/ discardDD(k, h) PROVE TakesIn(k)
  BY <1>1, <1>2, <1>7, NotedEffect, Zenon DEF SameHeaders, SameCount
<1>8. ASSUME NEW h \in Current(k), NEW missing \in SUBSET Lsa, missing \in Missing(k[1], h.dd.hdrs),
             acceptAsSlave(k, h, missing) \/ acceptLastAck(k, h, missing) \/ acceptAck(k, h, missing)
      PROVE  TakesIn(k)
  <2>1. AcceptedDD(k, h, missing)
    BY <1>1, <1>8, SlaveEffect, LastAckEffect, AckEffect, Zenon
  <2>2. nbr'[k].reqList = nbr[k].reqList \cup missing
    BY <2>1, Zenon DEF AcceptedDD
  <2>3. missing \subseteq h.dd.hdrs
    BY <1>8 DEF Missing
  <2>4. \/ nbr'[k].summary = nbr[k].summary /\ hist'[k].told = hist[k].told
        \/ nbr'[k].summary = Rest(nbr[k].summary) /\ hist'[k].told = hist[k].told \cup First(nbr[k].summary)
    BY <1>1, <1>8, SlaveEffect, LastAckEffect, AckEffect, Zenon
  <2>5. /\ Elems(nbr'[k].summary) \subseteq Elems(nbr[k].summary)
        /\ hist'[k].told \subseteq hist[k].told \cup Elems(nbr[k].summary)
    BY <1>1, <2>4, ElemsRest
  <2>. QED
    BY <2>2, <2>3, <2>5 DEF TakesIn
<1>9. ASSUME NEW x \in nbr[k].reqList, sendLSReq(k, x) PROVE TakesIn(k)
  <2>1. /\ nbr'[k].summary = nbr[k].summary /\ hist'[k].told = hist[k].told
        /\ nbr'[k].reqList = nbr[k].reqList \ {x}
    BY <1>1, <1>9, AskEffect, Zenon
  <2>. QED
    BY <2>1 DEF TakesIn
<1>10. ASSUME k[1] \in Restarting, Restart(k[1]) PROVE TakesIn(k)
  <2>1. nbr'[k] = NoNeighbor(k) /\ hist'[k] = NoHistory
    BY <1>1, <1>10, RestartEffect
  <2>2. nbr'[k].summary = << >> /\ hist'[k].told = {} /\ nbr'[k].reqList = {}
    BY <2>1 DEF NoNeighbor, Neighbor, NoHistory
  <2>. QED
    BY <2>2 DEF TakesIn, Elems
<1>. QED
  BY <1>3, <1>4, <1>5, <1>6, <1>7, <1>8, <1>9, <1>10, LinkSteps, Zenon

\* What may change a database.
LEMMA DatabaseSteps ==
  ASSUME Known, [Next]_vars
  PROVE  \/ UNCHANGED <<lsdb, generating>>
         \/ \E l \in Link : \E x \in Updates(l) : recvLSUpdate(l, x)
         \/ \E r \in Local : lsaGenerateRemove(r) \/ lsaGenerateInsert(r)
         \/ \E r \in Restarting : Restart(r)
<1>1. IInv /\ Unborn
  BY DEF Known
<1>2. ASSUME NEW l \in Link, NEW twoWay \in BOOLEAN, recvHello(l, twoWay) PROVE UNCHANGED <<lsdb, generating>>
  BY <1>1, <1>2, HelloEffect, Zenon
<1>3. ASSUME NEW l \in Link, NEW h \in Current(l),
             \/ wakeDD(l, h) \/ negotiateAsSlave(l, h) \/ negotiateAsMaster(l, h)
             \/ ignoreDD(l, h) \/ discardDD(l, h)
      PROVE  UNCHANGED <<lsdb, generating>>
  BY <1>1, <1>3, WakeEffect, NegotiateEffect, NotedEffect, Zenon
<1>4. ASSUME NEW l \in Link, NEW h \in Current(l), AcceptStep(l, h) PROVE UNCHANGED <<lsdb, generating>>
  <2>1. PICK missing \in SUBSET Lsa :
          acceptAsSlave(l, h, missing) \/ acceptLastAck(l, h, missing) \/ acceptAck(l, h, missing)
    BY <1>1, <1>4, AcceptTyped, Zenon
  <2>. QED
    BY <1>1, <2>1, SlaveEffect, LastAckEffect, AckEffect, Zenon DEF AcceptedDD
<1>5. ASSUME NEW l \in Link, SenderThread(l) PROVE UNCHANGED <<lsdb, generating>>
  BY <1>1, <1>5, SenderEffect, Zenon
<1>6. ASSUME NEW l \in Link, NEW x \in nbr[l].reqList, sendLSReq(l, x) PROVE UNCHANGED <<lsdb, generating>>
  BY <1>1, <1>6, AskEffect, Zenon
<1>7. CASE OtherStep
  BY <1>7, OtherEffect
<1>. QED
  BY <1>2, <1>3, <1>4, <1>5, <1>6, <1>7, StepCases, Zenon

\* Nothing is taken from a database for good, except in a restart of its router.
LEMMA HeldStays ==
  ASSUME Known, [Next]_vars, NEW r \in Local, ~(r \in Restarting /\ Restart(r))
  PROVE  Held(r) \subseteq Held(r)'
<1>1. IInv /\ Unborn /\ \A l \in Link : l[1] \in Local
  BY LinkType DEF Known
<1>2. ASSUME lsdb'[r] = lsdb[r], generating'[r] = generating[r] PROVE Held(r) \subseteq Held(r)'
  BY <1>2 DEF Held
<1>3. CASE UNCHANGED <<lsdb, generating>>
  BY <1>2, <1>3
<1>4. ASSUME NEW l \in Link, NEW x \in Updates(l), recvLSUpdate(l, x) PROVE Held(r) \subseteq Held(r)'
  <2>1. /\ UNCHANGED generating /\ Elems(lsdb[l[1]]) \subseteq Elems(lsdb'[l[1]])
        /\ \A k \in Local : k # l[1] => lsdb'[k] = lsdb[k]
    BY <1>1, <1>4, UpdateEffect, Zenon
  <2>. QED
    BY <2>1 DEF Held
<1>5. ASSUME NEW k \in Local, lsaGenerateRemove(k) \/ lsaGenerateInsert(k) PROVE Held(r) \subseteq Held(r)'
  <2>1. /\ \A j \in Local : j # k => lsdb'[j] = lsdb[j] /\ generating'[j] = generating[j]
        /\ \/ /\ generating'[k] /\ Elems(lsdb[k]) \ {Own[k]} \subseteq Elems(lsdb'[k]) /\ ~generating[k]
           \/ ~generating'[k] /\ Elems(lsdb'[k]) = Elems(lsdb[k]) \cup {Own[k]}
    BY <1>1, <1>5, GenerateEffect, Zenon
  <2>2. CASE r # k
    BY <1>2, <2>1, <2>2
  <2>3. CASE r = k
    BY <2>1, <2>3 DEF Held
  <2>. QED
    BY <2>2, <2>3
<1>6. ASSUME NEW k \in Restarting, Restart(k) PROVE Held(r) \subseteq Held(r)'
  <2>1. k # r /\ k \in Local
    BY <1>6, DbAssumption
  <2>2. lsdb' = [lsdb EXCEPT ![k] = << >>] /\ generating' = [generating EXCEPT ![k] = FALSE]
    BY <1>1, <1>6, RestartEffect, Zenon
  <2>. QED
    BY <1>1, <1>2, <2>1, <2>2 DEF IInv, TypeOK
<1>. QED
  BY <1>3, <1>4, <1>5, <1>6, DatabaseSteps, Zenon

\* The headers of a packet that is handled.
LEMMA CurrentDescribes ==
  ASSUME Known, Describable, NEW l \in Link, NEW h \in Current(l)
  PROVE  Describes(h.dd) /\ h.dd.from = l[2]
<1>1. l[1] \in Local
  BY LinkType
<1>2. CASE handling[l[1]] # NoPacket
  <2>1. h = handling[l[1]] /\ h.dd.from = l[2]
    BY <1>2 DEF Current
  <2>. QED
    BY <1>1, <1>2, <2>1 DEF Describable
<1>3. CASE handling[l[1]] = NoPacket
  <2>1. PICK p \in ArrivingDD(l[1]) : h = Arrived(l, p) /\ p.from = l[2]
    BY <1>3 DEF Current
  <2>2. h.dd = p
    BY <2>1 DEF Arrived
  <2>3. CASE p \in Incoming(l[1], "dd")
    BY <2>1, <2>2, <2>3 DEF Incoming, Describable
  <2>4. CASE p \in ForeignDD(l[1])
    BY <2>1, <2>2, <2>4, RouterAssumption DEF ForeignDD, Describes
  <2>. QED
    BY <2>1, <2>3, <2>4 DEF ArrivingDD
<1>. QED
  BY <1>2, <1>3

\* Without a restart every step keeps it.
LEMMA DescribableRuns ==
  ASSUME Known, Addressed, Describable, [Next]_vars, ~ \E k \in Restarting : Restart(k)
  PROVE  Describable'
<1>1. /\ IInv /\ Unborn
      /\ \A l \in Link : l[1] \in Local /\ nbr[l].summary \in Seq(Lsa)
      /\ \A r \in Local : Held(r) \subseteq Held(r)' /\ Elems(lsdb[r]) \subseteq Held(r)
  BY LinkType, NeighborFields, HeldStays DEF Known, Held
<1>2. \A p : Describes(p) => DescribesNext(p)
  BY <1>1 DEF Describes, DescribesNext
<1>3. ASSUME NEW l \in Link
      PROVE  /\ Elems(nbr'[l].summary) \subseteq Held(l[1])' /\ hist'[l].told \subseteq Held(l[1])'
             /\ l[2] \in Local => nbr'[l].reqList \subseteq Held(l[2])'
             /\ Elems(nbr[l].summary) \subseteq Held(l[1])
  <2>1. TakesIn(l)
    BY NewHeaders
  <2>2. /\ Elems(nbr[l].summary) \subseteq Held(l[1]) /\ hist[l].told \subseteq Held(l[1])
        /\ l[2] \in Local => nbr[l].reqList \subseteq Held(l[2])
    BY DEF Describable
  <2>3. Elems(nbr'[l].summary) \subseteq Held(l[1])' /\ hist'[l].told \subseteq Held(l[1])'
    BY <1>1, <2>1, <2>2 DEF TakesIn
  <2>4. ASSUME l[2] \in Local, NEW h \in Current(l) PROVE h.dd.hdrs \subseteq Held(l[2])
    BY <2>4, CurrentDescribes DEF Describes
  <2>. QED
    BY <1>1, <2>1, <2>2, <2>3, <2>4 DEF TakesIn
<1>4. ASSUME NEW l \in Link, NEW h, NEW e
      PROVE  /\ DescribesNext(EmptyDD(l)) /\ DescribesNext(ReplyTo(l, h)) /\ DescribesNext(NextPoll(l))
             /\ DescribesNext(Bare(l, e))
             /\ EmptyDD(l).hdrs \subseteq Held(l[1])' /\ ReplyTo(l, h).hdrs \subseteq Held(l[1])'
             /\ NextPoll(l).hdrs \subseteq Held(l[1])'
  <2>1. First(nbr[l].summary) \subseteq Held(l[1])'
    BY <1>1, <1>3, ElemsRest
  <2>2. /\ EmptyDD(l).hdrs = {} /\ ReplyTo(l, h).hdrs = First(nbr[l].summary)
        /\ NextPoll(l).hdrs = First(nbr[l].summary) /\ Bare(l, e).hdrs = {}
    BY DEF EmptyDD, ReplyTo, NextPoll, Bare, DD
  <2>3. /\ EmptyDD(l).from = l[1] /\ ReplyTo(l, h).from = l[1]
        /\ NextPoll(l).from = l[1] /\ Bare(l, e).from = l[1]
    BY BuiltAddressed
  <2>4. \A p : p.from = l[1] /\ p.hdrs \subseteq Held(l[1])' => DescribesNext(p)
    BY DEF DescribesNext
  <2>. QED
    BY <2>1, <2>2, <2>3, <2>4
<1>5. ASSUME NEW l \in Link PROVE nbr'[l].lastDD.hdrs \subseteq Held(l[1])'
  <2>1. nbr[l].lastDD.hdrs \subseteq Held(l[1])'
    BY <1>1 DEF Describable
  <2>. QED
    BY <1>4, <2>1, NewLastDD, Zenon
<1>6. ASSUME NEW r \in Local, NEW q \in packetList'[r] PROVE q.dd.hdrs \subseteq Held(r)'
  <2>1. CASE q \in packetList[r]
    BY <1>1, <2>1 DEF Describable
  <2>2. ASSUME NEW l \in Link, l[1] = r, q = [id |-> currentId[r], dd |-> NextPoll(l)]
        PROVE  q.dd.hdrs \subseteq Held(r)'
    <3>1. q.dd = NextPoll(l)
      BY <2>2
    <3>. QED
      BY <1>4, <2>2, <3>1
  <2>. QED
    BY <2>1, <2>2, NewScheduled, Zenon
<1>7. ASSUME NEW r \in Local, handling'[r] # NoPacket PROVE DescribesNext(handling'[r].dd)
  <2>1. ASSUME NEW l \in Link, NEW h \in Current(l), handling'[r] = [h EXCEPT !.seq = @ + 1] \/ handling'[r] = h
        PROVE  DescribesNext(handling'[r].dd)
    <3>1. h \in Handled
      BY <1>1, CurrentType DEF IInv
    <3>2. handling'[r].dd = h.dd
      BY <2>1, <3>1 DEF Handled
    <3>3. Describes(h.dd)
      BY CurrentDescribes
    <3>. QED
      BY <1>2, <3>2, <3>3
  <2>2. CASE handling'[r] = handling[r]
    BY <1>2, <1>7, <2>2 DEF Describable
  <2>. QED
    BY <1>7, <2>1, <2>2, NewHandled, Zenon
<1>8. ASSUME NEW p \in net' PROVE /\ p.type = "dd" => DescribesNext(p)
                                  /\ p.type = "lsreq" => p.to \in Local /\ p.lsa \in Held(p.to)'
  <2>1. CASE p \in net
    BY <1>1, <1>2, <2>1 DEF Describable
  <2>2. CASE p \notin net
    <3>1. p.to \in Local /\ Fresh(p)
      BY <2>2, NewPackets
    <3>2. ASSUME p.type = "dd" PROVE DescribesNext(p)
      <4>1. ASSUME NEW l, NEW x, p = LSReq(l, x) \/ p = LSUpdate(l, x) PROVE FALSE
        BY <3>2, <4>1 DEF LSReq, LSUpdate
      <4>2. ASSUME NEW l \in Link, NEW h \in Current(l), p \in Replay(l, h) PROVE DescribesNext(p)
        <5>1. p.from = l[1] /\ p.hdrs \subseteq Held(l[1])
          BY <4>2 DEF Replay, Addressed, Describable
        <5>. QED
          BY <1>1, <5>1 DEF DescribesNext
      <4>3. ASSUME NEW r \in Local, NEW q \in packetList[r], p = q.dd PROVE DescribesNext(p)
        <5>1. p.from = r /\ p.hdrs \subseteq Held(r)
          BY <4>3 DEF Addressed, Describable
        <5>. QED
          BY <1>1, <5>1 DEF DescribesNext
      <4>. QED
        BY <1>4, <3>1, <4>1, <4>2, <4>3, Zenon DEF Fresh
    <3>3. ASSUME p.type = "lsreq" PROVE p.lsa \in Held(p.to)'
      <4>1. ASSUME NEW l \in Link, NEW h, NEW e, NEW x,
                   p = ReplyTo(l, h) \/ p = Bare(l, e) \/ p = LSUpdate(l, x)
            PROVE  FALSE
        BY <3>3, <4>1 DEF ReplyTo, Bare, LSUpdate, DD
      <4>2. ASSUME NEW l \in Link, NEW h \in Current(l), p \in Replay(l, h) PROVE FALSE
        <5>1. p \in DDPacket
          BY <1>1, <4>2, NeighborFields DEF Replay
        <5>. QED
          BY <3>3, <5>1 DEF DDPacket
      <4>3. ASSUME NEW r \in Local, NEW q \in packetList[r], p = q.dd PROVE FALSE
        <5>1. p \in DDPacket
          BY <1>1, <4>3 DEF IInv, TypeOK
        <5>. QED
          BY <3>3, <5>1 DEF DDPacket
      <4>4. ASSUME NEW l \in Link, NEW x \in nbr[l].reqList, p = LSReq(l, x) PROVE p.lsa \in Held(p.to)'
        <5>1. p.lsa = x /\ p.to = l[2]
          BY <4>4 DEF LSReq
        <5>2. x \in Held(l[2])
          BY <3>1, <5>1 DEF Describable
        <5>. QED
          BY <1>1, <3>1, <5>1, <5>2
      <4>. QED
        BY <3>1, <4>1, <4>2, <4>3, <4>4, Zenon DEF Fresh
    <3>. QED
      BY <3>1, <3>2, <3>3
  <2>. QED
    BY <2>1, <2>2
<1>. QED
  BY <1>3, <1>5, <1>6, <1>7, <1>8 DEF Describable, Describes, DescribesNext

\* A process that has ended generates no more.
LEMMA GeneratingStays ==
  ASSUME Known, [Next]_vars, NEW r \in Local, fault'[r] = fault[r], ~Running(r)
  PROVE  generating'[r] = generating[r]
<1>1. IInv /\ Unborn
  BY DEF Known
<1>2. ASSUME NEW l \in Link, NEW twoWay \in BOOLEAN, recvHello(l, twoWay) PROVE UNCHANGED generating
  BY <1>1, <1>2, HelloEffect, Zenon
<1>3. ASSUME NEW l \in Link, NEW h \in Current(l),
             \/ wakeDD(l, h) \/ negotiateAsSlave(l, h) \/ negotiateAsMaster(l, h)
             \/ ignoreDD(l, h) \/ discardDD(l, h)
      PROVE  UNCHANGED generating
  BY <1>1, <1>3, WakeEffect, NegotiateEffect, NotedEffect, Zenon
<1>4. ASSUME NEW l \in Link, NEW h \in Current(l), AcceptStep(l, h) PROVE UNCHANGED generating
  <2>1. PICK missing \in SUBSET Lsa :
          acceptAsSlave(l, h, missing) \/ acceptLastAck(l, h, missing) \/ acceptAck(l, h, missing)
    BY <1>1, <1>4, AcceptTyped, Zenon
  <2>. QED
    BY <1>1, <2>1, SlaveEffect, LastAckEffect, AckEffect, Zenon DEF AcceptedDD
<1>5. ASSUME NEW l \in Link, NEW x \in Updates(l), recvLSUpdate(l, x) PROVE UNCHANGED generating
  BY <1>1, <1>5, UpdateEffect, Zenon
<1>6. ASSUME NEW l \in Link, SenderThread(l) PROVE UNCHANGED generating
  BY <1>1, <1>6, SenderEffect, Zenon
<1>7. ASSUME NEW l \in Link, NEW x \in nbr[l].reqList, sendLSReq(l, x) PROVE UNCHANGED generating
  BY <1>1, <1>7, AskEffect, Zenon
<1>8. ASSUME NEW k \in Local, lsaGenerateRemove(k) \/ lsaGenerateInsert(k) PROVE generating'[r] = generating[r]
  <2>1. Running(k) /\ \A j \in Local : j # k => generating'[j] = generating[j]
    BY <1>1, <1>8, GenerateEffect, Zenon
  <2>. QED
    BY <1>1, <2>1
<1>9. ASSUME NEW k \in Restarting, Restart(k) PROVE generating'[r] = generating[r]
  <2>1. fault' = [fault EXCEPT ![k] = "none"] /\ generating' = [generating EXCEPT ![k] = FALSE] /\ k \in Local
    BY <1>1, <1>9, RestartEffect, Zenon
  <2>2. r # k
    BY <1>1, <2>1 DEF IInv, TypeOK, Running
  <2>. QED
    BY <1>1, <2>1, <2>2 DEF IInv, TypeOK
<1>10. CASE OtherStep
  BY <1>10, OtherEffect
<1>. QED
  BY <1>2, <1>3, <1>4, <1>5, <1>6, <1>7, <1>8, <1>9, <1>10, StepCases, Zenon

\* An LSA that the router holds is not found only in lsaGenerate's gap.
LEMMA MissedInGap ==
  ASSUME NEW l \in Link, NEW x, recvLSReq(l, x), {x} \in Missing(l[1], {x}), x \in Held(l[1])
  PROVE  generating'[l[1]]
<1>1. generating[l[1]]
  BY DEF Missing, Held
<1>2. UNCHANGED generating
  BY Zenon DEF recvLSReq, database
<1>. QED
  BY <1>1, <1>2

\* What a router tells its neighbours of, it holds.
Told ==
  \A l \in Link : Elems(nbr[l].summary) \subseteq Held(l[1]) /\ hist[l].told \subseteq Held(l[1])

\* Every step keeps it: a restart forgets the database and what was told of it.
LEMMA ToldStep == Known /\ Told /\ [Next]_vars => Told'
<1>. SUFFICES ASSUME Known, Told, [Next]_vars, NEW l \in Link
              PROVE  Elems(nbr'[l].summary) \subseteq Held(l[1])' /\ hist'[l].told \subseteq Held(l[1])'
  BY DEF Told
<1>1. IInv /\ l[1] \in Local
  BY LinkType DEF Known
<1>2. CASE l[1] \in Restarting /\ Restart(l[1])
  <2>1. nbr'[l] = NoNeighbor(l) /\ hist'[l] = NoHistory
    BY <1>1, <1>2, RestartEffect
  <2>2. nbr'[l].summary = << >> /\ hist'[l].told = {}
    BY <2>1 DEF NoNeighbor, Neighbor, NoHistory
  <2>. QED
    BY <2>2 DEF Elems
<1>3. CASE ~(l[1] \in Restarting /\ Restart(l[1]))
  <2>1. TakesIn(l) /\ Held(l[1]) \subseteq Held(l[1])' /\ Elems(lsdb[l[1]]) \subseteq Held(l[1])
    BY <1>1, <1>3, NewHeaders, HeldStays DEF Held
  <2>2. Elems(nbr[l].summary) \subseteq Held(l[1]) /\ hist[l].told \subseteq Held(l[1])
    BY DEF Told
  <2>. QED
    BY <2>1, <2>2 DEF TakesIn
<1>. QED
  BY <1>2, <1>3

\* Hence a described LSA is not found only while lsaGenerate replaces it.
LEMMA MissingStep ==
  Known /\ Told /\ MissingOnlyWhileGenerating /\ [Next]_vars => MissingOnlyWhileGenerating'
<1>. SUFFICES ASSUME Known, Told, MissingOnlyWhileGenerating, [Next]_vars,
                     NEW r \in Local, fault'[r] = "null_lsa"
              PROVE  generating'[r]
  BY DEF MissingOnlyWhileGenerating
<1>1. CASE fault'[r] = fault[r]
  <2>1. generating[r] /\ ~Running(r)
    BY <1>1 DEF MissingOnlyWhileGenerating, Running
  <2>. QED
    BY <1>1, <2>1, GeneratingStays
<1>2. ASSUME NEW l \in Link, NEW x \in Requests(l), l[1] = r, recvLSReq(l, x),
             {x} \in Missing(r, {x}), fault'[r] = NullLsa(l, x)
      PROVE  generating'[r]
  <2>1. x \in hist[l].told
    BY <1>2 DEF NullLsa
  <2>. QED
    BY <1>2, <2>1, MissedInGap DEF Told
<1>. QED
  BY <1>1, <1>2, NewFault

\* An LSA that the process has described is not found only between the two steps of
\* lsaGenerate, whoever asks for it and whatever restarts there were
\* (LSAManager.cpp:16-28, PacketManager.cpp:402-411).
THEOREM FoundUnlessGenerating == Spec => []MissingOnlyWhileGenerating
<1>1. Init => Told /\ MissingOnlyWhileGenerating
  <2>. SUFFICES ASSUME Init PROVE Told /\ MissingOnlyWhileGenerating
    OBVIOUS
  <2>1. ASSUME NEW l \in Link PROVE Elems(nbr[l].summary) = {} /\ hist[l].told = {}
    <3>1. nbr[l] = NoNeighbor(l) /\ hist[l] = NoHistory
      BY DEF Init
    <3>2. nbr[l].summary = << >> /\ hist[l].told = {}
      BY <3>1 DEF NoNeighbor, Neighbor, NoHistory
    <3>. QED
      BY <3>2 DEF Elems
  <2>. QED
    BY <2>1 DEF Init, Told, MissingOnlyWhileGenerating
<1>. QED
  BY <1>1, ToldStep, MissingStep, KnownAlways, PTL DEF Spec

\* The process has ended on an LSA that was not found, described or not, only while
\* lsaGenerate replaces one.
AnyMissingOnlyWhileGenerating ==
  \A r \in Local : fault[r] \in {"null_lsa", "null_unknown_lsa"} => generating[r]

\* Every step keeps it, if nobody asks but routers of this code that have not been
\* restarted.
LEMMA AnyMissingStep ==
  ASSUME Foreign = {}
  PROVE  Known /\ Describable /\ AnyMissingOnlyWhileGenerating /\ [Next]_vars
         => AnyMissingOnlyWhileGenerating'
<1>. SUFFICES ASSUME Known, Describable, AnyMissingOnlyWhileGenerating, [Next]_vars,
                     NEW r \in Local, fault'[r] \in {"null_lsa", "null_unknown_lsa"}
              PROVE  generating'[r]
  BY DEF AnyMissingOnlyWhileGenerating
<1>1. CASE fault'[r] = fault[r]
  <2>1. generating[r] /\ ~Running(r)
    BY <1>1 DEF AnyMissingOnlyWhileGenerating, Running
  <2>. QED
    BY <1>1, <2>1, GeneratingStays
<1>2. ASSUME NEW l \in Link, NEW x \in Requests(l), l[1] = r, recvLSReq(l, x), {x} \in Missing(r, {x})
      PROVE  generating'[r]
  <2>1. PICK p \in Incoming(l[1], "lsreq") : x = p.lsa
    BY <1>2 DEF Requests
  <2>2. x \in Held(r)
    BY <1>2, <2>1 DEF Describable, Incoming
  <2>. QED
    BY <1>2, <2>2, MissedInGap
<1>. QED
  BY <1>1, <1>2, NewFault

\* Between routers of this code that are not restarted no LSA is asked for that the
\* peer has not described: each one is found but in the gap of lsaGenerate
\* (PacketManager.cpp:305-317, 402-411, 471-478).
THEOREM AskedIsHeld ==
  ASSUME Foreign = {}, Restarting = {}
  PROVE  Spec => []AnyMissingOnlyWhileGenerating
<1>1. Init => Describable /\ AnyMissingOnlyWhileGenerating
  <2>. SUFFICES ASSUME Init PROVE Describable /\ AnyMissingOnlyWhileGenerating
    OBVIOUS
  <2>1. ASSUME NEW l \in Link
        PROVE  Elems(nbr[l].summary) = {} /\ nbr[l].lastDD.hdrs = {} /\ hist[l].told = {} /\ nbr[l].reqList = {}
    <3>1. nbr[l] = NoNeighbor(l) /\ hist[l] = NoHistory
      BY DEF Init
    <3>2. nbr[l].summary = << >> /\ nbr[l].lastDD.hdrs = {} /\ hist[l].told = {} /\ nbr[l].reqList = {}
      BY <3>1 DEF NoNeighbor, Neighbor, EmptyDD, DD, NoHistory
    <3>. QED
      BY <3>2 DEF Elems
  <2>. QED
    BY <2>1 DEF Init, Describable, AnyMissingOnlyWhileGenerating
<1>2. Known /\ Addressed /\ Describable /\ [Next]_vars => Describable'
  BY DescribableRuns
<1>. QED
  BY <1>1, <1>2, AnyMissingStep, KnownAlways, AddressedAlways, PTL DEF Spec

-----------------------------------------------------------------------------
(* No LSA is in a database twice. *)

\* No entry of the list is repeated.
Once(s) == \A j, k \in 1..Len(s) : s[j] = s[k] => j = k

\* Without repetition insertion of an absent LSA, and replacement, repeat none
\* (LSDatabase.cpp:30-74).
LEMMA OnceKept ==
  ASSUME NEW s \in Seq(Lsa), Once(s), NEW x \in Lsa
  PROVE  /\ x \notin Elems(s) => Once(Append(s, x))
         /\ x \in Elems(s) => Once(Replaced(s, x))
<1>1. ASSUME NEW t \in Seq(Lsa), Once(t), x \notin Elems(t) PROVE Once(Append(t, x))
  <2>1. /\ Len(t) \in Nat /\ Len(Append(t, x)) = Len(t) + 1 /\ Append(t, x)[Len(t) + 1] = x
        /\ \A k \in 1..Len(t) : Append(t, x)[k] = t[k]
    OBVIOUS
  <2>2. \A k \in 1..Len(t) : t[k] # x
    BY <1>1 DEF Elems
  <2>. QED
    BY <1>1, <2>1, <2>2 DEF Once
<1>2. ASSUME NEW k \in 1..Len(s), s[k] = x,
             Without(s, x) = [j \in 1..Len(s) - 1 |-> IF j < k THEN s[j] ELSE s[j + 1]]
      PROVE  Once(Without(s, x)) /\ x \notin Elems(Without(s, x))
  <2>. DEFINE t == Without(s, x)
  <2>1. Len(s) \in Nat /\ Len(t) = Len(s) - 1
    <3>1. Len(s) \in Nat /\ Len(s) - 1 \in Nat /\ t \in Seq(Lsa) /\ DOMAIN t = 1..Len(s) - 1
      BY <1>2, WithoutType
    <3>2. DOMAIN t = 1..Len(t) /\ Len(t) \in Nat
      BY <3>1
    <3>. QED
      BY <3>1, <3>2
  <2>2. \A j \in 1..Len(t) : t[j] = (IF j < k THEN s[j] ELSE s[j + 1]) /\ j \in 1..Len(s) /\ j + 1 \in 1..Len(s)
    BY <1>2, <2>1
  <2>. HIDE DEF t
  <2>3. \A j \in 1..Len(t) : t[j] # x
    BY <1>2, <2>2 DEF Once
  <2>4. Once(t)
    <3>. SUFFICES ASSUME NEW i \in 1..Len(t), NEW j \in 1..Len(t), t[i] = t[j] PROVE i = j
      BY DEF Once
    <3>1. PICK m \in 1..Len(s) : t[i] = s[m] /\ m = (IF i < k THEN i ELSE i + 1)
      BY <2>2
    <3>2. PICK n \in 1..Len(s) : t[j] = s[n] /\ n = (IF j < k THEN j ELSE j + 1)
      BY <2>2
    <3>3. m = n
      BY <3>1, <3>2 DEF Once
    <3>4. i \in Int /\ j \in Int /\ k \in Int
      OBVIOUS
    <3>. QED
      BY <3>1, <3>2, <3>3, <3>4
  <2>. QED
    BY <2>3, <2>4 DEF t, Elems
<1>3. x \in Elems(s) => Once(Replaced(s, x))
  <2>. SUFFICES ASSUME x \in Elems(s) PROVE Once(Replaced(s, x))
    OBVIOUS
  <2>1. Once(Without(s, x)) /\ x \notin Elems(Without(s, x))
    BY <1>2, WithoutIs
  <2>2. Without(s, x) \in Seq(Lsa)
    BY WithoutType
  <2>. QED
    BY <1>1, <2>1, <2>2 DEF Replaced
<1>. QED
  BY <1>1, <1>3

\* The databases to start with repeat no LSA.
OnceAtFirst == \A d \in InitialDbs : \A r \in Local : Once(d[r])

\* A database without repetition, that lsaGenerate leaves alone.
AllOnce == \A r \in Local : ~generating[r] /\ Once(lsdb[r])

\* Every step keeps it, if lsaGenerate has no work.
LEMMA OnceStep ==
  ASSUME Refreshing = {}, OnceAtFirst, Known, AllOnce, [Next]_vars
  PROVE  AllOnce'
<1>1. IInv /\ Unborn /\ DOMAIN lsdb = Local /\ DOMAIN generating = Local
  BY DEF Known, IInv, TypeOK
<1>2. ASSUME UNCHANGED <<lsdb, generating>> PROVE AllOnce'
  BY <1>2 DEF AllOnce
<1>3. ASSUME NEW l \in Link, NEW x \in Updates(l), recvLSUpdate(l, x) PROVE AllOnce'
  <2>1. /\ l[1] \in Local /\ lsdb[l[1]] \in Seq(Lsa) /\ x \in Lsa
        /\ ~generating[l[1]] /\ Once(lsdb[l[1]])
    BY <1>1, LinkType, RequestsType DEF AllOnce, IInv, TypeOK
  <2>2. UNCHANGED generating
    BY <1>3, Zenon DEF recvLSUpdate
  <2>3. ASSUME NEW s, Once(s), lsdb' = [lsdb EXCEPT ![l[1]] = s] PROVE AllOnce'
    BY <1>1, <2>1, <2>2, <2>3 DEF AllOnce
  <2>4. \/ {x} \in Missing(l[1], {x}) /\ lsdb' = [lsdb EXCEPT ![l[1]] = Append(@, x)]
        \/ x \in Elems(lsdb[l[1]]) /\ lsdb' = [lsdb EXCEPT ![l[1]] = Replaced(@, x)]
        \/ UNCHANGED lsdb
    BY <1>3, Zenon DEF recvLSUpdate
  <2>5. CASE {x} \in Missing(l[1], {x}) /\ lsdb' = [lsdb EXCEPT ![l[1]] = Append(@, x)]
    <3>1. x \notin Elems(lsdb[l[1]])
      BY <2>1, <2>5 DEF Missing
    <3>2. Once(Append(lsdb[l[1]], x))
      BY <2>1, <3>1, OnceKept
    <3>. QED
      BY <2>3, <2>5, <3>2, Zenon
  <2>6. CASE x \in Elems(lsdb[l[1]]) /\ lsdb' = [lsdb EXCEPT ![l[1]] = Replaced(@, x)]
    <3>1. Once(Replaced(lsdb[l[1]], x))
      BY <2>1, <2>6, OnceKept
    <3>. QED
      BY <2>3, <2>6, <3>1, Zenon
  <2>. QED
    BY <1>2, <2>2, <2>4, <2>5, <2>6
<1>4. ASSUME NEW k \in Local, lsaGenerateRemove(k) \/ lsaGenerateInsert(k) PROVE FALSE
  BY <1>4 DEF lsaGenerateRemove, lsaGenerateInsert, AllOnce
<1>5. ASSUME NEW k \in Restarting, Restart(k) PROVE AllOnce'
  <2>1. /\ k \in Local /\ generating' = [generating EXCEPT ![k] = FALSE]
        /\ lsdb' = [lsdb EXCEPT ![k] = << >>]
    BY <1>1, <1>5, RestartEffect, Zenon
  <2>2. Once(<< >>)
    BY DEF Once
  <2>. QED
    BY <1>1, <2>1, <2>2 DEF AllOnce
<1>. QED
  BY <1>2, <1>3, <1>4, <1>5, DatabaseSteps, Zenon

\* When lsaGenerate does not interfere, LS updates never enter an LSA twice
\* (PacketManager.cpp:431-466, LSDatabase.cpp:30-74).
THEOREM EnteredOnce ==
  ASSUME Refreshing = {}, OnceAtFirst
  PROVE  Spec => []NoDuplicateLsa
<1>1. Init => AllOnce
  <2>. SUFFICES ASSUME Init PROVE AllOnce
    OBVIOUS
  <2>1. \A r \in Local : ~generating[r] /\ Once(lsdb[r])
    BY DEF Init, OnceAtFirst
  <2>. QED
    BY <2>1 DEF AllOnce
<1>2. Known /\ AllOnce /\ [Next]_vars => AllOnce'
  BY OnceStep
<1>3. AllOnce => NoDuplicateLsa
  BY DEF AllOnce, Once, NoDuplicateLsa
<1>. QED
  BY <1>1, <1>2, <1>3, KnownAlways, PTL DEF Spec
=============================================================================
