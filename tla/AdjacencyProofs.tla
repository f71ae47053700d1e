-------------------------- MODULE AdjacencyProofs ---------------------------
(***************************************************************************)
(* Theorems about Adjacency, for any routers, databases and bounds.        *)
(***************************************************************************)
EXTENDS Adjacency, SequenceTheorems, TLAPS

Packet == DDPacket \cup LSPacket

-----------------------------------------------------------------------------
(* The types of the operators. *)

\* The ends of a link are a local router and a router, and ids are numbers.
LEMMA LinkType ==
  ASSUME NEW l \in Link
  PROVE  /\ l[1] \in Local /\ l[2] \in Router /\ l[1] \in Router /\ l \in Router \X Router
         /\ l[1] \in Nat /\ l[2] \in Nat
  BY RouterAssumption DEF Link, Router

\* What DD builds is a DD packet.
LEMMA DDType ==
  ASSUME NEW l \in Router \X Router, NEW i \in BOOLEAN, NEW m \in BOOLEAN, NEW ms \in BOOLEAN,
         NEW seq \in Nat, NEW hdrs \in SUBSET Lsa, NEW body \in BOOLEAN
  PROVE  DD(l, i, m, ms, seq, hdrs, body) \in DDPacket
  BY DEF DD, DDPacket

\* The lastDD of a new Neighbor object is a DD packet (Neighbor.cpp:10-12).
LEMMA EmptyDDType == ASSUME NEW l \in Link PROVE EmptyDD(l) \in DDPacket
  BY LinkType, DDType DEF EmptyDD

\* Reversing the bytes of a number yields a number (PacketManager.cpp:567).
LEMMA SwapBytesType == ASSUME NEW n \in Nat PROVE SwapBytes(n) \in Nat
<1>1. /\ n % 256 \in Nat
      /\ n \div 256 \in Nat /\ n \div 65536 \in Nat /\ n \div 16777216 \in Nat
  OBVIOUS
<1>2. (n \div 256) % 256 \in Nat /\ (n \div 65536) % 256 \in Nat
  BY <1>1
<1>. QED
  BY <1>1, <1>2 DEF SwapBytes

\* New and absent Neighbor objects are typed (Neighbor.cpp:10-20).
LEMMA NeighborIsTyped ==
  ASSUME NEW l \in Link
  PROVE  /\ Neighbor(l) \in NeighborType
         /\ NoNeighbor(l) \in NeighborType
         /\ NoNeighbor(l).st = NoNbr
<1>1. Neighbor(l) \in NeighborType
  BY EmptyDDType DEF Neighbor, NeighborType, INIT, NoNbr, FULL
<1>2. \A n \in NeighborType :
        [n EXCEPT !.st = NoNbr] \in NeighborType /\ [n EXCEPT !.st = NoNbr].st = NoNbr
  BY DEF NeighborType, NoNbr, FULL
<1>. QED
  BY <1>1, <1>2, Zenon DEF NoNeighbor

\* Foreign routers send DD packets.
LEMMA ForeignDDType == ASSUME NEW r \in Local PROVE ForeignDD(r) \subseteq DDPacket
<1>. SUFFICES ASSUME NEW p \in ForeignDD(r) PROVE p \in DDPacket
  OBVIOUS
<1>1. SUBSET ForeignLsa \subseteq SUBSET Lsa /\ ForeignSeq \subseteq Nat
  BY ForeignAssumption
<1>2. p.hdrs \in SUBSET Lsa /\ p.seq \in Nat /\ p.from \in Router /\ p.to \in Router
  BY <1>1 DEF ForeignDD, Router
<1>. QED
  BY <1>2 DEF ForeignDD, DDPacket

\* Sending packets keeps net a set of packets.
LEMMA SentType ==
  ASSUME TypeOK, NEW ps \in SUBSET Packet
  PROVE  Sent(ps) \subseteq Packet
  BY DEF TypeOK, Sent, Followed, Packet

\* A packet in net has the fields of its type.
LEMMA IncomingType ==
  ASSUME TypeOK, NEW r \in Local
  PROVE  /\ Incoming(r, "dd") \subseteq DDPacket
         /\ Incoming(r, "lsreq") \subseteq LSPacket
         /\ Incoming(r, "lsu") \subseteq LSPacket
  BY DEF TypeOK, Incoming, DDPacket, LSPacket

\* The handler's variables are typed, and its router is running.
LEMMA CurrentType ==
  ASSUME TypeOK, NEW l \in Link, NEW h \in Current(l)
  PROVE  h \in Handled /\ h.dd \in DDPacket /\ h.dd.seq \in Nat /\ h.seq \in Nat /\ Running(l[1])
<1>1. Running(l[1])
  BY DEF Current
<1>2. h \in Handled
  <2>1. CASE handling[l[1]] = NoPacket
    <3>1. PICK p \in ArrivingDD(l[1]) : h = Arrived(l, p)
      BY <1>1, <2>1 DEF Current
    <3>2. p \in DDPacket
      BY LinkType, IncomingType, ForeignDDType DEF ArrivingDD
    <3>3. p.seq \in Nat
      BY <3>2 DEF DDPacket
    <3>. QED
      BY <3>1, <3>2, <3>3 DEF Arrived, Handled
  <2>2. CASE handling[l[1]] # NoPacket
    BY <1>1, <2>2, LinkType DEF Current, TypeOK
  <2>. QED
    BY <2>1, <2>2
<1>. QED
  BY <1>1, <1>2 DEF Handled, DDPacket

\* A list without its first element is a list (PacketManager.cpp:336-337).
LEMMA RestType ==
  ASSUME NEW s \in Seq(Lsa)
  PROVE  Rest(s) \in Seq(Lsa) /\ First(s) \in SUBSET Lsa
<1>1. CASE s = << >>
  BY <1>1 DEF Rest, First
<1>2. CASE s # << >>
  BY <1>2, HeadTailProperties DEF Rest, First
<1>. QED
  BY <1>1, <1>2

\* The elements of a list of LSAs are LSAs.
LEMMA ElemsType == ASSUME NEW s \in Seq(Lsa) PROVE Elems(s) \subseteq Lsa
  BY ElementOfSeq DEF Elems

\* A database from which an LSA was erased is a database (LSDatabase.cpp:62-74).
LEMMA WithoutType == ASSUME NEW s \in Seq(Lsa), NEW x PROVE Without(s, x) \in Seq(Lsa)
<1>. DEFINE k == CHOOSE j \in 1..Len(s) : s[j] = x /\ \A h \in 1..j - 1 : s[h] # x
            shorter == [j \in 1..Len(s) - 1 |-> IF j < k THEN s[j] ELSE s[j + 1]]
<1>1. CASE x \notin Elems(s)
  BY <1>1 DEF Without
<1>2. CASE x \in Elems(s)
  <2>1. Len(s) \in Nat /\ Len(s) > 0
    BY <1>2, LenProperties DEF Elems
  <2>2. Len(s) - 1 \in Nat
    BY <2>1
  <2>3. \A j \in 1..Len(s) - 1 : s[j] \in Lsa /\ s[j + 1] \in Lsa
    BY <2>1, ElementOfSeq
  <2>4. shorter \in [1..Len(s) - 1 -> Lsa]
    <3>. HIDE DEF k
    <3>. QED
      BY <2>3
  <2>5. shorter \in Seq(Lsa)
    BY <2>2, <2>4, IsASeq
  <2>6. Without(s, x) = shorter
    BY <1>2, Zenon DEF Without
  <2>. QED
    BY <2>5, <2>6, Zenon
<1>. QED
  BY <1>1, <1>2

\* What the handler misses are headers of the packet.
LEMMA MissingType ==
  ASSUME NEW r \in Local, NEW hdrs \in SUBSET Lsa, NEW missing \in Missing(r, hdrs)
  PROVE  missing \in SUBSET Lsa
  BY DEF Missing

-----------------------------------------------------------------------------
(* Neighbor objects.  Good(l, n): n may be the object of l. *)

Roles(l, n) == n.st >= EXCHANGE => (n.isMaster <=> l[2] > l[1])

Good(l, n) == n \in NeighborType /\ Roles(l, n)

\* The objects of all links are good: type invariant and RolesOpposed in one.
IInv == TypeOK /\ RolesOpposed

\* m is good, and in the state and the role of n.
Kept(l, n, m) == Good(l, m) /\ m.st = n.st /\ m.isMaster = n.isMaster

\* Under the invariant every Neighbor object is good.
LEMMA GoodNeighbor == ASSUME IInv, NEW l \in Link PROVE Good(l, nbr[l])
  BY DEF IInv, TypeOK, RolesOpposed, Good, Roles

\* The absent Neighbor object is good.
LEMMA GoodNoNeighbor == ASSUME NEW l \in Link PROVE Good(l, NoNeighbor(l))
<1>1. NoNeighbor(l) \in NeighborType /\ ~(NoNeighbor(l).st >= EXCHANGE)
  BY NeighborIsTyped DEF NoNbr, EXCHANGE
<1>. QED
  BY <1>1, Zenon DEF Good, Roles

\* The assignments that leave the state and the role alone keep an object good.
LEMMA KeptUpdates ==
  ASSUME NEW l \in Link
  PROVE  \A n : Good(l, n) =>
    /\ \A s \in Nat : Kept(l, n, [n EXCEPT !.lastSeq = s])
    /\ \A ls \in SUBSET Lsa : Kept(l, n, [n EXCEPT !.reqList = @ \cup ls])
    /\ \A ls : Kept(l, n, [n EXCEPT !.reqList = @ \ ls])
    /\ \A d \in Nat : Kept(l, n, [n EXCEPT !.ddNum = @ + 1, !.unAck = d])
    /\ \A d \in Nat : Kept(l, n, [n EXCEPT !.ddNum = @ + 1, !.summary = Rest(@), !.unAck = d])
    /\ \A d \in Nat, p \in DDPacket :
         Kept(l, n, [n EXCEPT !.ddNum = d, !.summary = Rest(@), !.lastDD = p])
<1>. SUFFICES ASSUME NEW n, Good(l, n)
     PROVE  /\ \A s \in Nat : Kept(l, n, [n EXCEPT !.lastSeq = s])
            /\ \A ls \in SUBSET Lsa : Kept(l, n, [n EXCEPT !.reqList = @ \cup ls])
            /\ \A ls : Kept(l, n, [n EXCEPT !.reqList = @ \ ls])
            /\ \A d \in Nat : Kept(l, n, [n EXCEPT !.ddNum = @ + 1, !.unAck = d])
            /\ \A d \in Nat : Kept(l, n, [n EXCEPT !.ddNum = @ + 1, !.summary = Rest(@), !.unAck = d])
            /\ \A d \in Nat, p \in DDPacket :
                 Kept(l, n, [n EXCEPT !.ddNum = d, !.summary = Rest(@), !.lastDD = p])
  BY Zenon
<1>1. n \in NeighborType /\ Roles(l, n)
  BY DEF Good
<1>2. Rest(n.summary) \in Seq(Lsa) /\ n.ddNum + 1 \in Nat
  BY <1>1, RestType DEF NeighborType
<1>3. \A s \in Nat : Kept(l, n, [n EXCEPT !.lastSeq = s])
  BY <1>1 DEF Kept, Good, Roles, NeighborType
<1>4. \A ls \in SUBSET Lsa : Kept(l, n, [n EXCEPT !.reqList = @ \cup ls])
  BY <1>1 DEF Kept, Good, Roles, NeighborType
<1>5. \A ls : Kept(l, n, [n EXCEPT !.reqList = @ \ ls])
  BY <1>1 DEF Kept, Good, Roles, NeighborType
<1>6. \A d \in Nat : Kept(l, n, [n EXCEPT !.ddNum = @ + 1, !.unAck = d])
  <2>. SUFFICES ASSUME NEW d \in Nat, NEW k \in Nat, k = n.ddNum + 1
                PROVE  Kept(l, n, [n EXCEPT !.ddNum = k, !.unAck = d])
    BY <1>2, Zenon
  <2>. QED
    BY <1>1 DEF Kept, Good, Roles, NeighborType
<1>7. \A d \in Nat : Kept(l, n, [n EXCEPT !.ddNum = @ + 1, !.summary = Rest(@), !.unAck = d])
  <2>. SUFFICES ASSUME NEW d \in Nat, NEW k \in Nat, k = n.ddNum + 1
                PROVE  Kept(l, n, [n EXCEPT !.ddNum = k, !.summary = Rest(@), !.unAck = d])
    BY <1>2, Zenon
  <2>. QED
    BY <1>1, <1>2 DEF Kept, Good, Roles, NeighborType
<1>8. \A d \in Nat, p \in DDPacket :
         Kept(l, n, [n EXCEPT !.ddNum = d, !.summary = Rest(@), !.lastDD = p])
  BY <1>1, <1>2 DEF Kept, Good, Roles, NeighborType
<1>. QED
  BY <1>3, <1>4, <1>5, <1>6, <1>7, <1>8

\* The events of Neighbor.cpp that change the state keep an object good.
LEMMA StateUpdates ==
  ASSUME NEW l \in Link
  PROVE  \A n : Good(l, n) =>
    /\ Good(l, TwoWay(n)) /\ Good(l, OneWay(n))
    /\ n.st = EXCHANGE => Good(l, ExchangeDone(n))
<1>. SUFFICES ASSUME NEW n, Good(l, n)
     PROVE  /\ Good(l, TwoWay(n)) /\ Good(l, OneWay(n))
            /\ n.st = EXCHANGE => Good(l, ExchangeDone(n))
  BY Zenon
<1>. USE DEF Good, Roles, NeighborType, NoNbr, INIT, TWOWAY, EXSTART, EXCHANGE, LOADING, FULL
<1>1. Good(l, TwoWay(n))
  <2>1. CASE n.st = INIT
    <3>1. PICK m1 : m1 = [n EXCEPT !.st = EXSTART]
      OBVIOUS
    <3>2. PICK m2 : m2 = [m1 EXCEPT !.ddNum = 0]
      OBVIOUS
    <3>3. PICK m3 : m3 = [m2 EXCEPT !.unAck = 0]
      OBVIOUS
    <3>4. PICK m4 : m4 = [m3 EXCEPT !.isMaster = TRUE]
      OBVIOUS
    <3>5. m1 \in NeighborType /\ m1.st = EXSTART
      BY <3>1
    <3>6. m2 \in NeighborType /\ m2.st = EXSTART
      BY <3>2, <3>5
    <3>7. m3 \in NeighborType /\ m3.st = EXSTART
      BY <3>3, <3>6
    <3>8. m4 \in NeighborType
      BY <3>4, <3>7
    <3>10. m4.st = EXSTART
      BY <3>4, <3>7
    <3>11. Good(l, m4)
      BY <3>8, <3>10
    <3>9. m4 = TwoWay(n)
      BY <2>1, <3>1, <3>2, <3>3, <3>4, Zenon DEF TwoWay
    <3>. QED
      BY <3>11, <3>9, Zenon
  <2>2. CASE n.st # INIT
    BY <2>2 DEF TwoWay
  <2>. QED
    BY <2>1, <2>2
<1>2. Good(l, OneWay(n))
  BY DEF OneWay
<1>3. n.st = EXCHANGE => Good(l, ExchangeDone(n))
  BY DEF ExchangeDone
<1>. QED
  BY <1>1, <1>2, <1>3

\* initSummaryList and NEGOTIATIONDONE, when the role is the one the ids give.
LEMMA NegotiationDoneGood ==
  ASSUME TypeOK, NEW l \in Link
  PROVE  \A n \in NeighborType : (n.isMaster <=> l[2] > l[1]) => Good(l, NegotiationDone(l, n))
<1>. SUFFICES ASSUME NEW n \in NeighborType
              PROVE  NegotiationDone(l, n) \in NeighborType /\ NegotiationDone(l, n).isMaster = n.isMaster
  BY Zenon DEF Good, Roles
<1>1. lsdb[l[1]] \in Seq(Lsa)
  BY LinkType DEF TypeOK
<1>2. n.summary \in Seq(Lsa)
  BY DEF NeighborType
<1>3. n.summary \o lsdb[l[1]] \in Seq(Lsa)
  BY <1>1, <1>2, ConcatProperties
<1>4. PICK m1 : m1 = [n EXCEPT !.st = EXCHANGE]
  OBVIOUS
<1>5. /\ m1 \in NeighborType
      /\ m1.isMaster = n.isMaster
      /\ m1.summary = n.summary
  <2>. USE <1>4 DEF NeighborType, NoNbr, EXCHANGE, FULL
  <2>1. m1 \in NeighborType
    OBVIOUS
  <2>2. m1.isMaster = n.isMaster
    OBVIOUS
  <2>3. m1.summary = n.summary
    OBVIOUS
  <2>. QED
    BY <2>1, <2>2, <2>3, Zenon
<1>6. PICK m2 : m2 = [m1 EXCEPT !.summary = m1.summary \o lsdb[l[1]]]
  OBVIOUS
<1>7. m2 \in NeighborType
  BY <1>3, <1>5, <1>6 DEF NeighborType
<1>8. m2.isMaster = n.isMaster
  BY <1>5, <1>6 DEF NeighborType
<1>9. m2 = NegotiationDone(l, n)
  BY <1>4, <1>5, <1>6, Zenon DEF NegotiationDone
<1>. QED
  BY <1>7, <1>8, <1>9, Zenon

-----------------------------------------------------------------------------
(* What the pieces of an action do to the variables. *)

\* Replacing one object by a good one keeps the types and RolesOpposed.
LEMMA NbrStep ==
  ASSUME IInv, NEW l \in Link, NEW m, Good(l, m), nbr' = [nbr EXCEPT ![l] = m]
  PROVE  nbr' \in [Link -> NeighborType] /\ RolesOpposed'
<1>1. nbr \in [Link -> NeighborType] /\ m \in NeighborType
  BY DEF IInv, TypeOK, Good
<1>2. nbr' \in [Link -> NeighborType]
  BY <1>1
<1>3. \A k \in Link : Roles(k, nbr[k])
  BY GoodNeighbor DEF Good
<1>4. Roles(l, m)
  BY DEF Good
<1>5. \A k \in Link : nbr'[k] = IF k = l THEN m ELSE nbr[k]
  BY <1>1
<1>6. \A k \in Link : Roles(k, nbr'[k])
  BY <1>3, <1>4, <1>5, Zenon
<1>7. RolesOpposed'
  BY <1>6, Zenon DEF RolesOpposed, Roles
<1>. QED
  BY <1>2, <1>7

\* So does leaving all objects alone.
LEMMA NbrSame ==
  ASSUME IInv, UNCHANGED nbr
  PROVE  nbr' \in [Link -> NeighborType] /\ RolesOpposed'
<1>1. RolesOpposed'
  BY Zenon DEF IInv, RolesOpposed
<1>2. nbr' \in [Link -> NeighborType]
  BY DEF IInv, TypeOK
<1>. QED
  BY <1>1, <1>2

\* Starting a sender thread keeps the thread counts numbers.
LEMMA SpawnType ==
  ASSUME IInv, NEW l \in Link, NEW n, Spawn(l, n)
  PROVE  senders' \in [Link -> [SenderPc -> Nat]]
<1>1. senders \in [Link -> [SenderPc -> Nat]] /\ "top" \in SenderPc
  BY DEF IInv, TypeOK, SenderPc
<1>2. CASE UNCHANGED senders
  BY <1>1, <1>2
<1>3. CASE senders' = [senders EXCEPT ![l]["top"] = @ + 1]
  <2>1. senders[l] \in [SenderPc -> Nat] /\ senders[l]["top"] + 1 \in Nat
    BY <1>1
  <2>2. [senders[l] EXCEPT !["top"] = senders[l]["top"] + 1] \in [SenderPc -> Nat]
    BY <1>1, <2>1
  <2>. QED
    BY <1>1, <1>3, <2>2
<1>. QED
  BY <1>2, <1>3 DEF Spawn

\* A sender thread that is at one place can move to another.
LEMMA MoveType ==
  ASSUME IInv, NEW l \in Link, NEW a \in SenderPc, NEW b \in SenderPc, a # b,
         senders[l][a] > 0, Move(l, a, b)
  PROVE  senders' \in [Link -> [SenderPc -> Nat]]
<1>1. senders \in [Link -> [SenderPc -> Nat]]
  BY DEF IInv, TypeOK
<1>2. PICK s : s = [senders[l] EXCEPT ![a] = senders[l][a] - 1]
  OBVIOUS
<1>3. s \in [SenderPc -> Nat]
  BY <1>1, <1>2
<1>4. PICK t : t = [s EXCEPT ![b] = s[b] + 1]
  OBVIOUS
<1>5. t \in [SenderPc -> Nat]
  BY <1>3, <1>4
<1>6. senders' = [senders EXCEPT ![l] = t]
  BY <1>2, <1>4, Zenon DEF Move, Moved
<1>. QED
  BY <1>1, <1>5, <1>6

\* Starting a sendLSReq thread keeps the thread counts numbers.
LEMMA RequestType ==
  ASSUME IInv, NEW l \in Link, NEW n, Request(l, n)
  PROVE  requesters' \in [Link -> Nat]
<1>1. CASE UNCHANGED requesters
  BY <1>1 DEF IInv, TypeOK
<1>2. CASE requesters' = [requesters EXCEPT ![l] = @ + 1]
  BY <1>2 DEF IInv, TypeOK
<1>. QED
  BY <1>1, <1>2, Zenon DEF Request

\* The history stays typed.
LEMMA NoticedType ==
  ASSUME IInv, NEW l \in Link, NEW heard \in SUBSET Lsa, NEW told \in SUBSET Lsa,
         Noticed(l, heard, told)
  PROVE  hist' \in [Link -> History]
<1>1. hist \in [Link -> History] /\ hist[l] \in History
  BY DEF IInv, TypeOK
<1>2. \A x \in History : Learned(x, heard, told) \in History
  BY DEF History, Learned
<1>3. PICK y \in History : hist' = [hist EXCEPT ![l] = y]
  BY <1>1, <1>2, Zenon DEF Noticed
<1>. QED
  BY <1>1, <1>3

\* Taking a DD off net keeps net a set of packets.
LEMMA TakenType ==
  ASSUME IInv, NEW l \in Link, NEW h \in Current(l)
  PROVE  Taken(l, h) \subseteq Packet
  BY DEF IInv, TypeOK, Taken, Packet

\* A replay is a packet, sent by a router (PacketManager.cpp:276-291).
LEMMA ReplayType ==
  ASSUME IInv, NEW l \in Link, NEW h \in Current(l)
  PROVE  Replay(l, h) \subseteq Packet
<1>1. nbr[l].lastDD \in DDPacket
  BY DEF IInv, TypeOK, NeighborType
<1>. QED
  BY <1>1 DEF Replay, Packet

\* Going on with a packet, and returning, keep the handler's variables typed.
LEMMA HandlingType ==
  ASSUME IInv, NEW l \in Link,
         Returns(l) \/ \E h \in Handled : GoesOn(l, h)
  PROVE  handling' \in [Local -> Handled \cup {NoPacket}]
  BY LinkType DEF IInv, TypeOK, Returns, GoesOn

\* Noting the sequence number keeps state and role (PacketManager.cpp:250-255).
LEMMA NotedKept ==
  ASSUME IInv, NEW l \in Link, NEW h \in Current(l)
  PROVE  Kept(l, nbr[l], Noted(l, h))
<1>1. h.dd.seq \in Nat
  BY CurrentType DEF IInv
<1>2. Good(l, nbr[l])
  BY GoodNeighbor
<1>. QED
  BY <1>1, <1>2, KeptUpdates, Zenon DEF Noted

\* Appending to the request list keeps state and role (PacketManager.cpp:305-317).
LEMMA ListedKept ==
  ASSUME IInv, NEW l \in Link, NEW h \in Current(l), NEW missing \in SUBSET Lsa
  PROVE  Kept(l, nbr[l], Listed(l, h, missing))
<1>1. Kept(l, nbr[l], Noted(l, h)) /\ Good(l, Noted(l, h))
  BY NotedKept DEF Kept
<1>2. Kept(l, Noted(l, h), Listed(l, h, missing))
  BY <1>1, KeptUpdates, Zenon DEF Listed
<1>. QED
  BY <1>1, <1>2, Zenon DEF Kept

-----------------------------------------------------------------------------
(* The steps.  Rest of TypeOK: everything but the Neighbor objects. *)

\* A hello keeps the invariant (PacketManager.cpp:176-217).
LEMMA HelloSteps ==
  ASSUME IInv, NEW l \in Link, NEW twoWay \in BOOLEAN, recvHello(l, twoWay)
  PROVE  IInv'
<1>. DEFINE n == IF nbr[l].st = NoNbr THEN Neighbor(l) ELSE nbr[l]
<1>1. Good(l, n)
  <2>1. Good(l, Neighbor(l))
    BY NeighborIsTyped DEF Good, Roles, Neighbor, INIT, EXCHANGE
  <2>. QED
    BY <2>1, GoodNeighbor, Zenon
<1>2. Good(l, TwoWay(n)) /\ Good(l, OneWay(n))
  BY <1>1, StateUpdates, Zenon
<1>3. nbr' \in [Link -> NeighborType] /\ RolesOpposed'
  <2>1. PICK m : Good(l, m) /\ nbr' = [nbr EXCEPT ![l] = m]
    BY <1>2, Zenon DEF recvHello
  <2>. QED
    BY <2>1, NbrStep
<1>4. senders' \in [Link -> [SenderPc -> Nat]]
  <2>1. CASE UNCHANGED senders
    BY <2>1 DEF IInv, TypeOK
  <2>2. CASE Spawn(l, n)
    BY <2>2, SpawnType
  <2>. QED
    BY <2>1, <2>2, Zenon DEF recvHello
<1>5. UNCHANGED <<fault, handling, requesters, packetList, currentId, lsdb, generating, net, restarts, hist>>
  BY Zenon DEF recvHello, schedule, database
<1>. QED
  BY <1>3, <1>4, <1>5 DEF IInv, TypeOK

\* The steps of the DD handler that keep or negotiate the state.
LEMMA NegotiationSteps ==
  ASSUME IInv, NEW l \in Link, NEW h \in Current(l),
         \/ recvOrphanDD(l, h) \/ wakeDD(l, h) \/ negotiateAsSlave(l, h)
         \/ negotiateAsMaster(l, h) \/ ignoreDD(l, h) \/ discardDD(l, h) \/ runaway(l, h)
  PROVE  IInv'
<1>. DEFINE noted == Noted(l, h)
<1>1. h \in Handled /\ h.dd.seq \in Nat /\ h.seq \in Nat
  BY CurrentType DEF IInv
<1>2. Kept(l, nbr[l], noted) /\ Good(l, noted) /\ noted \in NeighborType
  BY NotedKept DEF Kept, Good
<1>3. Good(l, TwoWay(noted))
  BY <1>2, StateUpdates, Zenon
<1>4. ASSUME negotiateAsSlave(l, h)
      PROVE  Good(l, NegotiationDone(l, [noted EXCEPT !.isMaster = TRUE, !.ddNum = h.dd.seq]))
  <2>1. \A n \in NeighborType, d \in Nat :
          /\ [n EXCEPT !.isMaster = TRUE, !.ddNum = d] \in NeighborType
          /\ [n EXCEPT !.isMaster = TRUE, !.ddNum = d].isMaster = TRUE
    <3>1. \A n \in NeighborType, d \in Nat : [n EXCEPT !.isMaster = TRUE, !.ddNum = d] \in NeighborType
      BY DEF NeighborType
    <3>2. \A n \in NeighborType, d \in Nat : [n EXCEPT !.isMaster = TRUE, !.ddNum = d].isMaster = TRUE
      BY DEF NeighborType
    <3>. QED
      BY <3>1, <3>2
  <2>2. l[2] > l[1]
    BY <1>4, Zenon DEF negotiateAsSlave, PeerLeads
  <2>. QED
    BY <1>1, <1>2, <2>1, <2>2, NegotiationDoneGood, Zenon DEF IInv
<1>5. ASSUME negotiateAsMaster(l, h)
      PROVE  Good(l, NegotiationDone(l, [noted EXCEPT !.isMaster = FALSE]))
  <2>1. \A n \in NeighborType :
          /\ [n EXCEPT !.isMaster = FALSE] \in NeighborType
          /\ [n EXCEPT !.isMaster = FALSE].isMaster = FALSE
    <3>1. \A n \in NeighborType : [n EXCEPT !.isMaster = FALSE] \in NeighborType
      BY DEF NeighborType
    <3>2. \A n \in NeighborType : [n EXCEPT !.isMaster = FALSE].isMaster = FALSE
      BY DEF NeighborType
    <3>. QED
      BY <3>1, <3>2
  <2>2. l[2] < l[1]
    BY <1>5, Zenon DEF negotiateAsMaster, PeerFollows
  <2>3. ~(l[2] > l[1])
    <3>1. l[1] \in Nat /\ l[2] \in Nat
      BY LinkType
    <3>. QED
      BY <2>2, <3>1
  <2>. QED
    BY <1>2, <2>1, <2>3, NegotiationDoneGood, Zenon DEF IInv
<1>6. nbr' \in [Link -> NeighborType] /\ RolesOpposed'
  <2>1. CASE UNCHANGED nbr
    BY <2>1, NbrSame
  <2>2. CASE \E m : Good(l, m) /\ nbr' = [nbr EXCEPT ![l] = m]
    BY <2>2, NbrStep
  <2>. QED
    BY <1>2, <1>3, <1>4, <1>5, <2>1, <2>2, Zenon
       DEF recvOrphanDD, wakeDD, negotiateAsSlave, negotiateAsMaster, ignoreDD, discardDD, runaway
<1>7. fault' \in [Local -> {"none", "null_nbr", "null_lsa", "null_unknown_lsa", "runaway", "list_race"}]
  BY LinkType DEF IInv, TypeOK, recvOrphanDD, wakeDD, negotiateAsSlave, negotiateAsMaster,
                  ignoreDD, discardDD, runaway
<1>8. handling' \in [Local -> Handled \cup {NoPacket}]
  <2>1. [h EXCEPT !.seq = @ + 1] \in Handled
    <3>1. \A x \in Handled : [x EXCEPT !.seq = @ + 1] \in Handled
      BY DEF Handled
    <3>. QED
      BY <1>1, <3>1, Zenon
  <2>2. CASE UNCHANGED handling
    BY <2>2 DEF IInv, TypeOK
  <2>3. CASE Returns(l) \/ GoesOn(l, h) \/ GoesOn(l, [h EXCEPT !.seq = @ + 1])
    BY <1>1, <2>1, <2>3, HandlingType, Zenon
  <2>. QED
    BY <2>2, <2>3, Zenon
       DEF recvOrphanDD, wakeDD, negotiateAsSlave, negotiateAsMaster, ignoreDD, discardDD, runaway
<1>9. senders' \in [Link -> [SenderPc -> Nat]]
  <2>1. CASE UNCHANGED senders
    BY <2>1 DEF IInv, TypeOK
  <2>2. CASE Spawn(l, nbr[l])
    BY <2>2, SpawnType
  <2>. QED
    BY <2>1, <2>2, Zenon
       DEF recvOrphanDD, wakeDD, negotiateAsSlave, negotiateAsMaster, ignoreDD, discardDD, runaway,
           threads
<1>10. net' \subseteq Packet
  <2>1. CASE net' = Taken(l, h)
    BY <2>1, TakenType
  <2>2. CASE net' = Taken(l, h) \cup Followed(Replay(l, h))
    BY <2>2, TakenType, ReplayType DEF Followed
  <2>. QED
    BY <2>1, <2>2, Zenon
       DEF recvOrphanDD, wakeDD, negotiateAsSlave, negotiateAsMaster, ignoreDD, discardDD, runaway
<1>11. UNCHANGED <<requesters, packetList, currentId, lsdb, generating, restarts, hist>>
  BY Zenon DEF recvOrphanDD, wakeDD, negotiateAsSlave, negotiateAsMaster, ignoreDD, discardDD,
               runaway, threads, schedule, database
<1>. QED
  BY <1>6, <1>7, <1>8, <1>9, <1>10, <1>11 DEF IInv, TypeOK, Packet

\* A slave that accepts a poll: its reply, and perhaps the end of the exchange.
LEMMA SlaveStep ==
  ASSUME IInv, NEW l \in Link, NEW h \in Current(l), NEW missing \in SUBSET Lsa,
         acceptAsSlave(l, h, missing)
  PROVE  IInv'
<1>. DEFINE n == Listed(l, h, missing)
            reply == DD(l, FALSE, FALSE, FALSE, h.dd.seq, First(n.summary), TRUE)
            next == [n EXCEPT !.ddNum = h.dd.seq, !.summary = Rest(@), !.lastDD = reply]
            last == IF h.dd.m THEN next ELSE ExchangeDone(next)
<1>1. h.dd.seq \in Nat /\ h.dd.hdrs \in SUBSET Lsa
  BY CurrentType DEF IInv, DDPacket
<1>2. Kept(l, nbr[l], n) /\ Good(l, n) /\ n.summary \in Seq(Lsa)
  BY ListedKept DEF Kept, Good, NeighborType
<1>3. First(n.summary) \in SUBSET Lsa /\ reply \in DDPacket /\ reply.hdrs = First(n.summary)
  <2>1. First(n.summary) \in SUBSET Lsa
    BY <1>2, RestType
  <2>2. reply \in DDPacket
    BY <1>1, <2>1, LinkType, DDType
  <2>. QED
    BY <2>1, <2>2 DEF DD
<1>4. Good(l, next) /\ next.st = EXCHANGE
  <2>1. nbr[l].st = EXCHANGE
    BY Zenon DEF acceptAsSlave, Accepts
  <2>2. Kept(l, n, next)
    BY <1>1, <1>2, <1>3, KeptUpdates, Zenon
  <2>. QED
    BY <1>2, <2>1, <2>2, Zenon DEF Kept
<1>5. Good(l, last)
  BY <1>4, StateUpdates, Zenon
<1>6. /\ nbr' = [nbr EXCEPT ![l] = last]
      /\ net' = Taken(l, h) \cup Followed(Replay(l, h) \cup {reply})
      /\ Request(l, last) /\ Returns(l) /\ Noticed(l, h.dd.hdrs, reply.hdrs)
      /\ UNCHANGED <<fault, senders, packetList, currentId, lsdb, generating, restarts>>
  BY Zenon DEF acceptAsSlave, schedule, database
<1>7. nbr' \in [Link -> NeighborType] /\ RolesOpposed'
  <2>. HIDE DEF last
  <2>. QED
    BY <1>5, <1>6, NbrStep
<1>8. net' \subseteq Packet
  <2>. HIDE DEF reply
  <2>. QED
    BY <1>3, <1>6, TakenType, ReplayType DEF Followed, Packet
<1>9. requesters' \in [Link -> Nat] /\ handling' \in [Local -> Handled \cup {NoPacket}]
  BY <1>6, RequestType, HandlingType, Zenon
<1>10. hist' \in [Link -> History]
  <2>. HIDE DEF reply
  <2>. QED
    BY <1>1, <1>3, <1>6, NoticedType
<1>. QED
  BY <1>6, <1>7, <1>8, <1>9, <1>10 DEF IInv, TypeOK, Packet

\* Unregistering a packet leaves packets.
LEMMA UnregisteredType ==
  ASSUME IInv, NEW l \in Link
  PROVE  Unregistered(l) \in SUBSET [id : Nat, dd : DDPacket]
  BY LinkType DEF IInv, TypeOK, Unregistered

\* A master that has heard and told everything.
LEMMA LastAckStep ==
  ASSUME IInv, NEW l \in Link, NEW h \in Current(l), NEW missing \in SUBSET Lsa,
         acceptLastAck(l, h, missing)
  PROVE  IInv'
<1>. DEFINE next == [Listed(l, h, missing) EXCEPT !.ddNum = @ + 1, !.unAck = 0]
            last == ExchangeDone(next)
<1>1. h.dd.hdrs \in SUBSET Lsa
  BY CurrentType DEF IInv, DDPacket
<1>2. Good(l, next) /\ next.st = EXCHANGE
  <2>1. nbr[l].st = EXCHANGE
    BY Zenon DEF acceptLastAck, Accepts
  <2>2. Kept(l, nbr[l], Listed(l, h, missing)) /\ Good(l, Listed(l, h, missing))
    BY ListedKept, Zenon DEF Kept
  <2>3. Kept(l, Listed(l, h, missing), next)
    <3>1. 0 \in Nat
      OBVIOUS
    <3>. QED
      BY <2>2, <3>1, KeptUpdates, Zenon
  <2>. QED
    BY <2>1, <2>2, <2>3, Zenon DEF Kept
<1>3. Good(l, last)
  BY <1>2, StateUpdates, Zenon
<1>4. /\ nbr' = [nbr EXCEPT ![l] = last]
      /\ net' = Taken(l, h)
      /\ packetList' = [packetList EXCEPT ![l[1]] = Unregistered(l)]
      /\ Request(l, last) /\ Returns(l) /\ Noticed(l, h.dd.hdrs, {})
      /\ UNCHANGED <<fault, senders, currentId, lsdb, generating, restarts>>
  BY Zenon DEF acceptLastAck, database
<1>5. nbr' \in [Link -> NeighborType] /\ RolesOpposed'
  <2>. HIDE DEF last
  <2>. QED
    BY <1>3, <1>4, NbrStep
<1>6. net' \subseteq Packet
  BY <1>4, TakenType
<1>7. requesters' \in [Link -> Nat] /\ handling' \in [Local -> Handled \cup {NoPacket}]
  BY <1>4, RequestType, HandlingType, Zenon
<1>8. hist' \in [Link -> History]
  BY <1>1, <1>4, NoticedType
<1>9. packetList' \in [Local -> SUBSET [id : Nat, dd : DDPacket]]
  BY <1>4, UnregisteredType, LinkType DEF IInv, TypeOK
<1>. QED
  BY <1>4, <1>5, <1>6, <1>7, <1>8, <1>9 DEF IInv, TypeOK, Packet

\* A master that goes on with its next poll.
LEMMA AckStep ==
  ASSUME IInv, NEW l \in Link, NEW h \in Current(l), NEW missing \in SUBSET Lsa,
         acceptAck(l, h, missing)
  PROVE  IInv'
<1>. DEFINE n == Listed(l, h, missing)
            poll == DD(l, FALSE, FALSE, TRUE, n.ddNum + 1, First(n.summary), TRUE)
            id == currentId[l[1]]
            next == [n EXCEPT !.ddNum = @ + 1, !.summary = Rest(@), !.unAck = id]
<1>1. h.dd.hdrs \in SUBSET Lsa /\ id \in Nat
  BY CurrentType, LinkType DEF IInv, TypeOK, DDPacket
<1>2. Good(l, n) /\ n.summary \in Seq(Lsa) /\ n.ddNum + 1 \in Nat
  BY ListedKept DEF Kept, Good, NeighborType
<1>3. First(n.summary) \in SUBSET Lsa /\ poll \in DDPacket /\ poll.hdrs = First(n.summary)
  <2>1. First(n.summary) \in SUBSET Lsa
    BY <1>2, RestType
  <2>2. poll \in DDPacket
    BY <1>2, <2>1, LinkType, DDType
  <2>. QED
    BY <2>1, <2>2 DEF DD
<1>4. Good(l, next)
  BY <1>1, <1>2, KeptUpdates, Zenon DEF Kept
<1>5. /\ nbr' = [nbr EXCEPT ![l] = next]
      /\ net' = Taken(l, h)
      /\ packetList' = [packetList EXCEPT ![l[1]] = Unregistered(l) \cup {[id |-> id, dd |-> poll]}]
      /\ currentId' = [currentId EXCEPT ![l[1]] = id + 1]
      /\ Returns(l) /\ Noticed(l, h.dd.hdrs, poll.hdrs)
      /\ UNCHANGED <<fault, senders, requesters, lsdb, generating, restarts>>
  BY Zenon DEF acceptAck, database, threads
<1>6. nbr' \in [Link -> NeighborType] /\ RolesOpposed'
  <2>. HIDE DEF next
  <2>. QED
    BY <1>4, <1>5, NbrStep
<1>7. net' \subseteq Packet
  BY <1>5, TakenType
<1>8. handling' \in [Local -> Handled \cup {NoPacket}]
  BY <1>5, HandlingType, Zenon
<1>9. hist' \in [Link -> History]
  <2>. HIDE DEF poll
  <2>. QED
    BY <1>1, <1>3, <1>5, NoticedType
<1>10. packetList' \in [Local -> SUBSET [id : Nat, dd : DDPacket]]
  <2>. HIDE DEF poll, id
  <2>1. [id |-> id, dd |-> poll] \in [id : Nat, dd : DDPacket]
    BY <1>1, <1>3
  <2>2. Unregistered(l) \cup {[id |-> id, dd |-> poll]} \in SUBSET [id : Nat, dd : DDPacket]
    BY <2>1, UnregisteredType
  <2>3. packetList \in [Local -> SUBSET [id : Nat, dd : DDPacket]]
    BY DEF IInv, TypeOK
  <2>. QED
    BY <1>5, <2>2, <2>3, LinkType, Zenon
<1>11. currentId' \in [Local -> Nat]
  BY <1>1, <1>5, LinkType DEF IInv, TypeOK
<1>. QED
  BY <1>5, <1>6, <1>7, <1>8, <1>9, <1>10, <1>11 DEF IInv, TypeOK, Packet

\* Every branch of the DD handler keeps the invariant (PacketManager.cpp:241-392).
LEMMA DDSteps ==
  ASSUME IInv, NEW l \in Link, NEW h \in Current(l), recvDD(l, h)
  PROVE  IInv'
<1>1. h.dd.hdrs \in SUBSET Lsa
  BY CurrentType DEF IInv, DDPacket
<1>2. \A missing \in Missing(l[1], h.dd.hdrs) : missing \in SUBSET Lsa
  BY <1>1, LinkType, MissingType
<1>. QED
  BY <1>2, NegotiationSteps, SlaveStep, LastAckStep, AckStep, Zenon DEF recvDD

\* What is requested and updated are LSAs.
LEMMA RequestsType ==
  ASSUME IInv, NEW l \in Link
  PROVE  Requests(l) \subseteq Lsa /\ Updates(l) \subseteq Lsa
<1>1. /\ Incoming(l[1], "lsreq") \subseteq LSPacket
      /\ Incoming(l[1], "lsu") \subseteq LSPacket
  BY IncomingType, LinkType DEF IInv
<1>2. \A p \in LSPacket : p.lsa \in Lsa
  BY DEF LSPacket
<1>. QED
  BY <1>1, <1>2, ForeignAssumption DEF Requests, Updates

\* LS requests and LS updates keep the invariant (PacketManager.cpp:393-463).
LEMMA LSSteps ==
  ASSUME IInv, NEW l \in Link, NEW x \in Lsa, recvLSReq(l, x) \/ recvLSUpdate(l, x)
  PROVE  IInv'
<1>1. l[1] \in Local /\ l[2] \in Router /\ l[1] \in Router
  BY LinkType
<1>2. lsdb[l[1]] \in Seq(Lsa)
  BY <1>1 DEF IInv, TypeOK
<1>3. Append(lsdb[l[1]], x) \in Seq(Lsa) /\ Replaced(lsdb[l[1]], x) \in Seq(Lsa)
  BY <1>2, WithoutType, AppendProperties DEF Replaced
<1>4. lsdb' \in [Local -> Seq(Lsa)]
  <2>1. lsdb \in [Local -> Seq(Lsa)]
    BY DEF IInv, TypeOK
  <2>2. CASE UNCHANGED lsdb
    BY <2>1, <2>2
  <2>3. CASE \E s \in Seq(Lsa) : lsdb' = [lsdb EXCEPT ![l[1]] = s]
    BY <1>1, <2>1, <2>3
  <2>. QED
    BY <1>3, <2>2, <2>3, Zenon DEF recvLSReq, recvLSUpdate, database
<1>5. net' \subseteq Packet
  <2>1. LSUpdate(l, x) \in LSPacket
    BY <1>1 DEF LSUpdate, LSPacket
  <2>2. Sent({LSUpdate(l, x)}) \subseteq Packet
    BY <2>1, SentType DEF IInv, Packet
  <2>3. net \subseteq Packet
    BY DEF IInv, TypeOK, Packet
  <2>. QED
    BY <2>2, <2>3, Zenon DEF recvLSReq, recvLSUpdate
<1>6. fault' \in [Local -> {"none", "null_nbr", "null_lsa", "null_unknown_lsa", "runaway", "list_race"}]
  <2>1. fault \in [Local -> {"none", "null_nbr", "null_lsa", "null_unknown_lsa", "runaway", "list_race"}]
    BY DEF IInv, TypeOK
  <2>2. NullLsa(l, x) \in {"null_lsa", "null_unknown_lsa"}
    BY DEF NullLsa
  <2>3. UNCHANGED fault \/ fault' = [fault EXCEPT ![l[1]] = NullLsa(l, x)]
    BY Zenon DEF recvLSReq, recvLSUpdate
  <2>. QED
    BY <1>1, <2>1, <2>2, <2>3
<1>7. UNCHANGED <<nbr, handling, senders, requesters, packetList, currentId, generating, restarts, hist>>
  BY Zenon DEF recvLSReq, recvLSUpdate, threads, schedule, database
<1>8. nbr' \in [Link -> NeighborType] /\ RolesOpposed'
  BY <1>7, NbrSame
<1>. QED
  BY <1>4, <1>5, <1>6, <1>7, <1>8 DEF IInv, TypeOK, Packet

-----------------------------------------------------------------------------
(* The threads. *)

\* The sendEmptyDDPacets threads keep the invariant (PacketManager.cpp:546-575).
LEMMA SenderSteps == ASSUME IInv, NEW l \in Link, SenderThread(l) PROVE IInv'
<1>1. senders \in [Link -> [SenderPc -> Nat]]
  BY DEF IInv, TypeOK
<1>2. "top" \in SenderPc /\ "test" \in SenderPc /\ "init" \in SenderPc /\ "plain" \in SenderPc
  BY DEF SenderPc
<1>3. UNCHANGED nbr
  BY Zenon DEF SenderThread, sendEmptyDDPacets, readEmpty, sendDDPackets
<1>4. nbr' \in [Link -> NeighborType] /\ RolesOpposed'
  BY <1>3, NbrSame
<1>5. CASE sendEmptyDDPacets(l)
  <2>1. senders' \in [Link -> [SenderPc -> Nat]]
    <3>1. CASE Move(l, "top", "test")
      BY <1>2, <1>5, <3>1, MoveType DEF sendEmptyDDPacets
    <3>2. CASE senders' = [senders EXCEPT ![l]["top"] = @ - 1]
      <4>1. PICK s : s = [senders[l] EXCEPT !["top"] = senders[l]["top"] - 1]
        OBVIOUS
      <4>2. s \in [SenderPc -> Nat]
        BY <1>1, <1>2, <1>5, <4>1 DEF sendEmptyDDPacets
      <4>3. senders' = [senders EXCEPT ![l] = s]
        BY <3>2, <4>1, Zenon
      <4>. QED
        BY <1>1, <4>2, <4>3
    <3>. QED
      BY <1>5, <3>1, <3>2, Zenon DEF sendEmptyDDPacets
  <2>. QED
    BY <1>4, <1>5, <2>1 DEF IInv, TypeOK, sendEmptyDDPacets, schedule, database
<1>6. CASE readEmpty(l)
  <2>1. senders' \in [Link -> [SenderPc -> Nat]]
    BY <1>2, <1>6, MoveType DEF readEmpty
  <2>. QED
    BY <1>4, <1>6, <2>1 DEF IInv, TypeOK, readEmpty, schedule, database
<1>7. ASSUME NEW isEmpty \in BOOLEAN, sendDDPackets(l, isEmpty) PROVE IInv'
  <2>. DEFINE opening == DD(l, isEmpty, isEmpty, isEmpty, SwapBytes(nbr[l].ddNum), {}, TRUE)
  <2>1. senders' \in [Link -> [SenderPc -> Nat]]
    BY <1>2, <1>7, MoveType DEF sendDDPackets
  <2>2. opening \in DDPacket
    <3>1. SwapBytes(nbr[l].ddNum) \in Nat
      BY SwapBytesType DEF IInv, TypeOK, NeighborType
    <3>. QED
      BY <3>1, LinkType, DDType
  <2>3. net' \subseteq Packet
    <3>1. net' = Sent({opening})
      BY <1>7, Zenon DEF sendDDPackets
    <3>. HIDE DEF opening
    <3>. QED
      BY <2>2, <3>1, SentType DEF IInv, Packet
  <2>4. hist' \in [Link -> History]
    <3>1. hist \in [Link -> History] /\ hist[l] \in History
      BY DEF IInv, TypeOK
    <3>2. PICK y : y = [hist[l] EXCEPT !.stray = TRUE]
      OBVIOUS
    <3>3. y \in History
      BY <3>1, <3>2 DEF History
    <3>4. hist' = hist \/ hist' = [hist EXCEPT ![l] = y]
      BY <1>7, <3>2, Zenon DEF sendDDPackets
    <3>. QED
      BY <3>1, <3>3, <3>4
  <2>. QED
    BY <1>4, <1>7, <2>1, <2>3, <2>4 DEF IInv, TypeOK, sendDDPackets, schedule, database, Packet
<1>. QED
  BY <1>5, <1>6, <1>7, Zenon DEF SenderThread

\* The sendLSReq threads, and their race, keep the invariant (PacketManager.cpp:468-480).
LEMMA RequestSteps ==
  ASSUME IInv, NEW l \in Link, RequestThread(l) \/ corruptReqList(l)
  PROVE  IInv'
<1>1. nbr[l] \in NeighborType /\ Good(l, nbr[l])
  BY GoodNeighbor DEF Good
<1>2. CASE endLSReq(l)
  <2>1. requesters' \in [Link -> Nat]
    BY <1>2 DEF IInv, TypeOK, endLSReq
  <2>2. nbr' \in [Link -> NeighborType] /\ RolesOpposed'
    BY <1>2, NbrSame DEF endLSReq
  <2>. QED
    BY <1>2, <2>1, <2>2 DEF IInv, TypeOK, endLSReq, schedule, database
<1>3. CASE corruptReqList(l)
  <2>1. fault' \in [Local -> {"none", "null_nbr", "null_lsa", "null_unknown_lsa", "runaway", "list_race"}]
    BY <1>3, LinkType DEF IInv, TypeOK, corruptReqList
  <2>2. nbr' \in [Link -> NeighborType] /\ RolesOpposed'
    BY <1>3, NbrSame DEF corruptReqList
  <2>. QED
    BY <1>3, <2>1, <2>2 DEF IInv, TypeOK, corruptReqList, threads, schedule, database
<1>4. ASSUME NEW x \in nbr[l].reqList, sendLSReq(l, x) PROVE IInv'
  <2>1. x \in Lsa
    BY <1>1 DEF NeighborType
  <2>2. LSReq(l, x) \in LSPacket
    BY <2>1, LinkType DEF LSReq, LSPacket
  <2>3. net' \subseteq Packet
    BY <1>4, <2>2, SentType DEF IInv, sendLSReq, Packet
  <2>4. nbr' \in [Link -> NeighborType] /\ RolesOpposed'
    <3>1. PICK m : m = [nbr[l] EXCEPT !.reqList = nbr[l].reqList \ {x}]
      OBVIOUS
    <3>2. Good(l, m)
      BY <1>1, <3>1, KeptUpdates, Zenon DEF Kept
    <3>3. nbr' = [nbr EXCEPT ![l] = m]
      BY <1>4, <3>1, Zenon DEF sendLSReq
    <3>. QED
      BY <3>2, <3>3, NbrStep
  <2>5. hist' \in [Link -> History]
    <3>1. hist \in [Link -> History] /\ hist[l] \in History
      BY DEF IInv, TypeOK
    <3>2. PICK y : y = [hist[l] EXCEPT !.asked = hist[l].asked \cup {x}]
      OBVIOUS
    <3>3. y \in History
      BY <2>1, <3>1, <3>2 DEF History
    <3>4. hist' = [hist EXCEPT ![l] = y]
      BY <1>4, <3>2, Zenon DEF sendLSReq
    <3>. QED
      BY <3>1, <3>3, <3>4
  <2>. QED
    BY <1>4, <2>3, <2>4, <2>5 DEF IInv, TypeOK, sendLSReq, threads, schedule, database, Packet
<1>. QED
  BY <1>2, <1>3, <1>4, Zenon DEF RequestThread

\* The retransmission thread keeps the invariant (PacketRetransmitter.cpp:34-50).
LEMMA RetransmitSteps ==
  ASSUME IInv, NEW r \in Local, NEW q \in packetList[r], retransmit(r, q)
  PROVE  IInv'
<1>1. q.dd \in DDPacket
  BY DEF IInv, TypeOK
<1>2. net' \subseteq Packet
  BY <1>1, SentType DEF IInv, retransmit, Packet
<1>3. nbr' \in [Link -> NeighborType] /\ RolesOpposed'
  BY NbrSame DEF retransmit
<1>. QED
  BY <1>2, <1>3 DEF IInv, TypeOK, retransmit, threads, schedule, database, Packet

\* lsaGenerate keeps the invariant (LSAManager.cpp:16-28).
LEMMA GenerateSteps ==
  ASSUME IInv, NEW r \in Local, lsaGenerateRemove(r) \/ lsaGenerateInsert(r)
  PROVE  IInv'
<1>1. Own[r] \in Lsa /\ lsdb[r] \in Seq(Lsa)
  BY DbAssumption DEF IInv, TypeOK
<1>2. Without(lsdb[r], Own[r]) \in Seq(Lsa) /\ Append(lsdb[r], Own[r]) \in Seq(Lsa)
  BY <1>1, WithoutType, AppendProperties
<1>3. lsdb' \in [Local -> Seq(Lsa)] /\ generating' \in [Local -> BOOLEAN]
  BY <1>2 DEF IInv, TypeOK, lsaGenerateRemove, lsaGenerateInsert
<1>4. UNCHANGED <<fault, nbr, handling, senders, requesters, packetList, currentId, net, restarts, hist>>
  BY Zenon DEF lsaGenerateRemove, lsaGenerateInsert, threads, schedule
<1>5. nbr' \in [Link -> NeighborType] /\ RolesOpposed'
  BY <1>4, NbrSame
<1>. QED
  BY <1>3, <1>4, <1>5 DEF IInv, TypeOK

-----------------------------------------------------------------------------
(* The environment. *)

\* A restart keeps the invariant.
LEMMA RestartSteps == ASSUME IInv, NEW r \in Restarting, Restart(r) PROVE IInv'
<1>1. r \in Local /\ << >> \in Seq(Lsa)
  BY DbAssumption
<1>2. \A k \in Link : nbr'[k] = NoNeighbor(k) \/ nbr'[k] = nbr[k]
  BY Zenon DEF Restart
<1>3. \A k \in Link : Good(k, NoNeighbor(k))
  BY GoodNoNeighbor
<1>4. \A k \in Link : Good(k, nbr'[k])
  BY <1>2, <1>3, GoodNeighbor, Zenon
<1>5. nbr' \in [Link -> NeighborType]
  BY <1>4, Zenon DEF Restart, Good
<1>6. RolesOpposed'
  BY <1>4, Zenon DEF RolesOpposed, Good, Roles
<1>7. fault' \in [Local -> {"none", "null_nbr", "null_lsa", "null_unknown_lsa", "runaway", "list_race"}]
  BY <1>1 DEF IInv, TypeOK, Restart
<1>8. handling' \in [Local -> Handled \cup {NoPacket}]
  BY <1>1 DEF IInv, TypeOK, Restart
<1>9. /\ senders' \in [Link -> [SenderPc -> Nat]]
      /\ requesters' \in [Link -> Nat]
      /\ hist' \in [Link -> History]
  <2>1. NoSenders \in [SenderPc -> Nat]
    BY DEF NoSenders
  <2>2. NoHistory \in History
    BY DEF NoHistory, History
  <2>. QED
    BY <2>1, <2>2 DEF IInv, TypeOK, Restart
<1>10. /\ packetList' \in [Local -> SUBSET [id : Nat, dd : DDPacket]]
       /\ currentId' \in [Local -> Nat]
       /\ lsdb' \in [Local -> Seq(Lsa)]
       /\ generating' \in [Local -> BOOLEAN]
  BY <1>1 DEF IInv, TypeOK, Restart
<1>11. net' = net /\ restarts' \in 0..MaxRestarts
  BY BoundAssumption DEF IInv, TypeOK, Restart
<1>. QED
  BY <1>5, <1>6, <1>7, <1>8, <1>9, <1>10, <1>11 DEF IInv, TypeOK

\* Losing a packet keeps the invariant.
LEMMA LoseSteps == ASSUME IInv, NEW p, Lose(p) PROVE IInv'
<1>1. nbr' \in [Link -> NeighborType] /\ RolesOpposed'
  BY NbrSame DEF Lose
<1>. QED
  BY <1>1 DEF IInv, TypeOK, Lose, threads, schedule, database

-----------------------------------------------------------------------------
(* The theorems. *)

\* The initial states satisfy the inductive invariant.
LEMMA InitIInv == Init => IInv
<1>. SUFFICES ASSUME Init PROVE IInv
  OBVIOUS
<1>1. \A k \in Link : Good(k, NoNeighbor(k))
  BY GoodNoNeighbor
<1>2. nbr \in [Link -> NeighborType]
  BY <1>1, Zenon DEF Init, Good
<1>3. RolesOpposed
  BY <1>1, Zenon DEF Init, RolesOpposed, Good, Roles
<1>4. NoSenders \in [SenderPc -> Nat] /\ NoHistory \in History
  BY DEF NoSenders, NoHistory, History
<1>5. lsdb \in [Local -> Seq(Lsa)]
  BY DbAssumption DEF Init
<1>6. restarts \in 0..MaxRestarts
  BY BoundAssumption DEF Init
<1>. QED
  BY <1>2, <1>3, <1>4, <1>5, <1>6 DEF Init, IInv, TypeOK

\* Every step, and every stutter, keeps the inductive invariant.
LEMMA NextIInv == IInv /\ [Next]_vars => IInv'
<1>. SUFFICES ASSUME IInv, [Next]_vars PROVE IInv'
  OBVIOUS
<1>1. ASSUME NEW l \in Link, Receive(l) PROVE IInv'
  BY <1>1, HelloSteps, DDSteps, LSSteps, RequestsType, Zenon DEF Receive
<1>2. ASSUME NEW l \in Link, SenderThread(l) \/ RequestThread(l) \/ corruptReqList(l) PROVE IInv'
  BY <1>2, SenderSteps, RequestSteps, Zenon
<1>3. ASSUME NEW r \in Local, NEW q \in packetList[r], retransmit(r, q) PROVE IInv'
  BY <1>3, RetransmitSteps
<1>4. ASSUME NEW r \in Local, lsaGenerateRemove(r) \/ lsaGenerateInsert(r) PROVE IInv'
  BY <1>4, GenerateSteps
<1>5. ASSUME NEW r \in Restarting, Restart(r) PROVE IInv'
  BY <1>5, RestartSteps
<1>6. ASSUME NEW p \in net, Lose(p) PROVE IInv'
  BY <1>6, LoseSteps
<1>7. CASE UNCHANGED vars
  <2>1. UNCHANGED nbr
    BY <1>7, Zenon DEF vars
  <2>2. nbr' \in [Link -> NeighborType] /\ RolesOpposed'
    BY <2>1, NbrSame
  <2>. QED
    BY <1>7, <2>2 DEF IInv, TypeOK, vars
<1>. QED
  BY <1>1, <1>2, <1>3, <1>4, <1>5, <1>6, <1>7, Zenon DEF Next

\* Every step of every thread keeps the types and the roles that follow from the
\* ids (PacketManager.cpp:136-575, Neighbor.cpp:22-89).
THEOREM Invariance == Spec => []IInv
  BY InitIInv, NextIInv, PTL DEF Spec

\* Every variable keeps to its set, for any number of routers, any databases,
\* any foreign packets and any bounds (PacketManager.cpp:136-466).
THEOREM TypeCorrect == Spec => []TypeOK
<1>1. IInv => TypeOK
  BY DEF IInv
<1>. QED
  BY <1>1, Invariance, PTL

\* Of two neighbours that exchange DDs exactly one is the master, whatever was
\* received and however often the adjacency was reset or a router restarted
\* (PacketManager.cpp:262-274).
THEOREM OneMaster == Spec => []RolesOpposed
<1>1. IInv => RolesOpposed
  BY DEF IInv
<1>. QED
  BY <1>1, Invariance, PTL
=============================================================================
