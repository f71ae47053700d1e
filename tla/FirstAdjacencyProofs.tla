------------------------ MODULE FirstAdjacencyProofs ------------------------
(***************************************************************************)
(* Theorems about routers of this code that meet for the first time: none  *)
(* is restarted, and none runs other code.  An adjacency then only rises,  *)
(* master and slave poll in lockstep, and the headers arrive in order.     *)
(***************************************************************************)
EXTENDS AdjacencySafetyProofs

\* Every router runs this code, none is restarted, and no hello is overtaken.
FirstTime == Foreign = {} /\ Restarting = {} /\ LateHello = {}

-----------------------------------------------------------------------------
(* The DD packets between two routers. *)

\* A DD that l[1] has sent to l[2]: in net, or inside the handler.
Underway(l, p) ==
  /\ p.from = l[1]
  /\ \/ p \in net /\ p.type = "dd" /\ p.to = l[2]
     \/ handling[l[2]] # NoPacket /\ p = handling[l[2]].dd

\* What l[1] may send to l[2].
Built(l, p) ==
  \/ nbr[l].isMaster /\ nbr[l].st >= EXCHANGE /\ p = nbr[l].lastDD
  \/ \E h \in Current(l) : \E missing \in SUBSET Lsa : acceptAsSlave(l, h, missing) /\ p = ReplyTo(l, h)
  \/ \E e \in BOOLEAN : /\ SenderThread(l) /\ p = Bare(l, e)
                        /\ senders[l][IF e THEN "init" ELSE "plain"] > 0
                        /\ ~e => hist'[l].stray
  \/ \E q \in Scheduled(l) : p = q.dd

\* Both ends of a link are local, and each has a Neighbor object for the other.
LEMMA Opposite ==
  ASSUME FirstTime, NEW l \in Link
  PROVE  /\ l[1] \in Local /\ l[2] \in Local /\ l[1] # l[2] /\ l = <<l[1], l[2]>>
         /\ Reverse(l) \in Link /\ Reverse(l)[1] = l[2] /\ Reverse(l)[2] = l[1]
         /\ Reverse(Reverse(l)) = l /\ Reverse(l) # l
  BY DEF FirstTime, Link, Router, Reverse

\* A link is known from its ends.
LEMMA SameEnds == ASSUME NEW k \in Link, NEW l \in Link, k[1] = l[1], k[2] = l[2] PROVE k = l
  BY DEF Link

\* What a router handles was sent to it.
LEMMA CurrentUnderway ==
  ASSUME Known, FirstTime, NEW l \in Link, NEW h \in Current(l)
  PROVE  /\ Underway(Reverse(l), h.dd) /\ h.dd.from = l[2] /\ h.dd \in DDPacket
         /\ handling[l[1]] # NoPacket => h = handling[l[1]]
         /\ handling[l[1]] = NoPacket => h.seq = h.dd.seq
<1>1. h.dd \in DDPacket /\ h.dd.type = "dd"
  BY CurrentType DEF Known, IInv, DDPacket
<1>2. CASE handling[l[1]] # NoPacket
  <2>1. h = handling[l[1]] /\ h.dd.from = l[2]
    BY <1>2 DEF Current
  <2>. QED
    BY <1>1, <1>2, <2>1, Opposite DEF Underway
<1>3. CASE handling[l[1]] = NoPacket
  <2>1. PICK p \in ArrivingDD(l[1]) : h = Arrived(l, p) /\ p.from = l[2]
    BY <1>3 DEF Current
  <2>2. h.dd = p /\ h.seq = p.seq
    BY <2>1 DEF Arrived
  <2>3. p \in Incoming(l[1], "dd")
    BY <2>1 DEF ArrivingDD, ForeignDD, FirstTime
  <2>. QED
    BY <1>1, <1>3, <2>1, <2>2, <2>3, Opposite DEF Underway, Incoming
<1>. QED
  BY <1>2, <1>3

\* A sendEmptyDDPacets thread sends when it is at the end of sendDDPackets
\* (PacketManager.cpp:555-575).
LEMMA NewBare ==
  ASSUME Known, NEW l \in Link, SenderThread(l), NEW e \in BOOLEAN, NEW p, p \in net', p \notin net, p = Bare(l, e)
  PROVE  senders[l][IF e THEN "init" ELSE "plain"] > 0 /\ (~e => hist'[l].stray)
<1>1. Bare(l, e).i = e
  BY DEF Bare, DD
<1>2. \A f : Bare(l, f).i = f
  BY DEF Bare, DD
<1>3. CASE sendEmptyDDPacets(l) \/ readEmpty(l)
  BY <1>3, Zenon DEF sendEmptyDDPacets, readEmpty
<1>4. ASSUME NEW f \in BOOLEAN, sendDDPackets(l, f)
      PROVE  senders[l][IF e THEN "init" ELSE "plain"] > 0 /\ (~e => hist'[l].stray)
  <2>1. /\ senders[l][IF f THEN "init" ELSE "plain"] > 0
        /\ net' = Sent({Bare(l, f)})
        /\ IF f THEN UNCHANGED hist ELSE hist' = [hist EXCEPT ![l].stray = TRUE]
    BY <1>4, Zenon DEF sendDDPackets, Bare
  <2>2. p = Bare(l, f)
    BY <2>1 DEF Sent, Followed
  <2>3. e = f
    BY <1>1, <1>2, <2>2
  <2>4. hist[l] \in History /\ DOMAIN hist = Link
    BY NeighborFields DEF Known
  <2>5. ASSUME ~e PROVE hist'[l].stray
    <3>1. hist'[l] = [hist[l] EXCEPT !.stray = TRUE]
      BY <2>1, <2>3, <2>4, <2>5
    <3>. QED
      BY <2>4, <3>1 DEF History
  <2>. QED
    BY <2>1, <2>3, <2>5
<1>. QED
  BY <1>3, <1>4 DEF SenderThread

\* A DD that is under way was so before, or is built by its sender.
LEMMA NewUnderway ==
  ASSUME Known, Addressed, FirstTime, [Next]_vars, NEW l \in Link, NEW p, Underway(l, p)'
  PROVE  Underway(l, p) \/ Built(l, p)
<1>1. IInv /\ Unborn /\ p.from = l[1]
  BY DEF Known, Underway
<1>2. CASE p \in net' /\ p.type = "dd" /\ p.to = l[2]
  <2>1. CASE p \in net
    BY <1>1, <1>2, <2>1 DEF Underway
  <2>2. CASE p \notin net
    <3>1. Fresh(p)
      BY <1>2, <2>2, NewPackets
    <3>2. ASSUME NEW k \in Link, p.from = k[1], p.to = k[2] PROVE k = l
      BY <1>1, <1>2, <3>2, SameEnds
    <3>3. ASSUME NEW k \in Link, NEW h \in Current(k), p \in Replay(k, h), nbr[k].st >= EXCHANGE PROVE Built(l, p)
      <4>1. nbr[k].isMaster /\ p = nbr[k].lastDD
        BY <3>3 DEF Replay
      <4>2. k = l
        BY <3>2, <4>1 DEF Addressed
      <4>. QED
        BY <3>3, <4>1, <4>2 DEF Built
    <3>4. ASSUME NEW k \in Link, NEW h \in Current(k), NEW missing \in SUBSET Lsa,
                 acceptAsSlave(k, h, missing), p = ReplyTo(k, h)
          PROVE  Built(l, p)
      <4>1. k = l
        BY <3>2, <3>4, BuiltAddressed
      <4>. QED
        BY <3>4, <4>1, Zenon DEF Built
    <3>5. ASSUME NEW k \in Link, NEW e \in BOOLEAN, SenderThread(k), p = Bare(k, e) PROVE Built(l, p)
      <4>1. k = l
        BY <3>2, <3>5, BuiltAddressed
      <4>2. senders[k][IF e THEN "init" ELSE "plain"] > 0 /\ (~e => hist'[k].stray)
        BY <1>2, <2>2, <3>5, NewBare
      <4>. QED
        BY <3>5, <4>1, <4>2, Zenon DEF Built
    <3>6. ASSUME NEW r \in Local, NEW q \in packetList[r], p = q.dd PROVE Built(l, p)
      <4>1. PICK k \in Link : k[1] = r /\ p.from = k[1] /\ p.to = k[2]
        BY <3>6 DEF Addressed
      <4>2. k = l
        BY <3>2, <4>1
      <4>. QED
        BY <1>2, <3>6, <4>1, <4>2 DEF Built, Scheduled
    <3>7. ASSUME NEW k \in Link, NEW x, p = LSReq(k, x) \/ p = LSUpdate(k, x) PROVE FALSE
      BY <1>2, <3>7 DEF LSReq, LSUpdate
    <3>. QED
      BY <3>1, <3>3, <3>4, <3>5, <3>6, <3>7, Zenon DEF Fresh
  <2>. QED
    BY <2>1, <2>2
<1>3. CASE handling'[l[2]] # NoPacket /\ p = handling'[l[2]].dd
  <2>1. l[2] \in Local
    BY Opposite
  <2>2. CASE handling'[l[2]] = handling[l[2]]
    BY <1>1, <1>3, <2>2 DEF Underway
  <2>3. ASSUME NEW k \in Link, NEW h \in Current(k), k[1] = l[2],
               handling'[l[2]] = h \/ handling'[l[2]] = [h EXCEPT !.seq = @ + 1]
        PROVE  Underway(l, p)
    <3>1. h \in Handled
      BY <1>1, CurrentType DEF IInv
    <3>2. p = h.dd
      BY <1>3, <2>3, <3>1 DEF Handled
    <3>3. Underway(Reverse(k), h.dd) /\ h.dd.from = k[2]
      BY CurrentUnderway
    <3>4. Reverse(k) = l
      BY <1>1, <2>3, <3>2, <3>3, Opposite, SameEnds
    <3>. QED
      BY <3>2, <3>3, <3>4
  <2>. QED
    BY <1>3, <2>1, <2>2, <2>3, NewHandled
<1>. QED
  BY <1>2, <1>3 DEF Underway

-----------------------------------------------------------------------------
(* Adjacencies only rise. *)

\* A sendEmptyDDPacets thread at pc was there, is new, or came from elsewhere
\* (PacketManager.cpp:477-575).
LEMMA NewSenders ==
  ASSUME Known, [Next]_vars, NEW l \in Link, NEW pc \in SenderPc, senders'[l][pc] > 0
  PROVE  \/ senders[l][pc] > 0
         \/ pc = "top" /\ nbr'[l].st = EXSTART
         \/ /\ \E a \in SenderPc : senders[l][a] > 0
            /\ pc = "plain" => nbr[l].st # EXSTART
<1>1. IInv /\ Unborn /\ senders \in [Link -> [SenderPc -> Nat]]
  BY DEF Known, IInv, TypeOK
<1>2. CASE UNCHANGED senders
  BY <1>2
<1>3. ASSUME NEW k \in Link, senders' = [senders EXCEPT ![k]["top"] = @ + 1], nbr'[k].st = EXSTART
      PROVE  senders[l][pc] > 0 \/ (pc = "top" /\ nbr'[l].st = EXSTART)
  <2>1. CASE k = l /\ pc = "top"
    BY <1>3, <2>1
  <2>2. CASE ~(k = l /\ pc = "top")
    <3>1. senders'[l][pc] = senders[l][pc]
      BY <1>1, <1>3, <2>2
    <3>. QED
      BY <3>1
  <2>. QED
    BY <2>1, <2>2
<1>4. ASSUME NEW k \in Link, NEW twoWay \in BOOLEAN, recvHello(k, twoWay)
      PROVE  senders[l][pc] > 0 \/ (pc = "top" /\ nbr'[l].st = EXSTART)
  BY <1>1, <1>2, <1>3, <1>4, HelloEffect, Zenon
<1>5. ASSUME NEW k \in Link, NEW h \in Current(k), wakeDD(k, h)
      PROVE  senders[l][pc] > 0 \/ (pc = "top" /\ nbr'[l].st = EXSTART)
  BY <1>1, <1>3, <1>5, WakeEffect, Zenon
<1>6. ASSUME NEW k \in Link, NEW h \in Current(k),
             \/ negotiateAsSlave(k, h) \/ negotiateAsMaster(k, h)
             \/ ignoreDD(k, h) \/ discardDD(k, h) \/ AcceptStep(k, h)
      PROVE  UNCHANGED senders
  <2>1. CASE AcceptStep(k, h)
    <3>1. PICK missing \in SUBSET Lsa :
            acceptAsSlave(k, h, missing) \/ acceptLastAck(k, h, missing) \/ acceptAck(k, h, missing)
      BY <1>1, <2>1, AcceptTyped, Zenon
    <3>. QED
      BY <1>1, <3>1, SlaveEffect, LastAckEffect, AckEffect, Zenon DEF AcceptedDD
  <2>. QED
    BY <1>1, <1>6, <2>1, NegotiateEffect, NotedEffect, Zenon
<1>7. ASSUME NEW k \in Link, NEW x \in Updates(k), recvLSUpdate(k, x) PROVE UNCHANGED senders
  BY <1>1, <1>7, UpdateEffect, Zenon
<1>8. ASSUME NEW k \in Link, SenderThread(k)
      PROVE  \/ senders[l][pc] > 0
             \/ /\ \E a \in SenderPc : senders[l][a] > 0
                /\ pc = "plain" => nbr[l].st # EXSTART
  <2>1. ASSUME NEW a \in SenderPc, NEW b \in SenderPc, a # b, senders[k][a] > 0, Move(k, a, b),
               b = "plain" => nbr[k].st # EXSTART
        PROVE  \/ senders[l][pc] > 0
               \/ /\ \E c \in SenderPc : senders[l][c] > 0
                  /\ pc = "plain" => nbr[l].st # EXSTART
    <3>1. CASE k = l /\ pc = b
      BY <2>1, <3>1
    <3>2. CASE k # l
      <4>1. senders'[l] = senders[l]
        BY <1>1, <2>1, <3>2 DEF Move
      <4>. QED
        BY <4>1
    <3>3. CASE k = l /\ pc # b
      <4>1. senders'[l] = Moved(senders[l], a, b) /\ senders[l] \in [SenderPc -> Nat]
        BY <1>1, <2>1, <3>3 DEF Move
      <4>2. senders[l][pc] \in Nat /\ (senders'[l][pc] = senders[l][pc] \/ senders'[l][pc] = senders[l][pc] - 1)
        BY <2>1, <3>3, <4>1 DEF Moved
      <4>. QED
        BY <4>2
    <3>. QED
      BY <3>1, <3>2, <3>3
  <2>2. ASSUME senders' = [senders EXCEPT ![k]["top"] = @ - 1] PROVE senders[l][pc] > 0
    <3>1. senders[l] \in [SenderPc -> Nat] /\ senders[l][pc] \in Nat
      BY <1>1
    <3>2. senders'[l][pc] = senders[l][pc] \/ senders'[l][pc] = senders[l][pc] - 1
      <4>1. CASE k = l
        <5>1. senders'[l] = [senders[l] EXCEPT !["top"] = @ - 1]
          BY <1>1, <2>2, <4>1
        <5>. QED
          BY <3>1, <5>1
      <4>2. CASE k # l
        BY <1>1, <2>2, <4>2
      <4>. QED
        BY <4>1, <4>2
    <3>. QED
      BY <3>1, <3>2
  <2>3. CASE sendEmptyDDPacets(k)
    <3>1. \/ senders[k]["top"] > 0 /\ Move(k, "top", "test")
          \/ senders' = [senders EXCEPT ![k]["top"] = @ - 1]
      BY <2>3, Zenon DEF sendEmptyDDPacets
    <3>. QED
      BY <2>1, <2>2, <3>1 DEF SenderPc
  <2>4. CASE readEmpty(k)
    <3>1. /\ senders[k]["test"] > 0
          /\ \/ nbr[k].st = EXSTART /\ Move(k, "test", "init")
             \/ nbr[k].st # EXSTART /\ Move(k, "test", "plain")
      BY <2>4, Zenon DEF readEmpty
    <3>. QED
      BY <2>1, <3>1 DEF SenderPc
  <2>5. ASSUME NEW e \in BOOLEAN, sendDDPackets(k, e)
        PROVE  \/ senders[l][pc] > 0
               \/ /\ \E c \in SenderPc : senders[l][c] > 0
                  /\ pc = "plain" => nbr[l].st # EXSTART
    <3>1. \/ senders[k]["init"] > 0 /\ Move(k, "init", "top")
          \/ senders[k]["plain"] > 0 /\ Move(k, "plain", "top")
      BY <2>5, Zenon DEF sendDDPackets
    <3>. QED
      BY <2>1, <3>1 DEF SenderPc
  <2>. QED
    BY <1>8, <2>3, <2>4, <2>5 DEF SenderThread
<1>9. ASSUME NEW k \in Link, NEW x \in nbr[k].reqList, sendLSReq(k, x) PROVE UNCHANGED senders
  BY <1>1, <1>9, AskEffect, Zenon
<1>10. ASSUME NEW r \in Local, lsaGenerateRemove(r) \/ lsaGenerateInsert(r) PROVE UNCHANGED senders
  BY <1>1, <1>10, GenerateEffect, Zenon
<1>11. ASSUME NEW r \in Restarting, Restart(r) PROVE senders[l][pc] > 0
  <2>1. l[1] = r => senders'[l] = NoSenders
    BY <1>1, <1>11, RestartEffect, Zenon
  <2>2. l[1] # r => senders'[l] = senders[l]
    BY <1>1, <1>11, RestartEffect, Zenon
  <2>. QED
    BY <2>1, <2>2 DEF NoSenders
<1>12. CASE OtherStep
  BY <1>12, OtherEffect, Zenon
<1>. QED
  BY <1>2, <1>4, <1>5, <1>6, <1>7, <1>8, <1>9, <1>10, <1>11, <1>12, StepCases, Zenon

\* The states there are.  None is left for a lower one.
Level(n) == n.st \in {NoNbr, INIT, EXSTART, EXCHANGE, LOADING, FULL}

\* Who sends anything has reached EXSTART, and its neighbour knows it.
Up ==
  /\ \A l \in Link : Level(nbr[l])
  /\ \A l \in Link : nbr[l].st >= EXSTART => nbr[Reverse(l)].st # NoNbr
  /\ \A l \in Link : \A pc \in SenderPc : senders[l][pc] > 0 =>
       nbr[l].st >= EXSTART /\ (pc = "plain" => nbr[l].st >= EXCHANGE)
  /\ \A l \in Link : Scheduled(l) # {} => nbr[l].st >= EXCHANGE
  /\ \A l \in Link : \A p : Underway(l, p) => nbr[l].st >= EXSTART /\ (~p.i => nbr[l].st >= EXCHANGE)

\* The object is created, or leaves INIT.
Wakes(l) ==
  /\ nbr[l].st \in {NoNbr, INIT} /\ nbr'[l].st \in {INIT, EXSTART}
  /\ SameHeaders(nbr[l], nbr'[l]) /\ hist'[l] = hist[l]
  /\ nbr'[l].st = INIT => nbr[l].st = NoNbr /\ SameCount(nbr[l], nbr'[l])
  /\ nbr'[l].st = EXSTART => nbr'[l].ddNum = 0 /\ nbr'[l].unAck = 0 /\ nbr[Reverse(l)].st # NoNbr

\* The steps of routers that meet for the first time.
FirstStep(l) ==
  \/ nbr'[l] = nbr[l] /\ (hist'[l] = hist[l] \/ SenderThread(l))
  \/ Wakes(l)
  \/ \E h \in Current(l) :
       \/ negotiateAsSlave(l, h) \/ negotiateAsMaster(l, h)
       \/ ignoreDD(l, h) \/ discardDD(l, h)
       \/ \E missing \in SUBSET Lsa :
            acceptAsSlave(l, h, missing) \/ acceptLastAck(l, h, missing) \/ acceptAck(l, h, missing)
  \/ \E x \in nbr[l].reqList : sendLSReq(l, x)

\* A router that is no longer listed is one whose neighbour has not listed it yet:
\* no adjacency is reset (Neighbor.cpp:69-89).
LEMMA FirstSteps ==
  ASSUME Known, FirstTime, Up, [Next]_vars, NEW l \in Link
  PROVE  FirstStep(l)
<1>1. IInv /\ Unborn /\ nbr[l] \in NeighborType /\ DOMAIN nbr = Link /\ DOMAIN hist = Link
  BY NeighborFields DEF Known
<1>2. /\ l[2] \in Local /\ l[2] \notin Foreign /\ Reverse(l) \in Link
  BY Opposite DEF FirstTime
<1>3. Level(nbr[l])
  BY DEF Up
<1>4. ASSUME NEW twoWay \in BOOLEAN, Hears(l, twoWay), recvHello(l, twoWay)
      PROVE  (nbr'[l] = nbr[l] /\ hist'[l] = hist[l]) \/ Wakes(l)
  <2>1. twoWay <=> nbr[Reverse(l)].st # NoNbr
    <3>1. Reverse(l) \in Link /\ l[2] \notin Foreign /\ l[2] \notin LateHello
      BY <1>2, Opposite DEF FirstTime
    <3>. QED
      BY <1>4, <3>1 DEF Hears
  <2>2. hist' = hist /\ SameHeaders(nbr[l], nbr'[l])
    BY <1>1, <1>4, HelloEffect, Zenon
  <2>3. \/ /\ twoWay /\ nbr[l].st \in {NoNbr, INIT}
           /\ nbr'[l].st = EXSTART /\ nbr'[l].ddNum = 0 /\ nbr'[l].unAck = 0
        \/ /\ ~twoWay /\ (nbr[l].st = NoNbr \/ nbr[l].st >= TWOWAY)
           /\ nbr'[l].st = INIT
        \/ nbr'[l] = nbr[l]
    BY <1>1, <1>4, HelloEffect, Zenon
  <2>4. CASE /\ twoWay /\ nbr[l].st \in {NoNbr, INIT}
             /\ nbr'[l].st = EXSTART /\ nbr'[l].ddNum = 0 /\ nbr'[l].unAck = 0
    <3>1. nbr'[l].st \in {INIT, EXSTART} /\ nbr'[l].st # INIT /\ nbr[Reverse(l)].st # NoNbr /\ hist'[l] = hist[l]
      BY <2>1, <2>2, <2>4 DEF EXSTART, INIT
    <3>. QED
      BY <2>2, <2>4, <3>1, Zenon DEF Wakes
  <2>5. CASE ~twoWay /\ (nbr[l].st = NoNbr \/ nbr[l].st >= TWOWAY) /\ nbr'[l].st = INIT
    <3>1. nbr[l].st >= TWOWAY => nbr[l].st >= EXSTART
      BY <1>3 DEF Level, TWOWAY, EXSTART, EXCHANGE, LOADING, FULL, NoNbr, INIT
    <3>2. nbr[l].st = NoNbr
      BY <2>1, <2>5, <3>1 DEF Up
    <3>3. nbr'[l] = OneWay(Neighbor(l)) /\ nbr[l] = NoNeighbor(l)
      BY <1>1, <1>4, <2>5, <3>2 DEF recvHello, Unborn
    <3>4. nbr'[l] = Neighbor(l)
      BY <3>3 DEF OneWay, Neighbor, INIT, TWOWAY
    <3>5. SameCount(nbr[l], nbr'[l])
      BY <3>3, <3>4, NeighborIsTyped DEF NoNeighbor, SameCount, SameHeaders, NeighborType
    <3>. QED
      BY <2>2, <2>5, <3>2, <3>5 DEF Wakes, INIT, EXSTART
  <2>6. hist'[l] = hist[l]
    BY <2>2
  <2>. QED
    BY <2>3, <2>4, <2>5, <2>6, Zenon
<1>5. ASSUME NEW h \in Current(l), wakeDD(l, h) PROVE Wakes(l)
  <2>1. /\ SameHeaders(nbr[l], nbr'[l]) /\ nbr[l].st = INIT /\ hist' = hist
        /\ nbr'[l].st = EXSTART /\ nbr'[l].ddNum = 0 /\ nbr'[l].unAck = 0
    BY <1>1, <1>5, WakeEffect, Zenon
  <2>2. Underway(Reverse(l), h.dd)
    BY CurrentUnderway
  <2>3. nbr[Reverse(l)].st >= EXSTART
    BY <1>2, <2>2 DEF Up
  <2>4. nbr[Reverse(l)].st # NoNbr
    BY <2>3 DEF EXSTART, NoNbr
  <2>. QED
    BY <2>1, <2>4 DEF Wakes, EXSTART, INIT
<1>6. ~(l[1] \in Restarting)
  BY DEF FirstTime
<1>. QED
  BY <1>4, <1>5, <1>6, LinkSteps, Zenon DEF FirstStep

\* The states a step goes through.
LEMMA Rises ==
  ASSUME Known, FirstTime, Up, [Next]_vars, NEW l \in Link
  PROVE  /\ \/ nbr'[l].st = nbr[l].st
            \/ Wakes(l)
            \/ nbr[l].st = EXSTART /\ nbr'[l].st = EXCHANGE
            \/ nbr[l].st = EXCHANGE /\ nbr'[l].st \in {LOADING, FULL}
         /\ Level(nbr[l]) /\ Level(nbr'[l]) /\ nbr'[l].st >= nbr[l].st
         /\ nbr[l].st \in Int /\ nbr'[l].st \in Int
<1>1. IInv /\ Level(nbr[l])
  BY DEF Known, Up
<1>2. ASSUME NEW h \in Current(l), NEW missing \in SUBSET Lsa,
             acceptAsSlave(l, h, missing) \/ acceptLastAck(l, h, missing) \/ acceptAck(l, h, missing)
      PROVE  nbr[l].st = EXCHANGE /\ nbr'[l].st \in {EXCHANGE, LOADING, FULL}
  <2>1. AcceptedDD(l, h, missing) /\ (nbr'[l].st = EXCHANGE \/ Ended(l))
    BY <1>1, <1>2, SlaveEffect, LastAckEffect, AckEffect, Zenon
  <2>2. nbr[l].st = EXCHANGE
    BY <2>1, Zenon DEF AcceptedDD, Accepts
  <2>3. nbr'[l].st = EXCHANGE \/ nbr'[l].st = LOADING \/ nbr'[l].st = FULL
    BY <2>1, Zenon DEF Ended
  <2>. QED
    BY <2>2, <2>3
<1>3. \/ nbr'[l].st = nbr[l].st
      \/ Wakes(l)
      \/ nbr[l].st = EXSTART /\ nbr'[l].st = EXCHANGE
      \/ nbr[l].st = EXCHANGE /\ nbr'[l].st \in {LOADING, FULL}
  <2>1. ASSUME NEW h \in Current(l), negotiateAsSlave(l, h) \/ negotiateAsMaster(l, h)
        PROVE  nbr[l].st = EXSTART /\ nbr'[l].st = EXCHANGE
    BY <1>1, <2>1, NegotiateEffect, Zenon
  <2>2. ASSUME NEW h \in Current(l), ignoreDD(l, h) \/ discardDD(l, h) PROVE nbr'[l].st = nbr[l].st
    BY <1>1, <2>2, NotedEffect, Zenon
  <2>3. ASSUME NEW x, sendLSReq(l, x) PROVE nbr'[l].st = nbr[l].st
    BY <1>1, <2>3, AskEffect, Zenon
  <2>4. ASSUME NEW h \in Current(l), NEW missing \in SUBSET Lsa,
               acceptAsSlave(l, h, missing) \/ acceptLastAck(l, h, missing) \/ acceptAck(l, h, missing)
        PROVE  nbr'[l].st = nbr[l].st \/ (nbr[l].st = EXCHANGE /\ nbr'[l].st \in {LOADING, FULL})
    BY <1>2, <2>4
  <2>. QED
    BY <2>1, <2>2, <2>3, <2>4, FirstSteps, Zenon DEF FirstStep
<1>4. Wakes(l) => nbr[l].st \in {NoNbr, INIT} /\ nbr'[l].st \in {INIT, EXSTART}
  BY DEF Wakes
<1>. QED
  BY <1>1, <1>3, <1>4 DEF Level, NoNbr, INIT, EXSTART, EXCHANGE, LOADING, FULL

\* Every step keeps it.
LEMMA UpStep ==
  ASSUME Known, Addressed, FirstTime, Up, [Next]_vars
  PROVE  Up'
<1>1. IInv /\ \A l \in Link : Reverse(l) \in Link /\ l[1] \in Local
  BY Opposite DEF Known
<1>2. ASSUME NEW l \in Link PROVE Level(nbr'[l])
  BY Rises
<1>3. ASSUME NEW l \in Link, nbr'[l].st >= EXSTART PROVE nbr'[Reverse(l)].st # NoNbr
  <2>1. nbr[Reverse(l)].st # NoNbr
    <3>1. CASE nbr[l].st >= EXSTART
      BY <3>1 DEF Up
    <3>2. CASE ~(nbr[l].st >= EXSTART)
      <4>1. Wakes(l)
        BY <1>3, <3>2, Rises DEF EXSTART, EXCHANGE
      <4>2. nbr'[l].st = EXSTART
        BY <1>3, <4>1 DEF Wakes, INIT, EXSTART
      <4>. QED
        BY <4>1, <4>2, Zenon DEF Wakes
    <3>. QED
      BY <3>1, <3>2
  <2>2. PICK k \in Link : k = Reverse(l)
    BY <1>1
  <2>3. nbr[k].st # NoNbr /\ Level(nbr[k]) /\ nbr'[k].st >= nbr[k].st /\ nbr'[k].st \in Int
    BY <2>1, <2>2, Rises
  <2>4. nbr'[k].st # NoNbr
    BY <2>3 DEF Level, NoNbr, INIT, EXSTART, EXCHANGE, LOADING, FULL
  <2>. QED
    BY <2>2, <2>4
<1>4. ASSUME NEW l \in Link, NEW pc \in SenderPc, senders'[l][pc] > 0
      PROVE  nbr'[l].st >= EXSTART /\ (pc = "plain" => nbr'[l].st >= EXCHANGE)
  <2>1. nbr'[l].st >= nbr[l].st /\ nbr[l].st \in Int /\ nbr'[l].st \in Int /\ Level(nbr[l])
    BY Rises
  <2>2. CASE senders[l][pc] > 0
    BY <2>1, <2>2 DEF Up, EXSTART, EXCHANGE
  <2>3. CASE pc = "top" /\ nbr'[l].st = EXSTART
    BY <2>3 DEF EXSTART
  <2>4. CASE /\ \E a \in SenderPc : senders[l][a] > 0
             /\ pc = "plain" => nbr[l].st # EXSTART
    <3>1. nbr[l].st >= EXSTART /\ (pc = "plain" => nbr[l].st # EXSTART)
      BY <2>4, Zenon DEF Up
    <3>. QED
      BY <2>1, <3>1 DEF EXSTART, EXCHANGE
  <2>. QED
    BY <1>4, <2>2, <2>3, <2>4, NewSenders, Zenon
<1>5. ASSUME NEW l \in Link, NEW q \in packetList'[l[1]], q.dd.to = l[2] PROVE nbr'[l].st >= EXCHANGE
  <2>1. nbr'[l].st >= nbr[l].st /\ nbr[l].st \in Int /\ nbr'[l].st \in Int
    BY Rises
  <2>2. CASE q \in packetList[l[1]]
    <3>1. nbr[l].st >= EXCHANGE
      BY <1>5, <2>2 DEF Scheduled, Up
    <3>. QED
      BY <2>1, <3>1 DEF EXCHANGE
  <2>3. ASSUME NEW k \in Link, NEW h \in Current(k), NEW missing \in SUBSET Lsa,
               k[1] = l[1], acceptAck(k, h, missing), q.dd = NextPoll(k)
        PROVE  nbr'[l].st >= EXCHANGE
    <3>1. q.dd.to = k[2]
      BY <2>3, BuiltAddressed
    <3>2. k = l
      BY <1>5, <2>3, <3>1, SameEnds
    <3>3. nbr'[k].st = EXCHANGE
      BY <1>1, <2>3, AckEffect, Zenon
    <3>. QED
      BY <3>2, <3>3 DEF EXCHANGE
  <2>4. PICK r \in Local : r = l[1]
    BY <1>1
  <2>. QED
    BY <1>5, <2>2, <2>3, <2>4, NewScheduled
<1>6. ASSUME NEW l \in Link, NEW p, Underway(l, p)'
      PROVE  nbr'[l].st >= EXSTART /\ (~p.i => nbr'[l].st >= EXCHANGE)
  <2>1. nbr'[l].st >= nbr[l].st /\ nbr[l].st \in Int /\ nbr'[l].st \in Int
    BY Rises
  <2>2. nbr[l].st >= EXSTART /\ (~p.i => nbr[l].st >= EXCHANGE)
    <3>1. CASE Underway(l, p)
      BY <3>1 DEF Up
    <3>2. CASE Built(l, p)
      <4>1. nbr[l].st >= EXCHANGE => nbr[l].st >= EXSTART
        BY <2>1 DEF EXSTART, EXCHANGE
      <4>2. ASSUME NEW h \in Current(l), NEW missing \in SUBSET Lsa, acceptAsSlave(l, h, missing)
            PROVE  nbr[l].st >= EXCHANGE
        BY <4>2 DEF acceptAsSlave, Accepts, EXCHANGE
      <4>3. ASSUME NEW e \in BOOLEAN, p = Bare(l, e), senders[l][IF e THEN "init" ELSE "plain"] > 0
            PROVE  nbr[l].st >= EXSTART /\ (~p.i => nbr[l].st >= EXCHANGE)
        <5>1. p.i = e
          BY <4>3 DEF Bare, DD
        <5>2. CASE e
          BY <4>3, <5>1, <5>2 DEF Up, SenderPc
        <5>3. CASE ~e
          BY <4>3, <5>1, <5>3 DEF Up, SenderPc
        <5>. QED
          BY <5>2, <5>3
      <4>4. ASSUME NEW q \in Scheduled(l) PROVE nbr[l].st >= EXCHANGE
        BY <4>4 DEF Up
      <4>. QED
        BY <3>2, <4>1, <4>2, <4>3, <4>4, Zenon DEF Built
    <3>. QED
      BY <1>6, <3>1, <3>2, NewUnderway
  <2>. QED
    BY <2>1, <2>2 DEF EXSTART, EXCHANGE
<1>7. ASSUME NEW l \in Link, Scheduled(l)' # {} PROVE nbr'[l].st >= EXCHANGE
  BY <1>5, <1>7 DEF Scheduled
<1>. QED
  BY <1>2, <1>3, <1>4, <1>6, <1>7, Zenon DEF Up

\* It holds of every state.
LEMMA UpAlways == ASSUME FirstTime PROVE Spec => []Up
<1>1. Init => Up
  <2>. SUFFICES ASSUME Init PROVE Up
    OBVIOUS
  <2>1. ASSUME NEW l \in Link PROVE nbr[l].st = NoNbr
    BY <2>1, NeighborIsTyped DEF Init
  <2>2. ASSUME NEW l \in Link PROVE Level(nbr[l]) /\ ~(nbr[l].st >= EXSTART)
    BY <2>1 DEF Level, NoNbr, EXSTART
  <2>3. ASSUME NEW l \in Link, NEW pc \in SenderPc PROVE ~(senders[l][pc] > 0)
    BY DEF Init, NoSenders
  <2>4. ASSUME NEW l \in Link PROVE Scheduled(l) = {}
    BY Opposite DEF Init, Scheduled
  <2>5. ASSUME NEW l \in Link, NEW p PROVE ~Underway(l, p)
    BY Opposite DEF Init, Underway
  <2>. QED
    BY <2>2, <2>3, <2>4, <2>5, Zenon DEF Up
<1>2. Known /\ Addressed /\ Up /\ [Next]_vars => Up'
  BY UpStep
<1>. QED
  BY <1>1, <1>2, KnownAlways, AddressedAlways, PTL DEF Spec

\* No DD ever arrives at a router that has no Neighbor object for its sender
\* (PacketManager.cpp:244-250).
LEMMA OrphanStep ==
  ASSUME Known, FirstTime, Up, NoOrphanDD, [Next]_vars
  PROVE  NoOrphanDD'
<1>1. ASSUME NEW l \in Link, NEW h \in Current(l), recvOrphanDD(l, h) PROVE FALSE
  <2>1. nbr[l].st = NoNbr
    BY <1>1, Zenon DEF recvOrphanDD
  <2>2. PICK k \in Link : k = Reverse(l) /\ Reverse(k) = l /\ Underway(k, h.dd)
    BY CurrentUnderway, Opposite
  <2>3. nbr[k].st >= EXSTART
    BY <2>2 DEF Up
  <2>. QED
    BY <2>1, <2>2, <2>3 DEF Up
<1>2. ASSUME NEW r \in Local PROVE fault'[r] # "null_nbr"
  BY <1>1, NewFault DEF NoOrphanDD
<1>. QED
  BY <1>2 DEF NoOrphanDD

\* Of routers that meet for the first time none ends on a DD from a router it
\* does not know (PacketManager.cpp:244-250).
THEOREM NeighborsAreKnown == ASSUME FirstTime PROVE Spec => []NoOrphanDD
<1>1. Init => NoOrphanDD
  BY DEF Init, NoOrphanDD
<1>2. Known /\ Up /\ NoOrphanDD /\ [Next]_vars => NoOrphanDD'
  BY OrphanStep
<1>. QED
  BY <1>1, <1>2, KnownAlways, UpAlways, PTL DEF Spec

-----------------------------------------------------------------------------
(* The request list has one user at a time. *)

\* A sendLSReq thread starts at the end of the exchange, and none before it ends
\* (Neighbor.cpp:114-140).
Asking ==
  \A l \in Link :
    /\ requesters[l] = 0 \/ (requesters[l] = 1 /\ nbr[l].st = LOADING)
    /\ hist[l].asked # {} => nbr[l].st = LOADING
    /\ nbr[l].st = FULL => nbr[l].reqList = {}

\* The sendLSReq threads of a neighbour.
LEMMA NewRequesters ==
  ASSUME Known, Restarting = {}, [Next]_vars, NEW l \in Link
  PROVE  \/ requesters'[l] = requesters[l]
         \/ requesters[l] > 0 /\ requesters'[l] = requesters[l] - 1 /\ UNCHANGED nbr
         \/ /\ nbr[l].st = EXCHANGE /\ nbr'[l].st = LOADING
            /\ requesters'[l] = requesters[l] + 1
<1>1. IInv /\ Unborn /\ requesters \in [Link -> Nat]
  BY DEF Known, IInv, TypeOK
<1>2. ASSUME NEW k \in Link, NEW twoWay \in BOOLEAN, recvHello(k, twoWay) PROVE UNCHANGED requesters
  BY <1>1, <1>2, HelloEffect, Zenon
<1>3. ASSUME NEW k \in Link, NEW h \in Current(k),
             \/ wakeDD(k, h) \/ negotiateAsSlave(k, h) \/ negotiateAsMaster(k, h)
             \/ ignoreDD(k, h) \/ discardDD(k, h)
      PROVE  UNCHANGED requesters
  BY <1>1, <1>3, WakeEffect, NegotiateEffect, NotedEffect, Zenon
<1>4. ASSUME NEW k \in Link, NEW h \in Current(k), AcceptStep(k, h)
      PROVE  \/ requesters'[l] = requesters[l]
             \/ /\ nbr[l].st = EXCHANGE /\ nbr'[l].st = LOADING
                /\ requesters'[l] = requesters[l] + 1
  <2>1. PICK missing \in SUBSET Lsa :
          acceptAsSlave(k, h, missing) \/ acceptLastAck(k, h, missing) \/ acceptAck(k, h, missing)
    BY <1>1, <1>4, AcceptTyped, Zenon
  <2>2. AcceptedDD(k, h, missing) /\ (UNCHANGED requesters \/ Ended(k))
    BY <1>1, <2>1, SlaveEffect, LastAckEffect, AckEffect, Zenon
  <2>3. nbr[k].st = EXCHANGE
    BY <2>2, Zenon DEF AcceptedDD, Accepts
  <2>4. CASE UNCHANGED requesters
    BY <2>4
  <2>5. CASE nbr'[k].st = LOADING /\ requesters' = [requesters EXCEPT ![k] = @ + 1]
    BY <1>1, <2>3, <2>5
  <2>. QED
    BY <2>2, <2>4, <2>5, Zenon DEF Ended
<1>5. ASSUME NEW k \in Link, NEW x \in Updates(k), recvLSUpdate(k, x) PROVE UNCHANGED requesters
  BY <1>1, <1>5, UpdateEffect, Zenon
<1>6. ASSUME NEW k \in Link, SenderThread(k) PROVE UNCHANGED requesters
  BY <1>1, <1>6, SenderEffect, Zenon
<1>7. ASSUME NEW k \in Link, NEW x \in nbr[k].reqList, sendLSReq(k, x) PROVE UNCHANGED requesters
  BY <1>1, <1>7, AskEffect, Zenon
<1>8. ASSUME NEW r \in Local, lsaGenerateRemove(r) \/ lsaGenerateInsert(r) PROVE UNCHANGED requesters
  BY <1>1, <1>8, GenerateEffect, Zenon
<1>9. CASE OtherStep
  <2>1. ASSUME NEW k \in Link, NEW h \in Current(k), recvOrphanDD(k, h) \/ runaway(k, h)
        PROVE  UNCHANGED requesters
    BY <2>1, Zenon DEF recvOrphanDD, runaway, threads
  <2>2. ASSUME NEW k \in Link, NEW x, recvLSReq(k, x) \/ corruptReqList(k) PROVE UNCHANGED requesters
    BY <2>2, Zenon DEF recvLSReq, corruptReqList, threads
  <2>3. ASSUME NEW k \in Link, endLSReq(k)
        PROVE  \/ requesters'[l] = requesters[l]
               \/ requesters[l] > 0 /\ requesters'[l] = requesters[l] - 1 /\ UNCHANGED nbr
    <3>1. requesters[k] > 0 /\ requesters' = [requesters EXCEPT ![k] = @ - 1] /\ UNCHANGED nbr
      BY <2>3, Zenon DEF endLSReq
    <3>. QED
      BY <1>1, <3>1
  <2>4. ASSUME NEW r \in Local, NEW q, retransmit(r, q) PROVE UNCHANGED requesters
    BY <2>4, Zenon DEF retransmit, threads
  <2>5. ASSUME NEW p, Lose(p) PROVE UNCHANGED requesters
    BY <2>5, Zenon DEF Lose, threads
  <2>6. CASE UNCHANGED vars
    BY <2>6, Zenon DEF vars
  <2>. QED
    BY <1>9, <2>1, <2>2, <2>3, <2>4, <2>5, <2>6, Zenon DEF OtherStep
<1>. QED
  BY <1>2, <1>3, <1>4, <1>5, <1>6, <1>7, <1>8, <1>9, StepCases, Zenon

\* Every step keeps it.
LEMMA AskingStep ==
  ASSUME Known, FirstTime, Up, Asking, [Next]_vars
  PROVE  Asking'
<1>. SUFFICES ASSUME NEW l \in Link
              PROVE  /\ requesters'[l] = 0 \/ (requesters'[l] = 1 /\ nbr'[l].st = LOADING)
                     /\ hist'[l].asked # {} => nbr'[l].st = LOADING
                     /\ nbr'[l].st = FULL => nbr'[l].reqList = {}
  BY DEF Asking
<1>1. IInv /\ requesters[l] \in Nat
  BY DEF Known, IInv, TypeOK
<1>2. /\ \/ nbr'[l].st = nbr[l].st
         \/ Wakes(l)
         \/ nbr[l].st = EXSTART /\ nbr'[l].st = EXCHANGE
         \/ nbr[l].st = EXCHANGE /\ nbr'[l].st \in {LOADING, FULL}
      /\ Level(nbr[l])
  BY Rises
<1>3. Wakes(l) => nbr[l].st \in {NoNbr, INIT} /\ nbr'[l].st \in {INIT, EXSTART}
  BY DEF Wakes
<1>4. nbr[l].st = LOADING => nbr'[l].st = LOADING
  BY <1>2, <1>3 DEF NoNbr, INIT, EXSTART, EXCHANGE, LOADING
<1>5. requesters'[l] = 0 \/ (requesters'[l] = 1 /\ nbr'[l].st = LOADING)
  <2>1. CASE requesters'[l] = requesters[l]
    BY <1>4, <2>1 DEF Asking
  <2>2. CASE requesters[l] > 0 /\ requesters'[l] = requesters[l] - 1
    BY <1>1, <2>2 DEF Asking
  <2>3. CASE /\ nbr[l].st = EXCHANGE /\ nbr'[l].st = LOADING
             /\ requesters'[l] = requesters[l] + 1
    <3>1. requesters[l] = 0
      BY <2>3 DEF Asking, EXCHANGE, LOADING
    <3>. QED
      BY <2>3, <3>1
  <2>. QED
    BY <2>1, <2>2, <2>3, NewRequesters, Zenon DEF FirstTime
<1>6. ASSUME NEW x, sendLSReq(l, x) PROVE nbr[l].st = LOADING
  <2>1. requesters[l] > 0
    BY <1>1, <1>6, AskEffect, Zenon
  <2>. QED
    BY <2>1 DEF Asking
<1>7. hist'[l].asked # {} => nbr'[l].st = LOADING
  <2>1. ASSUME hist'[l].asked = hist[l].asked PROVE hist'[l].asked # {} => nbr'[l].st = LOADING
    BY <1>4, <2>1 DEF Asking
  <2>2. ASSUME NEW h \in Current(l), NEW missing \in SUBSET Lsa,
               acceptAsSlave(l, h, missing) \/ acceptLastAck(l, h, missing) \/ acceptAck(l, h, missing)
        PROVE  hist'[l].asked = hist[l].asked
    BY <1>1, <2>2, SlaveEffect, LastAckEffect, AckEffect, Zenon DEF AcceptedDD
  <2>3. ASSUME NEW h \in Current(l),
               negotiateAsSlave(l, h) \/ negotiateAsMaster(l, h) \/ ignoreDD(l, h) \/ discardDD(l, h)
        PROVE  hist'[l].asked = hist[l].asked
    BY <1>1, <2>3, NegotiateEffect, NotedEffect, Zenon
  <2>4. ASSUME SenderThread(l) PROVE hist'[l].asked = hist[l].asked
    BY <1>1, <2>4, SenderEffect, Zenon
  <2>5. Wakes(l) => hist'[l].asked = hist[l].asked
    BY DEF Wakes
  <2>. QED
    BY <1>4, <1>6, <2>1, <2>2, <2>3, <2>4, <2>5, FirstSteps, Zenon DEF FirstStep
<1>8. ASSUME nbr'[l].st = FULL PROVE nbr'[l].reqList = {}
  <2>1. nbr[l].st = FULL \/ nbr[l].st = EXCHANGE
    BY <1>2, <1>3, <1>8 DEF INIT, EXSTART, EXCHANGE, FULL
  <2>2. ASSUME nbr'[l].reqList = nbr[l].reqList, nbr'[l].st = nbr[l].st PROVE nbr'[l].reqList = {}
    BY <1>8, <2>2 DEF Asking
  <2>3. ASSUME NEW h \in Current(l), NEW missing \in SUBSET Lsa,
               acceptAsSlave(l, h, missing) \/ acceptLastAck(l, h, missing) \/ acceptAck(l, h, missing)
        PROVE  nbr'[l].reqList = {}
    <3>1. nbr'[l].st = EXCHANGE \/ Ended(l)
      BY <1>1, <2>3, SlaveEffect, LastAckEffect, AckEffect, Zenon
    <3>. QED
      BY <1>8, <3>1 DEF Ended, EXCHANGE, LOADING, FULL
  <2>4. ASSUME NEW h \in Current(l), negotiateAsSlave(l, h) \/ negotiateAsMaster(l, h) PROVE FALSE
    <3>1. nbr'[l].st = EXCHANGE
      BY <1>1, <2>4, NegotiateEffect, Zenon
    <3>. QED
      BY <1>8, <3>1 DEF EXCHANGE, FULL
  <2>5. ASSUME NEW h \in Current(l), ignoreDD(l, h) \/ discardDD(l, h) PROVE nbr'[l].reqList = {}
    <3>1. nbr'[l].st = nbr[l].st /\ nbr'[l].reqList = nbr[l].reqList
      BY <1>1, <2>5, NotedEffect, Zenon DEF SameCount, SameHeaders
    <3>. QED
      BY <2>2, <3>1
  <2>6. ~Wakes(l)
    BY <1>8 DEF Wakes, INIT, EXSTART, FULL
  <2>7. ASSUME NEW x, sendLSReq(l, x) PROVE FALSE
    BY <1>4, <1>6, <1>8, <2>7 DEF LOADING, FULL
  <2>8. nbr'[l] = nbr[l] => nbr'[l].reqList = {}
    BY <2>2
  <2>. QED
    BY <2>3, <2>4, <2>5, <2>6, <2>7, <2>8, FirstSteps, Zenon DEF FirstStep
<1>. QED
  BY <1>5, <1>7, <1>8

\* It holds of every state.
LEMMA AskingAlways == ASSUME FirstTime PROVE Spec => []Asking
<1>1. Init => Asking
  <2>. SUFFICES ASSUME Init, NEW l \in Link
                PROVE  requesters[l] = 0 /\ hist[l].asked = {} /\ nbr[l].st # FULL
    BY DEF Asking
  <2>1. nbr[l].st = NoNbr
    BY NeighborIsTyped DEF Init
  <2>. QED
    BY <2>1 DEF Init, NoHistory, NoNbr, FULL
<1>2. Known /\ Up /\ Asking /\ [Next]_vars => Asking'
  BY AskingStep
<1>. QED
  BY <1>1, <1>2, KnownAlways, UpAlways, PTL DEF Spec

\* The receive thread has appended its last header before the one sendLSReq thread
\* there is starts on the list: neither corrupts it (PacketManager.cpp:305-317, 577-598).
THEOREM ListIsSafe == ASSUME FirstTime PROVE Spec => []NoListRace
<1>1. Init => NoListRace
  BY DEF Init, NoListRace
<1>2. Known /\ Asking /\ NoListRace /\ [Next]_vars => NoListRace'
  <2>. SUFFICES ASSUME Known, Asking, NoListRace, [Next]_vars PROVE NoListRace'
    OBVIOUS
  <2>1. ASSUME NEW l \in Link, corruptReqList(l) PROVE FALSE
    <3>1. \/ requesters[l] > 0 /\ nbr[l].st = EXCHANGE
          \/ requesters[l] > 1
      BY <2>1, Zenon DEF corruptReqList, Accepts
    <3>. QED
      BY <3>1 DEF Asking, EXCHANGE, LOADING
  <2>2. ASSUME NEW r \in Local PROVE fault'[r] # "list_race"
    BY <2>1, NewFault DEF NoListRace
  <2>. QED
    BY <2>2 DEF NoListRace
<1>. QED
  BY <1>1, <1>2, KnownAlways, AskingAlways, PTL DEF Spec

\* In FULL every LSA the neighbour has described is in the database: nothing was
\* asked for, and nothing is left to be (Neighbor.cpp:114-140).
THEOREM FullIsSynced == ASSUME FirstTime PROVE Spec => []FullMeansSynced
<1>1. Asking /\ NothingForgotten => FullMeansSynced
  <2>. SUFFICES ASSUME Asking, NothingForgotten, NEW l \in Link, nbr[l].st = FULL
                PROVE  hist[l].heard \subseteq Elems(lsdb[l[1]]) \cup {Own[l[1]]}
    BY DEF FullMeansSynced
  <2>1. nbr[l].reqList = {} /\ hist[l].asked = {}
    BY DEF Asking, LOADING, FULL
  <2>2. {x \in Lsa : l[1] \in Local /\ x = Own[l[1]]} \subseteq {Own[l[1]]}
    OBVIOUS
  <2>. QED
    BY <2>1, <2>2 DEF NothingForgotten
<1>. QED
  BY <1>1, AskingAlways, HeadersRemembered, PTL

-----------------------------------------------------------------------------
(* What is registered for a neighbour is the poll it has not answered. *)

\* The registered packets for a neighbour are its one unacknowledged poll.
OnlyPoll ==
  \A l \in Link : \A q \in Scheduled(l) :
    /\ Polling(l) /\ q.id = nbr[l].unAck /\ q.dd.seq = nbr[l].ddNum
    /\ \A k \in Scheduled(l) : k = q

\* Every step keeps it (PacketManager.cpp:354-399).
LEMMA OnlyPollStep ==
  ASSUME Known, FirstTime, Up, OnlyPoll, [Next]_vars
  PROVE  OnlyPoll'
<1>. SUFFICES ASSUME NEW l \in Link, NEW q \in Scheduled(l)'
              PROVE  /\ Polling(l)' /\ q.id = nbr'[l].unAck /\ q.dd.seq = nbr'[l].ddNum
                     /\ \A k \in Scheduled(l)' : k = q
  BY Zenon DEF OnlyPoll
<1>1. IInv /\ Unborn /\ l[1] \in Local /\ DOMAIN packetList = Local /\ nbr[l].ddNum \in Nat
  BY NeighborFields, LinkType DEF Known, IInv, TypeOK
<1>2. Scheduled(l)' = {k \in packetList'[l[1]] : k.dd.to = l[2]}
  BY DEF Scheduled
<1>3. ASSUME NEW h \in Current(l), NEW missing \in SUBSET Lsa,
             acceptLastAck(l, h, missing) \/ acceptAck(l, h, missing)
      PROVE  \A k \in Unregistered(l) : k.dd.to # l[2]
  <2>1. ASSUME NEW k \in Unregistered(l), k.dd.to = l[2] PROVE FALSE
    <3>1. k \in Scheduled(l) /\ k.id # nbr[l].unAck
      BY <2>1 DEF Unregistered, Scheduled
    <3>. QED
      BY <3>1 DEF OnlyPoll
  <2>. QED
    BY <2>1
<1>4. ASSUME NEW h \in Current(l), NEW missing \in SUBSET Lsa, acceptLastAck(l, h, missing)
      PROVE  FALSE
  <2>1. packetList'[l[1]] = Unregistered(l)
    BY <1>1, <1>4, LastAckEffect
  <2>. QED
    BY <1>2, <1>3, <1>4, <2>1
<1>5. ASSUME NEW h \in Current(l), NEW missing \in SUBSET Lsa, acceptAck(l, h, missing)
      PROVE  /\ Polling(l)' /\ q.id = nbr'[l].unAck /\ q.dd.seq = nbr'[l].ddNum
             /\ \A k \in Scheduled(l)' : k = q
  <2>1. PICK new : new = [id |-> currentId[l[1]], dd |-> NextPoll(l)]
    OBVIOUS
  <2>2. /\ packetList' = [packetList EXCEPT ![l[1]] = Unregistered(l) \cup {new}]
        /\ nbr'[l].st = EXCHANGE /\ nbr'[l].ddNum = nbr[l].ddNum + 1
        /\ nbr'[l].unAck = currentId[l[1]] /\ nbr'[l].isMaster = nbr[l].isMaster /\ ~nbr[l].isMaster
    BY <1>1, <1>5, <2>1, AckEffect, Zenon DEF AcceptedDD
  <2>3. packetList'[l[1]] = Unregistered(l) \cup {new}
    BY <1>1, <2>2
  <2>4. \A k \in Scheduled(l)' : k = new
    BY <1>2, <1>3, <1>5, <2>3
  <2>5. new.id = currentId[l[1]] /\ new.dd.seq = nbr[l].ddNum + 1
    BY <2>1 DEF NextPoll, DD
  <2>6. Polling(l)'
    BY <1>1, <2>2 DEF Polling
  <2>. QED
    BY <2>2, <2>4, <2>5, <2>6
<1>6. ASSUME ~ \E h \in Current(l) : \E missing \in SUBSET Lsa : acceptAck(l, h, missing)
      PROVE  Scheduled(l)' \subseteq Scheduled(l)
  <2>1. ASSUME NEW k \in packetList'[l[1]], k.dd.to = l[2] PROVE k \in packetList[l[1]]
    <3>1. ASSUME NEW j \in Link, NEW h \in Current(j), NEW missing \in SUBSET Lsa, j[1] = l[1],
                 acceptAck(j, h, missing), k = [id |-> currentId[l[1]], dd |-> NextPoll(j)]
          PROVE  FALSE
      <4>1. k.dd.to = j[2]
        BY <3>1 DEF NextPoll, DD
      <4>2. j = l
        BY <2>1, <3>1, <4>1, SameEnds
      <4>. QED
        BY <1>6, <3>1, <4>2
    <3>. QED
      BY <1>1, <3>1, NewScheduled
  <2>. QED
    BY <1>2, <2>1 DEF Scheduled
<1>7. ASSUME NEW m, m.st = nbr[l].st, m.isMaster = nbr[l].isMaster, m.ddNum = nbr[l].ddNum,
             m.unAck = nbr[l].unAck, nbr'[l] = m, Scheduled(l)' \subseteq Scheduled(l)
      PROVE  /\ Polling(l)' /\ q.id = nbr'[l].unAck /\ q.dd.seq = nbr'[l].ddNum
             /\ \A k \in Scheduled(l)' : k = q
  <2>1. q \in Scheduled(l)
    BY <1>7
  <2>2. Polling(l) /\ q.id = nbr[l].unAck /\ q.dd.seq = nbr[l].ddNum /\ \A k \in Scheduled(l) : k = q
    BY <2>1 DEF OnlyPoll
  <2>3. Polling(l)'
    BY <1>7, <2>2 DEF Polling
  <2>. QED
    BY <1>7, <2>2, <2>3
<1>8. ASSUME Scheduled(l)' \subseteq Scheduled(l) PROVE Polling(l)
  BY <1>8 DEF OnlyPoll
<1>9. ASSUME Scheduled(l)' \subseteq Scheduled(l)
      PROVE  \/ nbr'[l].st = nbr[l].st /\ nbr'[l].isMaster = nbr[l].isMaster
                /\ nbr'[l].ddNum = nbr[l].ddNum /\ nbr'[l].unAck = nbr[l].unAck
             \/ \E h \in Current(l) : \E missing \in SUBSET Lsa :
                  acceptLastAck(l, h, missing) \/ acceptAck(l, h, missing)
  <2>1. nbr[l].st = EXCHANGE /\ ~nbr[l].isMaster
    BY <1>8, <1>9 DEF Polling
  <2>2. ~Wakes(l)
    BY <2>1 DEF Wakes, NoNbr, INIT, EXCHANGE
  <2>3. ASSUME NEW h \in Current(l), negotiateAsSlave(l, h) \/ negotiateAsMaster(l, h) PROVE FALSE
    BY <2>1, <2>3 DEF negotiateAsSlave, negotiateAsMaster, EXSTART, EXCHANGE
  <2>4. ASSUME NEW h \in Current(l), ignoreDD(l, h) \/ discardDD(l, h)
        PROVE  nbr'[l].st = nbr[l].st /\ nbr'[l].isMaster = nbr[l].isMaster
               /\ nbr'[l].ddNum = nbr[l].ddNum /\ nbr'[l].unAck = nbr[l].unAck
    BY <1>1, <2>4, NotedEffect, Zenon DEF SameCount
  <2>5. ASSUME NEW h \in Current(l), NEW missing \in SUBSET Lsa, acceptAsSlave(l, h, missing) PROVE FALSE
    BY <2>1, <2>5, Zenon DEF acceptAsSlave
  <2>6. ASSUME NEW x, sendLSReq(l, x)
        PROVE  nbr'[l].st = nbr[l].st /\ nbr'[l].isMaster = nbr[l].isMaster
               /\ nbr'[l].ddNum = nbr[l].ddNum /\ nbr'[l].unAck = nbr[l].unAck
    BY <1>1, <2>6, AskEffect, Zenon
  <2>. QED
    BY <2>2, <2>3, <2>4, <2>5, <2>6, FirstSteps, Zenon DEF FirstStep
<1>. QED
  BY <1>4, <1>5, <1>6, <1>7, <1>9

\* It holds of every state.
LEMMA OnlyPollAlways == ASSUME FirstTime PROVE Spec => []OnlyPoll
<1>1. Init => OnlyPoll
  BY LinkType DEF Init, OnlyPoll, Scheduled
<1>2. Known /\ Up /\ OnlyPoll /\ [Next]_vars => OnlyPoll'
  BY OnlyPollStep
<1>. QED
  BY <1>1, <1>2, KnownAlways, UpAlways, PTL DEF Spec

\* The retransmitter holds nothing for a neighbour but the poll it has not answered,
\* and nothing once the exchange has ended (PacketManager.cpp:354-399).
THEOREM NothingLeftOver == ASSUME FirstTime PROVE Spec => []NoLeftoverPoll
<1>1. OnlyPoll => NoLeftoverPoll
  BY DEF OnlyPoll, NoLeftoverPoll, Polling
<1>. QED
  BY <1>1, OnlyPollAlways, PTL

-----------------------------------------------------------------------------
(* The first packet of an exchange, and lockstep. *)

\* The receive thread of l[1] is inside the handler with a DD of l[2].
Busy(l) == handling[l[1]] # NoPacket /\ handling[l[1]].dd.from = l[2]

\* A step of the DD handler of l[1] with a packet of l[2], but for its two ends.
DDStep(l, h) ==
  \/ wakeDD(l, h) \/ negotiateAsSlave(l, h) \/ negotiateAsMaster(l, h)
  \/ ignoreDD(l, h) \/ discardDD(l, h)
  \/ \E missing \in SUBSET Lsa :
       acceptAsSlave(l, h, missing) \/ acceptLastAck(l, h, missing) \/ acceptAck(l, h, missing)

\* Any other step, for l.
Aside(l) ==
  /\ Busy(l)' <=> Busy(l)
  /\ Busy(l) => handling'[l[1]] = handling[l[1]]
  /\ \/ nbr'[l] = nbr[l] /\ (hist'[l] = hist[l] \/ SenderThread(l))
     \/ ~Busy(l) /\ Wakes(l)
     \/ \E x \in nbr[l].reqList : sendLSReq(l, x)

\* Two Neighbor objects do not change in one step.
OneMoves == \A k, l \in Link : k # l => nbr'[k] = nbr[k] \/ nbr'[l] = nbr[l]

\* A handler's step leaves the other neighbours' packets alone.
LEMMA DDStepAside ==
  ASSUME Known, FirstTime, NEW k \in Link, NEW h \in Current(k), DDStep(k, h), NEW l \in Link, k # l
  PROVE  Aside(l) /\ OnlyLink(k)
<1>1. IInv /\ DOMAIN handling = Local /\ k[1] \in Local
  BY LinkType DEF Known, IInv, TypeOK
<1>2. OnlyLink(k) /\ \E g : /\ handling' = [handling EXCEPT ![k[1]] = g]
                            /\ g = NoPacket \/ g = h \/ g = [h EXCEPT !.seq = @ + 1]
  <2>1. ASSUME NEW missing \in SUBSET Lsa,
               acceptAsSlave(k, h, missing) \/ acceptLastAck(k, h, missing) \/ acceptAck(k, h, missing)
        PROVE  OnlyLink(k) /\ handling' = [handling EXCEPT ![k[1]] = NoPacket]
    BY <1>1, <2>1, SlaveEffect, LastAckEffect, AckEffect, Zenon DEF AcceptedDD
  <2>2. ASSUME wakeDD(k, h) PROVE OnlyLink(k) /\ handling' = [handling EXCEPT ![k[1]] = h]
    BY <1>1, <2>2, WakeEffect, Zenon
  <2>3. ASSUME ignoreDD(k, h) \/ discardDD(k, h)
        PROVE  OnlyLink(k) /\ handling' = [handling EXCEPT ![k[1]] = NoPacket]
    BY <1>1, <2>3, NotedEffect, Zenon
  <2>4. ASSUME negotiateAsSlave(k, h) \/ negotiateAsMaster(k, h)
        PROVE  OnlyLink(k) /\ \E g : /\ handling' = [handling EXCEPT ![k[1]] = g]
                                     /\ g = h \/ g = [h EXCEPT !.seq = @ + 1]
    BY <1>1, <2>4, NegotiateEffect, Zenon
  <2>. QED
    BY <2>1, <2>2, <2>3, <2>4, Zenon DEF DDStep
<1>3. nbr'[l] = nbr[l] /\ hist'[l] = hist[l]
  BY <1>2 DEF OnlyLink
<1>4. CASE k[1] # l[1]
  <2>1. handling'[l[1]] = handling[l[1]]
    BY <1>1, <1>2, <1>4
  <2>. QED
    BY <1>2, <1>3, <2>1, Zenon DEF Aside, Busy
<1>5. CASE k[1] = l[1]
  <2>1. k[2] # l[2]
    BY <1>5, SameEnds
  <2>2. h.dd.from = k[2] /\ (handling[k[1]] # NoPacket => h = handling[k[1]])
    BY CurrentUnderway
  <2>3. h \in Handled
    BY CurrentType DEF Known, IInv
  <2>4. ~Busy(l)
    BY <1>5, <2>1, <2>2 DEF Busy
  <2>5. handling'[l[1]] = NoPacket \/ handling'[l[1]].dd = h.dd
    BY <1>1, <1>2, <1>5, <2>3 DEF Handled
  <2>6. ~Busy(l)'
    BY <2>1, <2>2, <2>5 DEF Busy
  <2>. QED
    BY <1>2, <1>3, <2>4, <2>6, Zenon DEF Aside
<1>. QED
  BY <1>4, <1>5

\* Every step is one of the handler with a packet of l[2], or another.
LEMMA BusySteps ==
  ASSUME Known, FirstTime, Up, [Next]_vars
  PROVE  /\ OneMoves
         /\ \A l \in Link : Aside(l) \/ \E h \in Current(l) : DDStep(l, h)
<1>1. IInv /\ Unborn
  BY DEF Known
<1>2. ASSUME NEW k \in Link, OnlyLink(k) PROVE OneMoves
  BY <1>2 DEF OnlyLink, OneMoves
<1>3. ASSUME UNCHANGED nbr PROVE OneMoves
  BY <1>3 DEF OneMoves
<1>4. ASSUME UNCHANGED handling, NEW l \in Link,
             nbr'[l] = nbr[l], hist'[l] = hist[l] \/ SenderThread(l)
      PROVE  Aside(l)
  BY <1>4, Zenon DEF Aside, Busy
<1>5. ASSUME NEW k \in Link, NEW h \in Current(k),
             \/ wakeDD(k, h) \/ negotiateAsSlave(k, h) \/ negotiateAsMaster(k, h)
             \/ ignoreDD(k, h) \/ discardDD(k, h) \/ AcceptStep(k, h)
      PROVE  /\ OneMoves
             /\ \A l \in Link : Aside(l) \/ \E g \in Current(l) : DDStep(l, g)
  <2>1. DDStep(k, h)
    BY <1>1, <1>5, AcceptTyped, Zenon DEF DDStep
  <2>2. PICK l \in Link : l # k
    BY Opposite
  <2>3. OnlyLink(k)
    BY <2>1, <2>2, DDStepAside
  <2>4. OneMoves
    BY <1>2, <2>3, Zenon
  <2>. QED
    BY <2>1, <2>4, DDStepAside, Zenon
<1>6. ASSUME NEW k \in Link, NEW twoWay \in BOOLEAN, Hears(k, twoWay), recvHello(k, twoWay)
      PROVE  /\ OneMoves
             /\ \A l \in Link : Aside(l) \/ \E g \in Current(l) : DDStep(l, g)
  <2>1. OnlyLink(k) /\ UNCHANGED handling /\ hist' = hist /\ handling[k[1]] = NoPacket
    BY <1>1, <1>6, HelloEffect, Zenon
  <2>2. OneMoves
    BY <1>2, <2>1, Zenon
  <2>3. ASSUME NEW l \in Link PROVE Aside(l)
    <3>1. CASE l # k
      <4>1. nbr'[l] = nbr[l] /\ hist'[l] = hist[l]
        BY <2>1, <3>1 DEF OnlyLink
      <4>. QED
        BY <1>4, <2>1, <4>1
    <3>2. CASE l = k
      <4>1. ~Busy(l) /\ ~Busy(l)'
        BY <2>1, <3>2 DEF Busy
      <4>3. hist'[l] = hist[l]
        BY <2>1
      <4>4. nbr'[l] = nbr[l] \/ Wakes(l) \/ (nbr[l].st >= TWOWAY /\ nbr'[l].st = INIT)
        <5>1. \/ /\ nbr[l].st \in {NoNbr, INIT}
                 /\ nbr'[l].st = EXSTART
              \/ /\ (nbr[l].st = NoNbr \/ nbr[l].st >= TWOWAY)
                 /\ nbr'[l].st = INIT
              \/ nbr'[l] = nbr[l]
          BY <1>1, <1>6, <3>2, HelloEffect, Zenon
        <5>2. \/ nbr'[l].st = nbr[l].st
              \/ Wakes(l)
              \/ nbr[l].st = EXSTART /\ nbr'[l].st = EXCHANGE
              \/ nbr[l].st = EXCHANGE /\ nbr'[l].st \in {LOADING, FULL}
          BY Rises
        <5>. QED
          BY <5>1, <5>2 DEF NoNbr, INIT, EXSTART, EXCHANGE, LOADING, FULL, TWOWAY
      <4>5. ~(nbr[l].st >= TWOWAY /\ nbr'[l].st = INIT)
        <5>1. nbr'[l].st >= nbr[l].st /\ nbr[l].st \in Int
          BY Rises
        <5>. QED
          BY <5>1 DEF TWOWAY, INIT
      <4>. QED
        BY <4>1, <4>3, <4>4, <4>5, Zenon DEF Aside
    <3>. QED
      BY <3>1, <3>2
  <2>. QED
    BY <2>2, <2>3
<1>7. ASSUME NEW k \in Link, NEW x \in Updates(k), recvLSUpdate(k, x)
      PROVE  UNCHANGED <<nbr, hist, handling>>
  BY <1>1, <1>7, UpdateEffect, Zenon
<1>8. ASSUME NEW k \in Link, SenderThread(k)
      PROVE  /\ OneMoves
             /\ \A l \in Link : Aside(l) \/ \E g \in Current(l) : DDStep(l, g)
  <2>1. UNCHANGED <<nbr, handling>> /\ \A l \in Link : l # k => hist'[l] = hist[l]
    BY <1>1, <1>8, SenderEffect, Zenon
  <2>. QED
    BY <1>3, <1>4, <1>8, <2>1
<1>9. ASSUME NEW k \in Link, NEW x \in nbr[k].reqList, sendLSReq(k, x)
      PROVE  /\ OneMoves
             /\ \A l \in Link : Aside(l) \/ \E g \in Current(l) : DDStep(l, g)
  <2>1. OnlyLink(k) /\ UNCHANGED handling
    BY <1>1, <1>9, AskEffect, Zenon
  <2>2. OneMoves
    BY <1>2, <2>1, Zenon
  <2>3. ASSUME NEW l \in Link PROVE Aside(l)
    <3>1. CASE l = k
      BY <1>9, <2>1, <3>1, Zenon DEF Aside, Busy
    <3>2. CASE l # k
      BY <1>4, <2>1, <3>2 DEF OnlyLink
    <3>. QED
      BY <3>1, <3>2
  <2>. QED
    BY <2>2, <2>3
<1>10. ASSUME NEW r \in Local, lsaGenerateRemove(r) \/ lsaGenerateInsert(r)
       PROVE  UNCHANGED <<nbr, hist, handling>>
  BY <1>1, <1>10, GenerateEffect, Zenon
<1>11. OtherStep => UNCHANGED <<nbr, hist, handling>>
  BY OtherEffect, Zenon
<1>12. ASSUME UNCHANGED <<nbr, hist, handling>>
       PROVE  /\ OneMoves
              /\ \A l \in Link : Aside(l) \/ \E g \in Current(l) : DDStep(l, g)
  BY <1>3, <1>4, <1>12
<1>13. ~ \E r \in Restarting : Restart(r)
  BY DEF FirstTime
<1>. QED
  BY <1>5, <1>6, <1>7, <1>8, <1>9, <1>10, <1>11, <1>12, <1>13, StepCases, Zenon

\* l[1] is the slave.
Replies(l) == l[2] > l[1]

\* An object whose exchange has not begun.
Untold(l) ==
  /\ nbr[l].ddNum = 0 /\ nbr[l].summary = << >> /\ nbr[l].lastDD = EmptyDD(l)
  /\ hist[l].heard = {} /\ hist[l].told = {}

\* The exchange has begun, and its first packet is not accepted yet.
Beginning(l) == nbr[l].st = EXCHANGE /\ (IF Replies(l) THEN ~nbr[l].lastDD.body ELSE nbr[l].ddNum = 0)

\* The handler goes on with the packet that has begun the exchange.
Opened(l) ==
  /\ Busy(l) /\ handling[l[1]].dd.seq = 0
  /\ nbr[l].ddNum = 0 /\ nbr[l].lastDD = EmptyDD(l) /\ hist[l].heard = {} /\ hist[l].told = {}
  /\ IF Replies(l) THEN handling[l[1]].seq = 1 /\ handling[l[1]].dd.m
                   ELSE handling[l[1]].seq = 0 /\ ~handling[l[1]].dd.i

\* How an exchange starts, for one link.
Start(l) ==
  /\ nbr[l].st < EXCHANGE => Untold(l)
  /\ Beginning(l) => Opened(l)
  /\ Busy(l) => handling[l[1]].seq = handling[l[1]].dd.seq \/ (Replies(l) /\ Beginning(l))
  /\ ~Replies(l) => nbr[l].lastDD = EmptyDD(l)

\* Reversed, the bytes of a sequence number other than zero are a number that no
\* poll reaches.
Huge == 16777216

\* The sequence numbers of an exchange of this code.
Small == 0..127

\* What was sent has the sender's number or a lower one, or reversed bytes.
Numbered(l) ==
  /\ nbr[l].lastDD.seq <= nbr[l].ddNum
  /\ \A p : Underway(l, p) => p.seq <= nbr[l].ddNum \/ (p.seq >= Huge /\ nbr[l].st >= EXCHANGE)

\* A master l and its slave.
InStep(l) ==
  /\ nbr[l].st >= EXCHANGE => nbr[Reverse(l)].st >= EXCHANGE
  /\ nbr[Reverse(l)].ddNum = nbr[l].ddNum - 1 \/ nbr[Reverse(l)].ddNum = nbr[l].ddNum
  /\ nbr[l].ddNum <= MaxDd \/ (nbr[l].ddNum = MaxDd + 1 /\ nbr[l].st >= LOADING)

Paired ==
  /\ \A l \in Link : Start(l) /\ Numbered(l)
  /\ \A l \in Link : ~Replies(l) => InStep(l)

\* The bytes of a small number are reversed into zero, or a huge number
\* (PacketManager.cpp:567).
LEMMA SmallSwapped ==
  ASSUME NEW n \in Small
  PROVE  SwapBytes(n) = n * Huge /\ (n = 0 => SwapBytes(n) = 0) /\ (n # 0 => SwapBytes(n) >= Huge)
<1>1. n % 256 = n /\ n \div 256 = 0 /\ n \div 65536 = 0 /\ n \div 16777216 = 0
  BY SMT DEF Small
<1>. QED
  BY <1>1, SMT DEF SwapBytes, Huge, Small

\* The numbers of a link are small, and those of its ends are close.
LEMMA SmallNumbers ==
  ASSUME Known, FirstTime, Paired, NEW l \in Link
  PROVE  /\ nbr[l].ddNum \in Small /\ nbr[l].ddNum + 1 < Huge
         /\ nbr[Reverse(l)].ddNum \in Small /\ nbr[l].st \in Int
         /\ nbr[l].st = EXCHANGE /\ ~Replies(l) => nbr[l].ddNum <= MaxDd
         /\ Replies(Reverse(l)) <=> ~Replies(l)
         /\ IF Replies(l) THEN nbr[l].ddNum <= nbr[Reverse(l)].ddNum /\ nbr[Reverse(l)].ddNum <= nbr[l].ddNum + 1
                          ELSE nbr[Reverse(l)].ddNum <= nbr[l].ddNum /\ nbr[l].ddNum <= nbr[Reverse(l)].ddNum + 1
<1>1. \A k \in Link : nbr[k].ddNum \in Nat /\ nbr[k].st \in Int
  BY NeighborFields DEF Known
<1>2. PICK k \in Link : /\ k = Reverse(l) /\ Reverse(k) = l /\ k[1] = l[2] /\ k[2] = l[1]
                        /\ l[1] \in Local /\ l[2] \in Local /\ l[1] # l[2]
  BY Opposite
<1>3. Replies(k) <=> ~Replies(l)
  <2>1. l[1] \in Nat /\ l[2] \in Nat
    BY LinkType
  <2>. QED
    BY <1>2, <2>1 DEF Replies
<1>4. MaxDd \in 0..126
  BY BoundAssumption
<1>5. CASE ~Replies(l)
  <2>1. InStep(l)
    BY <1>5 DEF Paired
  <2>2. nbr[l].st = EXCHANGE => nbr[l].ddNum <= MaxDd
    BY <2>1 DEF InStep, EXCHANGE, LOADING
  <2>. QED
    BY <1>1, <1>2, <1>3, <1>4, <1>5, <2>1, <2>2, SMT DEF InStep, Huge, Small
<1>6. CASE Replies(l)
  <2>1. InStep(k)
    BY <1>3, <1>6 DEF Paired
  <2>. QED
    BY <1>1, <1>2, <1>3, <1>4, <1>6, <2>1, SMT DEF InStep, Huge, Small
<1>. QED
  BY <1>5, <1>6

\* The handler's sequence number is the packet's, but for the slave's first packet.
LEMMA CurrentSeq ==
  ASSUME Known, FirstTime, Paired, NEW l \in Link, NEW h \in Current(l)
  PROVE  /\ h.seq = h.dd.seq \/ (Replies(l) /\ Beginning(l))
         /\ Beginning(l) => h = handling[l[1]] /\ Opened(l)
         /\ h.dd.seq \in Nat
         /\ h.dd.seq <= nbr[Reverse(l)].ddNum \/ h.dd.seq >= Huge
         /\ h.dd.seq > nbr[Reverse(l)].ddNum => nbr[Reverse(l)].st >= EXCHANGE
<1>1. /\ Underway(Reverse(l), h.dd) /\ h.dd.from = l[2] /\ Reverse(l) \in Link
      /\ handling[l[1]] # NoPacket => h = handling[l[1]]
      /\ handling[l[1]] = NoPacket => h.seq = h.dd.seq
  BY CurrentUnderway, Opposite
<1>2. h.dd.seq \in Nat /\ nbr[Reverse(l)].ddNum \in Nat
  BY <1>1, CurrentType, NeighborFields DEF Known, IInv
<1>3. Start(l) /\ Numbered(Reverse(l))
  BY <1>1 DEF Paired
<1>4. h.dd.seq <= nbr[Reverse(l)].ddNum \/ (h.dd.seq >= Huge /\ nbr[Reverse(l)].st >= EXCHANGE)
  BY <1>1, <1>3 DEF Numbered
<1>5. h.seq = h.dd.seq \/ (Replies(l) /\ Beginning(l))
  BY <1>1, <1>3 DEF Start, Busy
<1>6. Beginning(l) => h = handling[l[1]] /\ Opened(l)
  BY <1>1, <1>3 DEF Start, Opened, Busy
<1>. QED
  BY <1>2, <1>4, <1>5, <1>6

\* The roles of an exchange are those of the ids.
LEMMA RoleOf ==
  ASSUME IInv, NEW l \in Link, nbr[l].st >= EXCHANGE
  PROVE  nbr[l].isMaster <=> Replies(l)
  BY DEF IInv, RolesOpposed, Replies

\* A slave accepts the packet that has begun the exchange, and then the polls that
\* follow each other (PacketManager.cpp:276-281).
LEMMA SlaveAccepts ==
  ASSUME Known, FirstTime, Paired, NEW l \in Link, NEW h \in Current(l), Accepts(l, h), Replies(l)
  PROVE  \/ /\ Beginning(l) /\ Opened(l) /\ h = handling[l[1]] /\ h.dd.seq = 0 /\ h.dd.m
            /\ nbr[l].ddNum = 0
         \/ /\ ~Beginning(l) /\ h.dd.seq = nbr[l].ddNum + 1
            /\ nbr[Reverse(l)].ddNum = nbr[l].ddNum + 1
<1>1. nbr[l].st = EXCHANGE /\ nbr[l].isMaster /\ h.seq = nbr[l].ddNum + 1
  <2>1. nbr[l].st = EXCHANGE /\ h.seq = nbr[l].ddNum + (IF nbr[l].isMaster THEN 1 ELSE 0)
    BY DEF Accepts
  <2>2. nbr[l].isMaster
    BY <2>1, RoleOf DEF Known, EXCHANGE
  <2>. QED
    BY <2>1, <2>2
<1>2. CASE Beginning(l)
  BY <1>2, CurrentSeq DEF Opened
<1>3. CASE ~Beginning(l)
  <2>1. h.dd.seq = nbr[l].ddNum + 1
    BY <1>1, <1>3, CurrentSeq
  <2>2. /\ nbr[l].ddNum \in Small /\ nbr[Reverse(l)].ddNum \in Small
        /\ nbr[Reverse(l)].ddNum <= nbr[l].ddNum + 1
        /\ h.dd.seq \in Nat /\ (h.dd.seq <= nbr[Reverse(l)].ddNum \/ h.dd.seq >= Huge)
    BY CurrentSeq, SmallNumbers, Zenon
  <2>3. nbr[Reverse(l)].ddNum = nbr[l].ddNum + 1
    BY <2>1, <2>2, SMT DEF Huge, Small
  <2>. QED
    BY <1>3, <2>1, <2>3
<1>. QED
  BY <1>2, <1>3

\* A master accepts the replies to its polls in turn (PacketManager.cpp:276-281).
LEMMA MasterAccepts ==
  ASSUME Known, FirstTime, Paired, NEW l \in Link, NEW h \in Current(l), Accepts(l, h), ~Replies(l)
  PROVE  /\ h.dd.seq = nbr[l].ddNum /\ nbr[Reverse(l)].ddNum = nbr[l].ddNum
         /\ nbr[l].ddNum = 0 => ~h.dd.i
<1>1. nbr[l].st = EXCHANGE /\ h.seq = nbr[l].ddNum
  <2>1. nbr[l].st = EXCHANGE /\ h.seq = nbr[l].ddNum + (IF nbr[l].isMaster THEN 1 ELSE 0)
    BY DEF Accepts
  <2>2. ~nbr[l].isMaster
    BY <2>1, RoleOf DEF Known, EXCHANGE
  <2>3. nbr[l].ddNum \in Int
    BY NeighborFields DEF Known
  <2>. QED
    BY <2>1, <2>2, <2>3
<1>2. h.dd.seq = nbr[l].ddNum
  BY <1>1, CurrentSeq
<1>3. nbr[Reverse(l)].ddNum = nbr[l].ddNum
  <2>1. /\ nbr[l].ddNum \in Small /\ nbr[Reverse(l)].ddNum \in Small
        /\ nbr[Reverse(l)].ddNum <= nbr[l].ddNum
        /\ h.dd.seq \in Nat /\ (h.dd.seq <= nbr[Reverse(l)].ddNum \/ h.dd.seq >= Huge)
    BY CurrentSeq, SmallNumbers, Zenon
  <2>. QED
    BY <1>2, <2>1, SMT DEF Huge, Small
<1>4. nbr[l].ddNum = 0 => ~h.dd.i
  BY <1>1, CurrentSeq DEF Beginning, Opened
<1>. QED
  BY <1>2, <1>3, <1>4

\* A slave's exchange begins with an opening, a master's with a reply, and both
\* with sequence number 0 (PacketManager.cpp:262-274).
LEMMA Negotiates ==
  ASSUME Known, FirstTime, Up, Paired, NEW l \in Link, NEW h \in Current(l)
  PROVE  /\ negotiateAsSlave(l, h) =>
              /\ Replies(l) /\ h.dd.m /\ Untold(l) /\ h.dd.seq = 0 /\ h.seq = 0
              /\ nbr[Reverse(l)].ddNum = 0
         /\ negotiateAsMaster(l, h) =>
              /\ ~Replies(l) /\ ~h.dd.i /\ Untold(l) /\ h.dd.seq = 0 /\ h.seq = 0
              /\ nbr[Reverse(l)].st >= EXCHANGE
<1>1. PICK k \in Link : k = Reverse(l) /\ Reverse(k) = l /\ k[1] = l[2] /\ k[2] = l[1] /\ Underway(k, h.dd)
  BY CurrentUnderway, Opposite
<1>2. ASSUME nbr[l].st = EXSTART PROVE Untold(l) /\ h.seq = h.dd.seq
  <2>1. ~Beginning(l) /\ nbr[l].st < EXCHANGE
    BY <1>2 DEF Beginning, EXSTART, EXCHANGE
  <2>2. Start(l)
    BY DEF Paired
  <2>. QED
    BY <2>1, <2>2, CurrentSeq DEF Start
<1>3. ASSUME negotiateAsSlave(l, h)
      PROVE  Replies(l) /\ h.dd.m /\ Untold(l) /\ h.dd.seq = 0 /\ h.seq = 0 /\ nbr[k].ddNum = 0
  <2>1. nbr[l].st = EXSTART /\ PeerLeads(l, h.dd)
    BY <1>3, Zenon DEF negotiateAsSlave
  <2>2. Replies(l) /\ h.dd.m
    BY <2>1 DEF PeerLeads, Replies
  <2>3. ~Replies(k)
    BY <1>1, <2>2, SmallNumbers
  <2>4. InStep(k) /\ Start(k)
    BY <2>3 DEF Paired
  <2>5. ~(nbr[k].st >= EXCHANGE)
    BY <1>1, <2>1, <2>4 DEF InStep, EXSTART, EXCHANGE
  <2>6. nbr[k].ddNum = 0
    <3>1. nbr[k].st \in Int
      BY NeighborFields DEF Known
    <3>2. nbr[k].st < EXCHANGE
      BY <2>5, <3>1 DEF EXCHANGE
    <3>. QED
      BY <2>4, <3>2, Zenon DEF Start, Untold
  <2>7. h.dd.seq \in Nat /\ ~(h.dd.seq > 0)
    BY <1>1, <2>5, <2>6, CurrentSeq, Zenon
  <2>. QED
    BY <1>2, <2>1, <2>2, <2>6, <2>7
<1>4. ASSUME negotiateAsMaster(l, h)
      PROVE  ~Replies(l) /\ ~h.dd.i /\ Untold(l) /\ h.dd.seq = 0 /\ h.seq = 0 /\ nbr[k].st >= EXCHANGE
  <2>1. nbr[l].st = EXSTART /\ PeerFollows(l, h.dd)
    BY <1>4, Zenon DEF negotiateAsMaster
  <2>2. l[1] \in Nat /\ l[2] \in Nat
    BY LinkType
  <2>3. ~Replies(l) /\ ~h.dd.i /\ h.dd.seq = nbr[l].ddNum
    BY <2>1, <2>2 DEF PeerFollows, Replies
  <2>4. nbr[k].st >= EXCHANGE
    BY <1>1, <2>3 DEF Up
  <2>. QED
    BY <1>2, <2>1, <2>3, <2>4 DEF Untold
<1>. QED
  BY <1>1, <1>3, <1>4, Zenon

\* How a sequence number changes: a slave catches up with its master, a master
\* goes on when its slave has caught up, and beyond MaxDd only at the end.
CountStep(l) ==
  \/ nbr'[l].ddNum = nbr[l].ddNum
  \/ /\ nbr'[l].ddNum = nbr[l].ddNum + 1 /\ nbr[l].st = EXCHANGE
     /\ IF Replies(l) THEN nbr[Reverse(l)].ddNum = nbr[l].ddNum + 1
                      ELSE /\ nbr[Reverse(l)].ddNum = nbr[l].ddNum
                           /\ nbr[l].ddNum < MaxDd \/ nbr'[l].st >= LOADING

\* A slave's step (PacketManager.cpp:319-352).
LEMMA SlaveCounts ==
  ASSUME Known, FirstTime, Paired, NEW l \in Link, NEW h \in Current(l), NEW missing \in SUBSET Lsa,
         acceptAsSlave(l, h, missing)
  PROVE  /\ Replies(l) /\ Accepts(l, h) /\ nbr[l].st = EXCHANGE /\ CountStep(l)
         /\ nbr'[l].ddNum = h.dd.seq /\ nbr'[l].st >= EXCHANGE
<1>1. IInv
  BY DEF Known
<1>2. /\ AcceptedDD(l, h, missing) /\ nbr[l].isMaster /\ nbr'[l].ddNum = h.dd.seq
      /\ nbr'[l].st = EXCHANGE \/ Ended(l)
  BY <1>1, SlaveEffect, Zenon
<1>3. Accepts(l, h) /\ nbr[l].st = EXCHANGE
  BY <1>2, Zenon DEF AcceptedDD, Accepts
<1>4. Replies(l)
  BY <1>1, <1>2, <1>3, RoleOf DEF EXCHANGE
<1>5. nbr'[l].st >= EXCHANGE
  BY <1>2 DEF Ended, EXCHANGE, LOADING, FULL
<1>6. \/ h.dd.seq = 0 /\ nbr[l].ddNum = 0
      \/ h.dd.seq = nbr[l].ddNum + 1 /\ nbr[Reverse(l)].ddNum = nbr[l].ddNum + 1
  BY <1>3, <1>4, SlaveAccepts
<1>. QED
  BY <1>2, <1>3, <1>4, <1>5, <1>6 DEF CountStep

\* A master's step (PacketManager.cpp:354-399).
LEMMA MasterCounts ==
  ASSUME Known, FirstTime, Paired, NEW l \in Link, NEW h \in Current(l), NEW missing \in SUBSET Lsa,
         acceptLastAck(l, h, missing) \/ acceptAck(l, h, missing)
  PROVE  /\ ~Replies(l) /\ Accepts(l, h) /\ nbr[l].st = EXCHANGE /\ CountStep(l)
         /\ nbr'[l].ddNum = nbr[l].ddNum + 1 /\ nbr'[l].st >= EXCHANGE
<1>1. IInv
  BY DEF Known
<1>2. /\ AcceptedDD(l, h, missing) /\ ~nbr[l].isMaster /\ nbr'[l].ddNum = nbr[l].ddNum + 1
      /\ (nbr'[l].st = EXCHANGE /\ nbr[l].ddNum < MaxDd) \/ Ended(l)
  BY <1>1, LastAckEffect, AckEffect, Zenon
<1>3. Accepts(l, h) /\ nbr[l].st = EXCHANGE
  BY <1>2, Zenon DEF AcceptedDD, Accepts
<1>4. ~Replies(l)
  BY <1>1, <1>2, <1>3, RoleOf DEF EXCHANGE
<1>5. nbr'[l].st >= EXCHANGE /\ (nbr[l].ddNum < MaxDd \/ nbr'[l].st >= LOADING)
  BY <1>2 DEF Ended, EXCHANGE, LOADING, FULL
<1>6. nbr[Reverse(l)].ddNum = nbr[l].ddNum
  BY <1>3, <1>4, MasterAccepts
<1>. QED
  BY <1>2, <1>3, <1>4, <1>5, <1>6 DEF CountStep

\* Every step counts so.
LEMMA Counts ==
  ASSUME Known, FirstTime, Up, Paired, [Next]_vars, NEW l \in Link
  PROVE  CountStep(l)
<1>1. IInv
  BY DEF Known
<1>2. ASSUME nbr'[l].ddNum = nbr[l].ddNum PROVE CountStep(l)
  BY <1>2 DEF CountStep
<1>3. ASSUME nbr[l].st \in {NoNbr, INIT} PROVE nbr[l].ddNum = 0
  <2>1. nbr[l].st < EXCHANGE
    BY <1>3 DEF NoNbr, INIT, EXCHANGE
  <2>. QED
    BY <2>1 DEF Paired, Start, Untold
<1>4. CASE Aside(l)
  <2>1. ASSUME Wakes(l) PROVE nbr'[l].ddNum = nbr[l].ddNum
    BY <1>3, <2>1 DEF Wakes, SameCount
  <2>2. ASSUME NEW x, sendLSReq(l, x) PROVE nbr'[l].ddNum = nbr[l].ddNum
    BY <1>1, <2>2, AskEffect, Zenon
  <2>. QED
    BY <1>2, <1>4, <2>1, <2>2 DEF Aside
<1>5. ASSUME NEW h \in Current(l), DDStep(l, h) PROVE CountStep(l)
  <2>1. ASSUME wakeDD(l, h) PROVE nbr'[l].ddNum = nbr[l].ddNum
    <3>1. nbr[l].st = INIT /\ nbr'[l].ddNum = 0
      BY <1>1, <2>1, WakeEffect, Zenon
    <3>. QED
      BY <1>3, <3>1
  <2>2. ASSUME negotiateAsSlave(l, h) \/ negotiateAsMaster(l, h) PROVE nbr'[l].ddNum = nbr[l].ddNum
    <3>1. h.dd.seq = 0 /\ nbr[l].ddNum = 0
      BY <2>2, Negotiates DEF Untold
    <3>2. nbr'[l].ddNum = h.dd.seq \/ nbr'[l].ddNum = nbr[l].ddNum
      BY <1>1, <2>2, NegotiateEffect, Zenon
    <3>. QED
      BY <3>1, <3>2
  <2>3. ASSUME ignoreDD(l, h) \/ discardDD(l, h) PROVE nbr'[l].ddNum = nbr[l].ddNum
    BY <1>1, <2>3, NotedEffect, Zenon DEF SameCount
  <2>. QED
    BY <1>2, <1>5, <2>1, <2>2, <2>3, SlaveCounts, MasterCounts, Zenon DEF DDStep
<1>. QED
  BY <1>4, <1>5, BusySteps

\* A master begins its exchange after its slave (PacketManager.cpp:262-274), and the
\* numbers stay close.
LEMMA InStepStep ==
  ASSUME Known, FirstTime, Up, Paired, [Next]_vars, NEW l \in Link, ~Replies(l)
  PROVE  InStep(l)'
<1>1. PICK k \in Link : k = Reverse(l) /\ Reverse(k) = l /\ k # l
  BY Opposite
<1>2. /\ Replies(k) /\ InStep(l)
      /\ nbr[l].ddNum \in Nat /\ nbr[k].ddNum \in Nat /\ MaxDd \in Nat
      /\ nbr[l].st \in Int /\ nbr'[l].st \in Int /\ nbr'[l].st >= nbr[l].st
      /\ nbr[k].st \in Int /\ nbr'[k].st \in Int /\ nbr'[k].st >= nbr[k].st
  <2>1. Replies(k) /\ InStep(l)
    BY <1>1, SmallNumbers DEF Paired
  <2>2. nbr[l].ddNum \in Nat /\ nbr[k].ddNum \in Nat /\ MaxDd \in Nat
    BY NeighborFields, BoundAssumption DEF Known
  <2>. QED
    BY <2>1, <2>2, Rises
<1>3. nbr'[l].st >= EXCHANGE => nbr'[k].st >= EXCHANGE
  <2>1. CASE nbr[l].st >= EXCHANGE
    BY <1>1, <1>2, <2>1 DEF InStep, EXCHANGE
  <2>2. CASE nbr'[l].st >= EXCHANGE /\ ~(nbr[l].st >= EXCHANGE)
    <3>1. nbr[l].st = EXSTART /\ nbr'[l].st = EXCHANGE
      BY <2>2, Rises DEF Wakes, NoNbr, INIT, EXSTART, EXCHANGE
    <3>2. ASSUME NEW h \in Current(l), DDStep(l, h) PROVE nbr[k].st >= EXCHANGE
      <4>1. ~wakeDD(l, h)
        BY <3>1 DEF wakeDD, INIT, EXSTART
      <4>2. ~ignoreDD(l, h) /\ ~discardDD(l, h)
        <5>1. ASSUME ignoreDD(l, h) \/ discardDD(l, h) PROVE nbr'[l].st = nbr[l].st
          BY <5>1, NotedEffect, Zenon DEF Known
        <5>. QED
          BY <3>1, <5>1 DEF EXSTART, EXCHANGE
      <4>3. ASSUME NEW missing \in SUBSET Lsa PROVE ~acceptAsSlave(l, h, missing)
                   /\ ~acceptLastAck(l, h, missing) /\ ~acceptAck(l, h, missing)
        BY <3>1, SlaveCounts, MasterCounts DEF EXSTART, EXCHANGE
      <4>4. negotiateAsSlave(l, h) => Replies(l)
        BY Negotiates
      <4>. QED
        BY <1>1, <3>2, <4>1, <4>2, <4>3, <4>4, Negotiates, Zenon DEF DDStep
    <3>3. ~Aside(l)
      <4>1. ASSUME NEW x, sendLSReq(l, x) PROVE nbr'[l].st = nbr[l].st
        BY <4>1, AskEffect, Zenon DEF Known
      <4>. QED
        BY <3>1, <4>1 DEF Aside, Wakes, NoNbr, INIT, EXSTART, EXCHANGE
    <3>. QED
      BY <1>2, <3>2, <3>3, BusySteps DEF EXCHANGE
  <2>. QED
    BY <2>1, <2>2
<1>4. CountStep(l) /\ CountStep(k) /\ (nbr'[k] = nbr[k] \/ nbr'[l] = nbr[l])
  BY <1>1, Counts, BusySteps DEF OneMoves
<1>5. /\ nbr'[l].ddNum = nbr[l].ddNum \/ (nbr'[l].ddNum = nbr[l].ddNum + 1 /\ nbr[k].ddNum = nbr[l].ddNum)
      /\ nbr'[k].ddNum = nbr[k].ddNum \/ (nbr'[k].ddNum = nbr[k].ddNum + 1 /\ nbr[l].ddNum = nbr[k].ddNum + 1)
      /\ \/ nbr'[l].ddNum = nbr[l].ddNum
         \/ nbr[l].ddNum < MaxDd
         \/ nbr'[l].st >= LOADING /\ nbr[l].st = EXCHANGE
  BY <1>1, <1>2, <1>4, Zenon DEF CountStep
<1>6. nbr'[k].ddNum = nbr'[l].ddNum - 1 \/ nbr'[k].ddNum = nbr'[l].ddNum
  BY <1>1, <1>2, <1>4, <1>5 DEF InStep
<1>7. nbr'[l].ddNum <= MaxDd \/ (nbr'[l].ddNum = MaxDd + 1 /\ nbr'[l].st >= LOADING)
  <2>1. nbr[l].ddNum <= MaxDd \/ (nbr[l].ddNum = MaxDd + 1 /\ nbr[l].st >= LOADING)
    BY <1>2 DEF InStep
  <2>. QED
    BY <1>2, <1>5, <2>1 DEF EXCHANGE, LOADING
<1>. QED
  BY <1>1, <1>3, <1>6, <1>7 DEF InStep

\* What an object is made of, for its start.
SameStart(l) ==
  /\ nbr'[l].st = nbr[l].st /\ nbr'[l].ddNum = nbr[l].ddNum
  /\ nbr'[l].summary = nbr[l].summary /\ nbr'[l].lastDD = nbr[l].lastDD
  /\ hist'[l].heard = hist[l].heard /\ hist'[l].told = hist[l].told

\* The first packet of an exchange is the one that has begun it (PacketManager.cpp:244-281).
LEMMA StartStep ==
  ASSUME Known, FirstTime, Up, Paired, [Next]_vars, NEW l \in Link
  PROVE  Start(l)'
<1>1. IInv /\ Unborn /\ Start(l) /\ DOMAIN handling = Local /\ l[1] \in Local
  BY LinkType DEF Known, Paired, IInv, TypeOK
<1>2. CASE Aside(l)
  <2>1. CASE SameStart(l)
    <3>1. Untold(l) => Untold(l)'
      BY <2>1 DEF SameStart, Untold
    <3>2. Beginning(l)' <=> Beginning(l)
      BY <2>1 DEF SameStart, Beginning, Replies
    <3>3. (Busy(l)' <=> Busy(l)) /\ (Busy(l) => handling'[l[1]] = handling[l[1]])
      BY <1>2 DEF Aside
    <3>4. Opened(l) => Opened(l)'
      BY <2>1, <3>3 DEF SameStart, Opened, Replies
    <3>. QED
      BY <1>1, <2>1, <3>1, <3>2, <3>3, <3>4 DEF Start, SameStart, Replies
  <2>2. CASE ~Busy(l) /\ Wakes(l)
    <3>1. nbr[l].st < EXCHANGE /\ nbr'[l].st < EXCHANGE /\ nbr'[l].st # EXCHANGE
      BY <2>2 DEF Wakes, NoNbr, INIT, EXSTART, EXCHANGE
    <3>2. Untold(l) /\ nbr'[l].ddNum = nbr[l].ddNum
      <4>1. Untold(l)
        BY <1>1, <3>1 DEF Start
      <4>. QED
        BY <2>2, <4>1 DEF Wakes, SameCount, Untold
    <3>3. Untold(l)'
      BY <2>2, <3>2 DEF Untold, Wakes, SameHeaders
    <3>4. ~Busy(l)' /\ ~Beginning(l)'
      BY <1>2, <2>2, <3>1 DEF Aside, Beginning
    <3>. QED
      BY <3>3, <3>4 DEF Start, Untold
  <2>3. ASSUME NEW x, sendLSReq(l, x) PROVE SameStart(l)
    BY <1>1, <2>3, AskEffect, Zenon DEF SameStart
  <2>4. ASSUME nbr'[l] = nbr[l], hist'[l] = hist[l] \/ SenderThread(l) PROVE SameStart(l)
    <3>1. hist'[l].heard = hist[l].heard /\ hist'[l].told = hist[l].told
      BY <1>1, <2>4, SenderEffect, Zenon
    <3>. QED
      BY <2>4, <3>1 DEF SameStart
  <2>. QED
    BY <1>2, <2>1, <2>2, <2>3, <2>4 DEF Aside
<1>3. ASSUME NEW h \in Current(l), DDStep(l, h) PROVE Start(l)'
  <2>1. h \in Handled /\ h.dd.from = l[2] /\ h.seq \in Nat /\ h.dd \in DDPacket
    BY CurrentType, CurrentUnderway DEF Known, IInv, Handled
  <2>2. ASSUME NEW g, handling' = [handling EXCEPT ![l[1]] = g] PROVE handling'[l[1]] = g
    BY <1>1, <2>2
  <2>3. CASE wakeDD(l, h)
    <3>1. /\ nbr[l].st = INIT /\ nbr'[l].st = EXSTART /\ nbr'[l].ddNum = 0
          /\ SameHeaders(nbr[l], nbr'[l]) /\ hist' = hist
          /\ handling' = [handling EXCEPT ![l[1]] = h]
      BY <1>1, <2>3, WakeEffect, Zenon
    <3>2. nbr[l].st < EXCHANGE /\ ~Beginning(l) /\ ~Beginning(l)'
      BY <3>1 DEF Beginning, INIT, EXSTART, EXCHANGE
    <3>3. Untold(l)
      BY <1>1, <3>2 DEF Start
    <3>4. Untold(l)'
      BY <3>1, <3>3 DEF Untold, SameHeaders
    <3>5. h.seq = h.dd.seq /\ handling'[l[1]] = h
      BY <2>2, <3>1, <3>2, CurrentSeq
    <3>. QED
      BY <3>2, <3>4, <3>5 DEF Start, Untold
  <2>4. CASE negotiateAsSlave(l, h)
    <3>1. /\ Replies(l) /\ h.dd.m /\ Untold(l) /\ h.dd.seq = 0 /\ h.seq = 0
          /\ nbr[l].st = EXSTART
      <4>1. nbr[l].st = EXSTART
        BY <2>4, Zenon DEF negotiateAsSlave
      <4>. QED
        BY <2>4, <4>1, Negotiates, Zenon
    <3>2. PICK g : g = [h EXCEPT !.seq = @ + 1]
      OBVIOUS
    <3>3. g.seq = 1 /\ g.dd = h.dd /\ g # NoPacket
      <4>1. g \in Handled /\ g.seq = 1 /\ g.dd = h.dd
        BY <2>1, <3>1, <3>2 DEF Handled
      <4>. QED
        BY <4>1 DEF Handled, NoPacket
    <3>4. /\ nbr'[l].st = EXCHANGE /\ nbr'[l].lastDD = nbr[l].lastDD /\ hist' = hist
          /\ nbr'[l].ddNum = h.dd.seq \/ nbr'[l].ddNum = nbr[l].ddNum
      BY <1>1, <2>4, NegotiateEffect, Zenon
    <3>5. handling'[l[1]] = g
      <4>1. handling' = [handling EXCEPT ![l[1]] = g]
        BY <2>4, <3>2, Zenon DEF negotiateAsSlave, GoesOn
      <4>. QED
        BY <2>2, <4>1
    <3>6. nbr'[l].ddNum = 0 /\ nbr'[l].lastDD = EmptyDD(l) /\ hist'[l].heard = {} /\ hist'[l].told = {}
      BY <3>1, <3>4 DEF Untold
    <3>7. Opened(l)'
      BY <2>1, <3>1, <3>3, <3>5, <3>6 DEF Opened, Busy, Replies
    <3>8. ~(nbr'[l].st < EXCHANGE) /\ Beginning(l)'
      <4>1. ~EmptyDD(l).body
        BY DEF EmptyDD, DD
      <4>. QED
        BY <3>1, <3>4, <3>6, <4>1 DEF Beginning, EXCHANGE, Replies
    <3>. QED
      BY <3>1, <3>7, <3>8 DEF Start, Replies
  <2>5. CASE negotiateAsMaster(l, h)
    <3>1. /\ ~Replies(l) /\ ~h.dd.i /\ Untold(l) /\ h.dd.seq = 0 /\ h.seq = 0
      BY <2>5, Negotiates, Zenon
    <3>2. h # NoPacket
      BY <2>1 DEF Handled, NoPacket
    <3>4. /\ nbr'[l].st = EXCHANGE /\ nbr'[l].lastDD = nbr[l].lastDD /\ hist' = hist
          /\ nbr'[l].ddNum = h.dd.seq \/ nbr'[l].ddNum = nbr[l].ddNum
      BY <1>1, <2>5, NegotiateEffect, Zenon
    <3>5. handling'[l[1]] = h
      <4>1. handling' = [handling EXCEPT ![l[1]] = h]
        BY <2>5, Zenon DEF negotiateAsMaster, GoesOn
      <4>. QED
        BY <2>2, <4>1
    <3>6. nbr'[l].ddNum = 0 /\ nbr'[l].lastDD = EmptyDD(l) /\ hist'[l].heard = {} /\ hist'[l].told = {}
      BY <3>1, <3>4 DEF Untold
    <3>7. Opened(l)'
      BY <2>1, <3>1, <3>2, <3>5, <3>6 DEF Opened, Busy, Replies
    <3>8. ~(nbr'[l].st < EXCHANGE)
      BY <3>4 DEF EXCHANGE
    <3>. QED
      BY <3>1, <3>5, <3>6, <3>7, <3>8 DEF Start, Replies
  <2>6. CASE ignoreDD(l, h) \/ discardDD(l, h)
    <3>1. /\ SameCount(nbr[l], nbr'[l]) /\ nbr'[l].st = nbr[l].st /\ hist' = hist
          /\ handling' = [handling EXCEPT ![l[1]] = NoPacket]
      BY <1>1, <2>6, NotedEffect, Zenon
    <3>2. SameStart(l) /\ ~Busy(l)'
      BY <2>2, <3>1 DEF SameStart, SameCount, SameHeaders, Busy
    <3>3. ~Beginning(l)
      <4>1. nbr[l].st = EXSTART \/ ~Accepts(l, h)
        BY <2>6, Zenon DEF ignoreDD, discardDD
      <4>2. ASSUME Beginning(l) PROVE Accepts(l, h)
        <5>1. nbr[l].st = EXCHANGE /\ h = handling[l[1]] /\ Opened(l)
          BY <4>2, CurrentSeq DEF Beginning
        <5>2. nbr[l].isMaster <=> Replies(l)
          BY <1>1, <5>1, RoleOf DEF EXCHANGE
        <5>3. h.seq = nbr[l].ddNum + (IF nbr[l].isMaster THEN 1 ELSE 0)
          BY <5>1, <5>2 DEF Opened
        <5>. QED
          BY <5>1, <5>3 DEF Accepts
      <4>3. nbr[l].st = EXSTART => ~Beginning(l)
        BY DEF Beginning, EXSTART, EXCHANGE
      <4>. QED
        BY <4>1, <4>2, <4>3, Zenon
    <3>4. ~Beginning(l)'
      BY <3>2, <3>3 DEF Beginning, SameStart, Replies
    <3>5. nbr[l].st < EXCHANGE /\ Untold(l) => Untold(l)'
      BY <3>2 DEF SameStart, Untold
    <3>. QED
      BY <1>1, <3>2, <3>4, <3>5 DEF Start, SameStart, Replies
  <2>7. ASSUME NEW missing \in SUBSET Lsa, acceptAsSlave(l, h, missing) PROVE Start(l)'
    <3>1. nbr'[l].lastDD = ReplyTo(l, h) /\ handling' = [handling EXCEPT ![l[1]] = NoPacket]
      BY <1>1, <2>7, SlaveEffect, Zenon DEF AcceptedDD
    <3>2. Replies(l) /\ nbr'[l].st >= EXCHANGE
      BY <2>7, SlaveCounts
    <3>3. nbr'[l].lastDD.body
      BY <3>1 DEF ReplyTo, DD
    <3>4. ~Beginning(l)' /\ ~Busy(l)' /\ ~(nbr'[l].st < EXCHANGE)
      <4>1. ~Beginning(l)'
        BY <3>2, <3>3 DEF Beginning, Replies
      <4>2. ~Busy(l)'
        BY <2>2, <3>1 DEF Busy
      <4>3. ~(nbr'[l].st < EXCHANGE)
        BY <3>2, Rises DEF EXCHANGE
      <4>. QED
        BY <4>1, <4>2, <4>3
    <3>. QED
      BY <3>2, <3>4 DEF Start, Replies
  <2>8. ASSUME NEW missing \in SUBSET Lsa, acceptLastAck(l, h, missing) \/ acceptAck(l, h, missing)
        PROVE  Start(l)'
    <3>1. nbr'[l].lastDD = nbr[l].lastDD /\ handling' = [handling EXCEPT ![l[1]] = NoPacket]
      BY <1>1, <2>8, LastAckEffect, AckEffect, Zenon DEF AcceptedDD
    <3>2. ~Replies(l) /\ nbr'[l].st >= EXCHANGE /\ nbr'[l].ddNum = nbr[l].ddNum + 1
      BY <2>8, MasterCounts
    <3>3. nbr[l].ddNum \in Nat
      BY NeighborFields DEF Known
    <3>4. ~Beginning(l)' /\ ~Busy(l)' /\ ~(nbr'[l].st < EXCHANGE)
      <4>1. ~Beginning(l)'
        BY <3>2, <3>3 DEF Beginning, Replies
      <4>2. ~Busy(l)'
        BY <2>2, <3>1 DEF Busy
      <4>3. ~(nbr'[l].st < EXCHANGE)
        BY <3>2, Rises DEF EXCHANGE
      <4>. QED
        BY <4>1, <4>2, <4>3
    <3>. QED
      BY <1>1, <3>1, <3>2, <3>4 DEF Start, Replies
  <2>. QED
    BY <1>3, <2>3, <2>4, <2>5, <2>6, <2>7, <2>8, Zenon DEF DDStep
<1>. QED
  BY <1>2, <1>3, BusySteps

\* What a router sends has its sequence number, or that of a DD it has sent before,
\* or the bytes of a number reversed.
LEMMA NumberedStep ==
  ASSUME Known, Addressed, FirstTime, Up, OnlyPoll, Paired, [Next]_vars, NEW l \in Link
  PROVE  Numbered(l)'
<1>1. IInv /\ Numbered(l) /\ Start(l) /\ CountStep(l)
  BY Counts DEF Known, Paired
<1>2. nbr[l].ddNum \in Nat /\ nbr'[l].ddNum \in Nat /\ nbr'[l].ddNum >= nbr[l].ddNum
      /\ nbr[l].lastDD.seq \in Nat
  <2>1. nbr[l].ddNum \in Nat /\ nbr[l].lastDD.seq \in Nat
    BY NeighborFields DEF Known, DDPacket
  <2>. QED
    BY <1>1, <2>1 DEF CountStep
<1>3. nbr'[l].st \in Int /\ nbr[l].st \in Int /\ nbr'[l].st >= nbr[l].st
  BY Rises
<1>4. ASSUME NEW h \in Current(l), NEW missing \in SUBSET Lsa, acceptAsSlave(l, h, missing)
      PROVE  ReplyTo(l, h).seq <= nbr'[l].ddNum
  <2>1. ReplyTo(l, h).seq = h.dd.seq
    BY DEF ReplyTo, DD
  <2>2. nbr'[l].ddNum = h.dd.seq
    BY <1>4, SlaveCounts
  <2>. QED
    BY <1>2, <2>1, <2>2
<1>5. nbr'[l].lastDD.seq <= nbr'[l].ddNum
  <2>1. EmptyDD(l).seq = 0
    BY DEF EmptyDD, DD
  <2>2. CASE nbr'[l].lastDD = nbr[l].lastDD
    BY <1>1, <1>2, <2>2 DEF Numbered
  <2>3. CASE nbr'[l].lastDD = EmptyDD(l)
    BY <1>2, <2>1, <2>3
  <2>. QED
    BY <1>4, <2>2, <2>3, NewLastDD
<1>6. ASSUME NEW p, Underway(l, p)' PROVE p.seq <= nbr'[l].ddNum \/ (p.seq >= Huge /\ nbr'[l].st >= EXCHANGE)
  <2>1. CASE Underway(l, p)
    <3>1. p.seq <= nbr[l].ddNum \/ (p.seq >= Huge /\ nbr[l].st >= EXCHANGE)
      BY <1>1, <2>1 DEF Numbered
    <3>2. p.seq \in Int
      <4>1. l[2] \in Local
        BY Opposite
      <4>2. handling[l[2]] # NoPacket => handling[l[2]].dd.seq \in Int
        BY <1>1, <4>1 DEF IInv, TypeOK, Handled, DDPacket
      <4>3. p \in net /\ p.type = "dd" => p.seq \in Int
        <5>1. net \subseteq DDPacket \cup LSPacket
          BY <1>1, Zenon DEF IInv, TypeOK
        <5>2. ASSUME p \in LSPacket PROVE p.type # "dd"
          BY <5>2 DEF LSPacket
        <5>3. ASSUME p \in DDPacket PROVE p.seq \in Int
          BY <5>3 DEF DDPacket
        <5>. QED
          BY <5>1, <5>2, <5>3, Zenon
      <4>. QED
        BY <2>1, <4>2, <4>3 DEF Underway
    <3>3. nbr[l].st >= EXCHANGE => nbr'[l].st >= EXCHANGE
      BY <1>3 DEF EXCHANGE
    <3>. QED
      BY <1>2, <3>1, <3>2, <3>3
  <2>2. CASE nbr[l].st >= EXCHANGE /\ p = nbr[l].lastDD
    BY <1>1, <1>2, <2>2 DEF Numbered
  <2>3. ASSUME NEW e \in BOOLEAN, p = Bare(l, e) PROVE p.seq = 0 \/ (p.seq >= Huge /\ nbr'[l].st >= EXCHANGE)
    <3>1. p.seq = SwapBytes(nbr[l].ddNum)
      BY <2>3 DEF Bare, DD
    <3>2. nbr[l].ddNum \in Small
      BY SmallNumbers
    <3>3. CASE nbr[l].ddNum = 0
      BY <3>1, <3>2, <3>3, SmallSwapped, Zenon
    <3>4. CASE nbr[l].ddNum # 0
      <4>1. p.seq >= Huge
        BY <3>1, <3>2, <3>4, SmallSwapped, Zenon
      <4>2. ~(nbr[l].st < EXCHANGE)
        BY <1>1, <3>4, Zenon DEF Start, Untold
      <4>3. nbr'[l].st >= EXCHANGE
        BY <1>3, <4>2 DEF EXCHANGE
      <4>. QED
        BY <4>1, <4>3
    <3>. QED
      BY <3>3, <3>4
  <2>4. ASSUME NEW q \in Scheduled(l), p = q.dd PROVE p.seq = nbr[l].ddNum
    BY <2>4 DEF OnlyPoll
  <2>5. ASSUME p.seq = nbr[l].ddNum \/ p.seq = 0 PROVE p.seq <= nbr'[l].ddNum
    BY <1>2, <2>5
  <2>. QED
    BY <1>4, <1>6, <2>1, <2>2, <2>3, <2>4, <2>5, NewUnderway, Zenon DEF Built
<1>. QED
  BY <1>5, <1>6 DEF Numbered

\* Every step keeps all of it.
LEMMA PairedStep ==
  ASSUME Known, Addressed, FirstTime, Up, OnlyPoll, Paired, [Next]_vars
  PROVE  Paired'
<1>1. ASSUME NEW l \in Link PROVE Start(l)' /\ Numbered(l)' /\ (~Replies(l) => InStep(l)')
  BY StartStep, NumberedStep, InStepStep
<1>2. ASSUME NEW l \in Link PROVE Replies(l)' <=> Replies(l)
  BY DEF Replies
<1>. QED
  BY <1>1, <1>2, Zenon DEF Paired

\* It holds of every state.
LEMMA PairedAlways == ASSUME FirstTime PROVE Spec => []Paired
<1>1. Init => Paired
  <2>. SUFFICES ASSUME Init, NEW l \in Link PROVE Start(l) /\ Numbered(l) /\ InStep(l)
    BY DEF Paired
  <2>1. PICK k \in Link : k = Reverse(l) /\ l[1] \in Local /\ l[2] \in Local
    BY Opposite
  <2>2. \A m \in Link : nbr[m].st = NoNbr /\ nbr[m].ddNum = 0 /\ nbr[m].summary = << >> /\ nbr[m].lastDD = EmptyDD(m)
    <3>. SUFFICES ASSUME NEW m \in Link
                  PROVE  nbr[m].st = NoNbr /\ nbr[m].ddNum = 0 /\ nbr[m].summary = << >> /\ nbr[m].lastDD = EmptyDD(m)
      OBVIOUS
    <3>1. nbr[m] = NoNeighbor(m)
      BY DEF Init
    <3>. QED
      BY <3>1, NeighborIsTyped DEF NoNeighbor, Neighbor
  <2>3. hist[l] = NoHistory /\ handling[l[1]] = NoPacket /\ handling[l[2]] = NoPacket /\ net = {}
    BY <2>1 DEF Init
  <2>4. ~(nbr[l].st >= EXCHANGE) /\ nbr[l].st < EXCHANGE /\ nbr[l].st # EXCHANGE
    BY <2>2 DEF NoNbr, EXCHANGE
  <2>5. Start(l)
    BY <2>2, <2>3, <2>4 DEF Start, Untold, Beginning, Busy, NoHistory
  <2>6. Numbered(l)
    <3>1. EmptyDD(l).seq = 0
      BY DEF EmptyDD, DD
    <3>2. \A p : ~Underway(l, p)
      BY <2>3 DEF Underway
    <3>. QED
      BY <2>2, <3>1, <3>2 DEF Numbered
  <2>7. InStep(l)
    <3>1. MaxDd \in Nat
      BY BoundAssumption
    <3>. QED
      BY <2>1, <2>2, <2>4, <3>1 DEF InStep
  <2>. QED
    BY <2>5, <2>6, <2>7
<1>2. Known /\ Addressed /\ Up /\ OnlyPoll /\ Paired /\ [Next]_vars => Paired'
  BY PairedStep
<1>. QED
  BY <1>1, <1>2, KnownAlways, AddressedAlways, UpAlways, OnlyPollAlways, PTL DEF Spec

\* Master and slave are never more than one poll apart, whatever is lost, repeated
\* or reordered, and whatever the sendEmptyDDPacets threads send in between
\* (PacketManager.cpp:276-281, 320-399).
THEOREM PollsInLockstep == ASSUME FirstTime PROVE Spec => []Lockstep
<1>1. Known /\ Paired => Lockstep
  <2>. SUFFICES ASSUME Known, Paired, NEW l \in Link, nbr[l].st >= EXCHANGE, ~nbr[l].isMaster
                PROVE  nbr[Reverse(l)].ddNum \in {nbr[l].ddNum - 1, nbr[l].ddNum}
    BY DEF Lockstep
  <2>1. ~Replies(l)
    BY RoleOf DEF Known
  <2>. QED
    BY <2>1 DEF Paired, InStep
<1>. QED
  BY <1>1, KnownAlways, PairedAlways, PTL
-----------------------------------------------------------------------------
(* The headers arrive in order. *)

\* What else is needed for that: two routers, with databases that no thread
\* changes under the handlers, and no LSA in them twice.
Quiet == OneNeighbor /\ Refreshing = {} /\ OnceAtFirst

\* The polls registered for a neighbour stay the same while the number does.
LEMMA ScheduledSame ==
  ASSUME Known, FirstTime, OneNeighbor, [Next]_vars, NEW l \in Link, nbr'[l].ddNum = nbr[l].ddNum
  PROVE  Scheduled(l)' = Scheduled(l)
<1>1. PICK r \in Local : r = l[1]
  BY LinkType
<1>2. IInv /\ nbr[l].ddNum \in Nat
  BY NeighborFields DEF Known
<1>3. ASSUME NEW k \in Link, NEW h \in Current(k), NEW missing \in SUBSET Lsa, k[1] = r,
             acceptLastAck(k, h, missing) \/ acceptAck(k, h, missing)
      PROVE  FALSE
  <2>1. k = l
    BY <1>1, <1>3 DEF OneNeighbor
  <2>2. nbr'[k].ddNum = nbr[k].ddNum + 1
    BY <1>2, <1>3, LastAckEffect, AckEffect, Zenon
  <2>. QED
    BY <1>2, <2>1, <2>2
<1>4. packetList'[r] = packetList[r]
  BY <1>3, OldScheduled DEF FirstTime
<1>. QED
  BY <1>1, <1>4 DEF Scheduled

\* A step that moves no header of l.
StillHeads(l) ==
  /\ nbr'[l].st >= EXCHANGE <=> nbr[l].st >= EXCHANGE
  /\ nbr'[l].ddNum = nbr[l].ddNum /\ nbr'[l].lastDD = nbr[l].lastDD /\ nbr'[l].summary = nbr[l].summary
  /\ hist'[l].heard = hist[l].heard /\ hist'[l].told = hist[l].told
  /\ hist[l].stray => hist'[l].stray = hist[l].stray
  /\ Scheduled(l)' = Scheduled(l)

\* The database is listed.
Lists(l) ==
  /\ ~(nbr[l].st >= EXCHANGE) /\ nbr'[l].st >= EXCHANGE /\ Untold(l)
  /\ nbr'[l].ddNum = 0 /\ nbr'[l].lastDD = EmptyDD(l) /\ nbr'[l].summary = lsdb[l[1]]
  /\ hist'[l] = hist[l]
  /\ Scheduled(l) = {} /\ Scheduled(l)' = {}

\* A slave replies with the next header.
TellsReply(l, h) ==
  /\ Replies(l) /\ nbr'[l].lastDD = ReplyTo(l, h) /\ nbr'[l].ddNum = h.dd.seq
  /\ Scheduled(l) = {} /\ Scheduled(l)' = {}
  /\ \/ Beginning(l) /\ nbr[l].lastDD = EmptyDD(l) /\ nbr[l].ddNum = 0 /\ h.dd.seq = 0
     \/ h.dd.seq = nbr[l].ddNum + 1 /\ nbr[Reverse(l)].ddNum = nbr[l].ddNum + 1

\* A master registers a poll with the next header, or ends with none left.
TellsPoll(l, h) ==
  /\ ~Replies(l) /\ nbr'[l].lastDD = nbr[l].lastDD /\ nbr'[l].ddNum = nbr[l].ddNum + 1
  /\ h.dd.seq = nbr[l].ddNum /\ nbr[Reverse(l)].ddNum = nbr[l].ddNum
  /\ nbr[l].ddNum = 0 => ~h.dd.i
  /\ \/ \E q : q.dd = NextPoll(l) /\ Scheduled(l)' = {q}
     \/ nbr[l].summary = << >> /\ Scheduled(l)' = {}

\* A DD is accepted, and the next header is told.
Tells(l, h) ==
  /\ nbr[l].st >= EXCHANGE /\ nbr'[l].st >= EXCHANGE /\ h.dd.body
  /\ nbr'[l].summary = Rest(nbr[l].summary)
  /\ hist'[l].told = hist[l].told \cup First(nbr[l].summary)
  /\ hist'[l].heard = hist[l].heard \cup h.dd.hdrs /\ hist'[l].stray = hist[l].stray
  /\ TellsReply(l, h) \/ TellsPoll(l, h)

\* A negotiation lists the database.
LEMMA ListsIt ==
  ASSUME Known, FirstTime, Up, Paired, OneNeighbor, [Next]_vars, NEW l \in Link, NEW h \in Current(l),
         negotiateAsSlave(l, h) \/ negotiateAsMaster(l, h)
  PROVE  Lists(l)
<1>1. /\ nbr[l].st = EXSTART /\ nbr'[l].st = EXCHANGE
      /\ nbr'[l].summary = nbr[l].summary \o lsdb[l[1]] /\ nbr'[l].lastDD = nbr[l].lastDD
      /\ nbr'[l].ddNum = h.dd.seq \/ nbr'[l].ddNum = nbr[l].ddNum
      /\ hist' = hist
  BY NegotiateEffect, Zenon DEF Known
<1>2. Untold(l) /\ h.dd.seq = 0
  BY Negotiates
<1>3. lsdb[l[1]] \in Seq(Lsa)
  BY LinkType DEF Known, IInv, TypeOK
<1>4. nbr'[l].summary = lsdb[l[1]] /\ nbr'[l].lastDD = EmptyDD(l) /\ nbr'[l].ddNum = 0 /\ nbr[l].ddNum = 0
  BY <1>1, <1>2, <1>3 DEF Untold
<1>5. ~(nbr[l].st >= EXCHANGE) /\ nbr'[l].st >= EXCHANGE
  BY <1>1 DEF EXSTART, EXCHANGE
<1>6. Scheduled(l) = {} /\ Scheduled(l)' = Scheduled(l)
  <2>1. Scheduled(l)' = Scheduled(l)
    BY <1>4, ScheduledSame
  <2>. QED
    BY <1>5, <2>1 DEF Up
<1>. QED
  BY <1>1, <1>2, <1>4, <1>5, <1>6 DEF Lists

\* An accepted poll makes the slave tell the next header (PacketManager.cpp:319-352).
LEMMA SlaveTells ==
  ASSUME Known, FirstTime, OnlyPoll, Paired, NEW l \in Link, NEW h \in Current(l), NEW missing \in SUBSET Lsa,
         acceptAsSlave(l, h, missing)
  PROVE  Tells(l, h)
<1>1. /\ AcceptedDD(l, h, missing)
      /\ nbr'[l].ddNum = h.dd.seq
      /\ nbr'[l].summary = Rest(nbr[l].summary) /\ nbr'[l].lastDD = ReplyTo(l, h)
      /\ hist'[l].told = hist[l].told \cup First(nbr[l].summary)
      /\ UNCHANGED packetList
  BY SlaveEffect, Zenon DEF Known
<1>2. Replies(l) /\ Accepts(l, h) /\ nbr[l].st = EXCHANGE /\ nbr'[l].st >= EXCHANGE
  BY SlaveCounts
<1>3. /\ h.dd.body /\ hist'[l].heard = hist[l].heard \cup h.dd.hdrs /\ hist'[l].stray = hist[l].stray
  BY <1>1, Zenon DEF AcceptedDD
<1>4. Scheduled(l) = {} /\ Scheduled(l)' = {}
  <2>1. nbr[l].isMaster
    BY <1>2, RoleOf DEF Known, EXCHANGE
  <2>2. Scheduled(l) = {}
    BY <2>1 DEF OnlyPoll, Polling
  <2>. QED
    BY <1>1, <2>2 DEF Scheduled
<1>5. \/ Beginning(l) /\ nbr[l].lastDD = EmptyDD(l) /\ nbr[l].ddNum = 0 /\ h.dd.seq = 0
      \/ h.dd.seq = nbr[l].ddNum + 1 /\ nbr[Reverse(l)].ddNum = nbr[l].ddNum + 1
  BY <1>2, SlaveAccepts DEF Opened
<1>6. TellsReply(l, h)
  BY <1>1, <1>2, <1>4, <1>5, Zenon DEF TellsReply
<1>7. nbr[l].st >= EXCHANGE
  BY <1>2 DEF EXCHANGE
<1>. QED
  BY <1>1, <1>2, <1>3, <1>6, <1>7, Zenon DEF Tells

\* An accepted reply makes the master tell the next header (PacketManager.cpp:354-399).
LEMMA MasterTells ==
  ASSUME Known, FirstTime, OnlyPoll, Paired, NEW l \in Link, NEW h \in Current(l), NEW missing \in SUBSET Lsa,
         acceptLastAck(l, h, missing) \/ acceptAck(l, h, missing)
  PROVE  Tells(l, h)
<1>1. IInv /\ DOMAIN packetList = Local /\ l[1] \in Local
  BY LinkType DEF Known, IInv, TypeOK
<1>2. ~Replies(l) /\ Accepts(l, h) /\ nbr[l].st = EXCHANGE /\ nbr'[l].st >= EXCHANGE
      /\ nbr'[l].ddNum = nbr[l].ddNum + 1
  BY MasterCounts
<1>3. /\ h.dd.seq = nbr[l].ddNum /\ nbr[Reverse(l)].ddNum = nbr[l].ddNum
      /\ nbr[l].ddNum = 0 => ~h.dd.i
  BY <1>2, MasterAccepts
<1>4. /\ AcceptedDD(l, h, missing) /\ nbr'[l].lastDD = nbr[l].lastDD
  BY <1>1, LastAckEffect, AckEffect, Zenon
<1>5. /\ h.dd.body /\ hist'[l].heard = hist[l].heard \cup h.dd.hdrs /\ hist'[l].stray = hist[l].stray
  BY <1>4, Zenon DEF AcceptedDD
<1>6. nbr[l].st >= EXCHANGE
  BY <1>2 DEF EXCHANGE
<1>7. \A q \in Unregistered(l) : q.dd.to # l[2]
  <2>1. ASSUME NEW k \in Unregistered(l), k.dd.to = l[2] PROVE FALSE
    <3>1. k \in Scheduled(l) /\ k.id # nbr[l].unAck
      BY <2>1 DEF Unregistered, Scheduled
    <3>. QED
      BY <3>1 DEF OnlyPoll
  <2>. QED
    BY <2>1
<1>8. CASE acceptLastAck(l, h, missing)
  <2>1. /\ nbr[l].summary = << >> /\ nbr'[l].summary = nbr[l].summary /\ hist'[l].told = hist[l].told
        /\ packetList' = [packetList EXCEPT ![l[1]] = Unregistered(l)]
    BY <1>1, <1>8, LastAckEffect, Zenon
  <2>2. packetList'[l[1]] = Unregistered(l)
    BY <1>1, <2>1
  <2>3. Scheduled(l)' = {}
    BY <1>7, <2>2 DEF Scheduled
  <2>4. nbr'[l].summary = Rest(nbr[l].summary) /\ hist'[l].told = hist[l].told \cup First(nbr[l].summary)
    BY <2>1 DEF Rest, First
  <2>5. TellsPoll(l, h)
    BY <1>2, <1>3, <1>4, <2>1, <2>3, Zenon DEF TellsPoll
  <2>. QED
    BY <1>2, <1>5, <1>6, <2>4, <2>5, Zenon DEF Tells
<1>9. CASE acceptAck(l, h, missing)
  <2>1. PICK new : new = [id |-> currentId[l[1]], dd |-> NextPoll(l)]
    OBVIOUS
  <2>2. /\ nbr'[l].summary = Rest(nbr[l].summary)
        /\ hist'[l].told = hist[l].told \cup First(nbr[l].summary)
        /\ packetList' = [packetList EXCEPT ![l[1]] = Unregistered(l) \cup {new}]
    BY <1>1, <1>9, <2>1, AckEffect, Zenon
  <2>3. packetList'[l[1]] = Unregistered(l) \cup {new}
    BY <1>1, <2>2
  <2>4. new.dd = NextPoll(l) /\ NextPoll(l).to = l[2]
    BY <2>1, BuiltAddressed
  <2>5. Scheduled(l)' = {new}
    BY <1>7, <2>3, <2>4 DEF Scheduled
  <2>6. TellsPoll(l, h)
    BY <1>2, <1>3, <1>4, <2>4, <2>5, Zenon DEF TellsPoll
  <2>. QED
    BY <1>2, <1>5, <1>6, <2>2, <2>6, Zenon DEF Tells
<1>. QED
  BY <1>8, <1>9
\* What a step does to the headers of one link.
LEMMA LinkHeads ==
  ASSUME Known, FirstTime, Up, OnlyPoll, Paired, OneNeighbor, [Next]_vars, NEW l \in Link
  PROVE  StillHeads(l) \/ Lists(l) \/ \E h \in Current(l) : Tells(l, h)
<1>1. IInv /\ Start(l)
  BY DEF Known, Paired
<1>2. ASSUME nbr'[l].st = nbr[l].st \/ ~(nbr[l].st >= EXCHANGE \/ nbr'[l].st >= EXCHANGE),
             nbr'[l].ddNum = nbr[l].ddNum, nbr'[l].lastDD = nbr[l].lastDD, nbr'[l].summary = nbr[l].summary,
             hist'[l].heard = hist[l].heard, hist'[l].told = hist[l].told,
             hist[l].stray => hist'[l].stray = hist[l].stray
      PROVE  StillHeads(l)
  <2>1. Scheduled(l)' = Scheduled(l)
    BY <1>2, ScheduledSame
  <2>. QED
    BY <1>2, <2>1, Zenon DEF StillHeads
<1>3. ASSUME nbr[l].st \in {NoNbr, INIT}, nbr'[l].st \in {INIT, EXSTART},
             nbr'[l].st = EXSTART => nbr'[l].ddNum = 0,
             nbr'[l].st = INIT => nbr'[l].ddNum = nbr[l].ddNum,
             SameHeaders(nbr[l], nbr'[l]), hist'[l] = hist[l]
      PROVE  StillHeads(l)
  <2>1. ~(nbr[l].st >= EXCHANGE \/ nbr'[l].st >= EXCHANGE) /\ nbr[l].st < EXCHANGE
    BY <1>3 DEF NoNbr, INIT, EXSTART, EXCHANGE
  <2>2. nbr[l].ddNum = 0
    BY <1>1, <2>1 DEF Start, Untold
  <2>3. nbr'[l].ddNum = nbr[l].ddNum
    BY <1>3, <2>2
  <2>. QED
    BY <1>2, <1>3, <2>1, <2>3 DEF SameHeaders
<1>4. ASSUME Aside(l) PROVE StillHeads(l)
  <2>1. ASSUME Wakes(l) PROVE StillHeads(l)
    BY <1>3, <2>1 DEF Wakes, SameCount
  <2>2. ASSUME NEW x, sendLSReq(l, x) PROVE StillHeads(l)
    <3>1. /\ nbr'[l].st = nbr[l].st /\ nbr'[l].ddNum = nbr[l].ddNum /\ nbr'[l].lastDD = nbr[l].lastDD
          /\ nbr'[l].summary = nbr[l].summary /\ hist'[l].heard = hist[l].heard
          /\ hist'[l].told = hist[l].told /\ hist'[l].stray = hist[l].stray
      BY <1>1, <2>2, AskEffect, Zenon
    <3>. QED
      BY <1>2, <3>1, Zenon
  <2>3. ASSUME nbr'[l] = nbr[l], hist'[l] = hist[l] PROVE StillHeads(l)
    BY <1>2, <2>3
  <2>4. ASSUME nbr'[l] = nbr[l], SenderThread(l) PROVE StillHeads(l)
    <3>1. hist'[l].heard = hist[l].heard /\ hist'[l].told = hist[l].told
      BY <1>1, <2>4, SenderEffect, Zenon
    <3>2. hist[l].stray \in BOOLEAN
      BY NeighborFields DEF Known, History
    <3>3. hist[l].stray => hist'[l].stray = hist[l].stray
      <4>1. ASSUME NEW e \in BOOLEAN, sendDDPackets(l, e) PROVE hist'[l].stray = TRUE \/ hist' = hist
        <5>1. hist' = hist \/ hist' = [hist EXCEPT ![l].stray = TRUE]
          BY <4>1, Zenon DEF sendDDPackets
        <5>2. hist[l] \in History /\ DOMAIN hist = Link
          BY <1>1, NeighborFields
        <5>. QED
          BY <5>1, <5>2 DEF History
      <4>2. sendEmptyDDPacets(l) \/ readEmpty(l) => hist' = hist
        BY Zenon DEF sendEmptyDDPacets, readEmpty
      <4>. QED
        BY <2>4, <3>2, <4>1, <4>2 DEF SenderThread
    <3>. QED
      BY <1>2, <2>4, <3>1, <3>3
  <2>. QED
    BY <1>4, <2>1, <2>2, <2>3, <2>4, Zenon DEF Aside
<1>5. ASSUME NEW h \in Current(l), wakeDD(l, h) PROVE StillHeads(l)
  <2>1. /\ SameHeaders(nbr[l], nbr'[l]) /\ nbr[l].st = INIT /\ hist' = hist
        /\ nbr'[l].st = EXSTART /\ nbr'[l].ddNum = 0
    BY <1>1, <1>5, WakeEffect, Zenon
  <2>. QED
    BY <1>3, <2>1 DEF INIT, EXSTART
<1>6. ASSUME NEW h \in Current(l), ignoreDD(l, h) \/ discardDD(l, h) PROVE StillHeads(l)
  <2>1. SameCount(nbr[l], nbr'[l]) /\ nbr'[l].st = nbr[l].st /\ hist' = hist
    BY <1>1, <1>6, NotedEffect, Zenon
  <2>. QED
    BY <1>2, <2>1 DEF SameCount, SameHeaders
<1>. QED
  BY <1>4, <1>5, <1>6, ListsIt, SlaveTells, MasterTells, BusySteps, Zenon DEF DDStep

\* The headers of at most one link move in a step.
LEMMA HeadSteps ==
  ASSUME Known, FirstTime, Up, OnlyPoll, Paired, OneNeighbor, [Next]_vars, NEW l \in Link
  PROVE  /\ \/ StillHeads(l) \/ Lists(l) \/ \E h \in Current(l) : Tells(l, h)
         /\ Lists(l) \/ (\E h \in Current(l) : Tells(l, h)) => StillHeads(Reverse(l))
<1>1. PICK k \in Link : k = Reverse(l) /\ k # l
  BY Opposite
<1>2. ASSUME NEW m \in Link, Lists(m) \/ \E h \in Current(m) : Tells(m, h) PROVE nbr'[m] # nbr[m]
  <2>1. CASE Lists(m)
    BY <2>1 DEF Lists
  <2>2. ASSUME NEW h \in Current(m), Tells(m, h) PROVE nbr'[m] # nbr[m]
    <3>1. nbr[m].ddNum \in Nat
      BY NeighborFields DEF Known
    <3>2. CASE nbr'[m].ddNum = nbr[m].ddNum + 1
      BY <3>1, <3>2
    <3>3. CASE nbr'[m].lastDD = ReplyTo(m, h) /\ nbr[m].lastDD = EmptyDD(m)
      <4>1. ReplyTo(m, h).body /\ ~EmptyDD(m).body
        BY DEF ReplyTo, EmptyDD, DD
      <4>. QED
        BY <3>3, <4>1
    <3>. QED
      BY <2>2, <3>2, <3>3 DEF Tells, TellsReply, TellsPoll
  <2>. QED
    BY <1>2, <2>1, <2>2
<1>3. nbr'[k] = nbr[k] \/ nbr'[l] = nbr[l]
  BY <1>1, BusySteps DEF OneMoves
<1>4. StillHeads(k) \/ Lists(k) \/ \E h \in Current(k) : Tells(k, h)
  BY LinkHeads
<1>. QED
  BY <1>1, <1>2, <1>3, <1>4, LinkHeads, Zenon
\* The headers of a DD of this code: none, or one.
Single(s) == \A x, y \in s : x = y

\* A DD of a sendEmptyDDPacets thread, by what the receiver looks at.
Blank(p) == p.hdrs = {} /\ (p.seq = 0 \/ p.seq >= Huge)

\* A header is told once, and heard by nobody before.
Ordered(l) ==
  /\ hist[Reverse(l)].heard \subseteq hist[l].told
  /\ Once(nbr[l].summary) /\ Elems(nbr[l].summary) \cap hist[l].told = {}
  /\ nbr[l].lastDD.hdrs \subseteq hist[l].told /\ Single(nbr[l].lastDD.hdrs)
  /\ \A q \in Scheduled(l) : q.dd.hdrs \subseteq hist[l].told /\ Single(q.dd.hdrs)
  /\ \A p : Underway(l, p) => p.hdrs \subseteq hist[l].told

\* A slave: its packets with its sequence number are its last reply, unless a sender
\* thread has sent one it should not have; the master goes on when it has heard it.
Replying(l) ==
  /\ \A p : Underway(l, p) /\ p.body =>
       \/ Blank(p) /\ (p.i \/ hist[l].stray)
       \/ nbr[l].lastDD.body /\ (p.seq = nbr[l].ddNum => p.hdrs = nbr[l].lastDD.hdrs)
  /\ nbr[Reverse(l)].ddNum > nbr[l].ddNum =>
       hist[l].stray \/ (nbr[l].lastDD.body /\ nbr[l].lastDD.hdrs \subseteq hist[Reverse(l)].heard)

\* A master: its packets with its sequence number are its registered poll, and what
\* a slave with that number has heard.
Polled(l) ==
  /\ \A p : Underway(l, p) =>
       Blank(p) \/ (p.seq > 0 /\ (p.seq = nbr[l].ddNum => \E q \in Scheduled(l) : q.dd = p))
  /\ \A q \in Scheduled(l) : q.dd.seq <= nbr[Reverse(l)].ddNum => q.dd.hdrs \subseteq hist[Reverse(l)].heard

Heads == \A l \in Link : Ordered(l) /\ IF Replies(l) THEN Replying(l) ELSE Polled(l)

\* The first header of a list, and the others.
LEMMA OnceRest ==
  ASSUME NEW s \in Seq(Lsa), Once(s)
  PROVE  /\ Once(Rest(s)) /\ Elems(Rest(s)) \cap First(s) = {} /\ Rest(s) \in Seq(Lsa)
         /\ First(s) \subseteq Elems(s) /\ Elems(Rest(s)) \subseteq Elems(s) /\ Single(First(s))
<1>1. CASE s = << >>
  <2>1. First(s) = {} /\ Rest(s) = s
    BY <1>1 DEF First, Rest
  <2>2. Once(Rest(s)) /\ Elems(Rest(s)) = Elems(s)
    BY <2>1, Zenon
  <2>3. Elems(Rest(s)) \cap First(s) = {} /\ First(s) \subseteq Elems(s) /\ Elems(Rest(s)) \subseteq Elems(s)
    BY <2>1, <2>2
  <2>4. Single(First(s))
    BY <2>1 DEF Single
  <2>5. Rest(s) \in Seq(Lsa)
    BY <2>1, Zenon
  <2>. QED
    BY <2>2, <2>3, <2>4, <2>5, Zenon
<1>2. CASE s # << >>
  <2>1. /\ Len(s) \in Nat /\ Len(s) > 0 /\ Len(Tail(s)) = Len(s) - 1 /\ Head(s) = s[1]
        /\ \A j \in 1..Len(s) - 1 : Tail(s)[j] = s[j + 1]
        /\ Tail(s) \in Seq(Lsa)
    BY <1>2
  <2>2. First(s) = {s[1]} /\ Rest(s) = Tail(s)
    BY <1>2, <2>1 DEF First, Rest
  <2>3. \A j \in 1..Len(s) - 1 : j + 1 \in 1..Len(s) /\ j + 1 # 1
    BY <2>1
  <2>4. 1 \in 1..Len(s)
    BY <2>1
  <2>5. Once(Tail(s))
    BY <2>1, <2>3 DEF Once
  <2>6. s[1] \notin Elems(Tail(s))
    BY <2>1, <2>3, <2>4 DEF Once, Elems
  <2>7. Once(Rest(s)) /\ Rest(s) \in Seq(Lsa)
    BY <2>1, <2>2, <2>5, Zenon
  <2>8. Elems(Rest(s)) \cap First(s) = {}
    BY <2>2, <2>6
  <2>9. Single(First(s))
    BY <2>2 DEF Single
  <2>10. First(s) \subseteq Elems(s)
    BY <2>2, <2>4 DEF Elems
  <2>11. Elems(Rest(s)) \subseteq Elems(s)
    BY <2>1, <2>2, <2>3 DEF Elems
  <2>. QED
    BY <2>7, <2>8, <2>9, <2>10, <2>11, Zenon
<1>. QED
  BY <1>1, <1>2

\* A DD that is under way was so before, or is blank, or holds the headers of the
\* last reply or of the registered poll.
LEMMA UnderwayHeads ==
  ASSUME Known, Addressed, FirstTime, Up, OnlyPoll, Paired, [Next]_vars, NEW l \in Link, NEW p, Underway(l, p)'
  PROVE  \/ Underway(l, p)
         \/ Blank(p) /\ (p.i \/ hist'[l].stray)
         \/ Replies(l) /\ (p = nbr[l].lastDD \/ p = nbr'[l].lastDD)
         \/ ~Replies(l) /\ p.seq = nbr[l].ddNum /\ p.seq > 0 /\ \E q \in Scheduled(l) : q.dd = p
<1>1. ASSUME nbr[l].isMaster, nbr[l].st >= EXCHANGE PROVE Replies(l)
  BY <1>1, RoleOf DEF Known
<1>2. ASSUME NEW h \in Current(l), NEW missing \in SUBSET Lsa, acceptAsSlave(l, h, missing), p = ReplyTo(l, h)
      PROVE  Replies(l) /\ p = nbr'[l].lastDD
  <2>1. nbr'[l].lastDD = ReplyTo(l, h)
    BY <1>2, SlaveEffect, Zenon DEF Known
  <2>. QED
    BY <1>2, <2>1, SlaveCounts
<1>3. ASSUME NEW e \in BOOLEAN, p = Bare(l, e), ~e => hist'[l].stray
      PROVE  Blank(p) /\ (p.i \/ hist'[l].stray)
  <2>1. p.hdrs = {} /\ p.i = e /\ p.seq = SwapBytes(nbr[l].ddNum)
    BY <1>3 DEF Bare, DD
  <2>2. nbr[l].ddNum \in Small
    BY SmallNumbers
  <2>3. p.seq = 0 \/ p.seq >= Huge
    BY <2>1, <2>2, SmallSwapped, Zenon
  <2>. QED
    BY <1>3, <2>1, <2>3 DEF Blank
<1>4. ASSUME NEW q \in Scheduled(l), p = q.dd
      PROVE  ~Replies(l) /\ p.seq = nbr[l].ddNum /\ p.seq > 0
  <2>1. Polling(l) /\ p.seq = nbr[l].ddNum
    BY <1>4 DEF OnlyPoll
  <2>2. nbr[l].st >= EXCHANGE /\ ~nbr[l].isMaster /\ nbr[l].ddNum > 0
    BY <2>1 DEF Polling, EXCHANGE
  <2>. QED
    BY <2>1, <2>2, RoleOf DEF Known
<1>. QED
  BY <1>1, <1>2, <1>3, <1>4, NewUnderway, Zenon DEF Built

\* What is told stays so; what is heard was sent.
LEMMA HistoryGrows ==
  ASSUME Known, FirstTime, Up, OnlyPoll, Paired, OneNeighbor, [Next]_vars, NEW l \in Link
  PROVE  /\ hist[l].told \subseteq hist'[l].told /\ hist[l].heard \subseteq hist'[l].heard
         /\ hist[l].stray => hist'[l].stray
         /\ \/ hist'[l].heard = hist[l].heard
            \/ \E h \in Current(l) : /\ Tells(l, h) /\ hist'[l].heard = hist[l].heard \cup h.dd.hdrs
                                     /\ Underway(Reverse(l), h.dd) /\ h.dd.body
<1>1. CASE StillHeads(l) \/ Lists(l)
  BY <1>1 DEF StillHeads, Lists
<1>2. ASSUME NEW h \in Current(l), Tells(l, h)
      PROVE  /\ hist[l].told \subseteq hist'[l].told /\ hist[l].heard \subseteq hist'[l].heard
             /\ hist[l].stray => hist'[l].stray
             /\ hist'[l].heard = hist[l].heard \cup h.dd.hdrs
             /\ Underway(Reverse(l), h.dd) /\ h.dd.body
  BY <1>2, CurrentUnderway DEF Tells
<1>. QED
  BY <1>1, <1>2, HeadSteps, Zenon
\* Every step keeps the order.
LEMMA OrderedStep ==
  ASSUME Known, Addressed, FirstTime, Up, OnlyPoll, Paired, OneNeighbor, NoDuplicateLsa, Heads, [Next]_vars,
         NEW l \in Link
  PROVE  Ordered(l)'
<1>1. PICK k \in Link : k = Reverse(l) /\ Reverse(k) = l
  BY Opposite
<1>2. Ordered(l) /\ nbr[l].summary \in Seq(Lsa) /\ lsdb[l[1]] \in Seq(Lsa)
  BY NeighborFields, LinkType DEF Heads, Known, IInv, TypeOK
<1>3. /\ hist[l].told \subseteq hist'[l].told
      /\ \/ hist'[k].heard = hist[k].heard
         \/ \E h \in Current(k) : hist'[k].heard = hist[k].heard \cup h.dd.hdrs /\ Underway(l, h.dd)
  BY <1>1, HistoryGrows, Zenon
<1>4. hist'[k].heard \subseteq hist'[l].told
  <2>1. hist[k].heard \subseteq hist[l].told
    BY <1>1, <1>2 DEF Ordered
  <2>2. ASSUME NEW h \in Current(k), Underway(l, h.dd) PROVE h.dd.hdrs \subseteq hist[l].told
    BY <1>2, <2>2 DEF Ordered
  <2>. QED
    BY <1>3, <2>1, <2>2
<1>5. ASSUME NEW h \in Current(l), Tells(l, h)
      PROVE  /\ nbr'[l].summary = Rest(nbr[l].summary) /\ hist'[l].told = hist[l].told \cup First(nbr[l].summary)
             /\ nbr'[l].lastDD = nbr[l].lastDD \/ nbr'[l].lastDD.hdrs = First(nbr[l].summary)
             /\ \A q \in Scheduled(l)' : q.dd.hdrs = First(nbr[l].summary)
  <2>1. ReplyTo(l, h).hdrs = First(nbr[l].summary) /\ NextPoll(l).hdrs = First(nbr[l].summary)
    BY DEF ReplyTo, NextPoll, DD
  <2>. QED
    BY <1>5, <2>1 DEF Tells, TellsReply, TellsPoll
<1>6. /\ Once(Rest(nbr[l].summary)) /\ Elems(Rest(nbr[l].summary)) \cap First(nbr[l].summary) = {}
      /\ Elems(Rest(nbr[l].summary)) \subseteq Elems(nbr[l].summary) /\ Single(First(nbr[l].summary))
  BY <1>2, OnceRest, Zenon DEF Ordered
<1>7. EmptyDD(l).hdrs = {}
  BY DEF EmptyDD, DD
<1>8. Once(nbr'[l].summary) /\ Elems(nbr'[l].summary) \cap hist'[l].told = {}
  <2>1. CASE StillHeads(l)
    BY <1>2, <2>1 DEF StillHeads, Ordered
  <2>2. CASE Lists(l)
    <3>1. nbr'[l].summary = lsdb[l[1]] /\ hist'[l].told = {}
      BY <2>2 DEF Lists, Untold
    <3>2. Once(lsdb[l[1]])
      BY LinkType DEF NoDuplicateLsa, Once
    <3>. QED
      BY <3>1, <3>2
  <2>3. ASSUME NEW h \in Current(l), Tells(l, h)
        PROVE  Once(nbr'[l].summary) /\ Elems(nbr'[l].summary) \cap hist'[l].told = {}
    BY <1>2, <1>5, <1>6, <2>3 DEF Ordered
  <2>. QED
    BY <2>1, <2>2, <2>3, HeadSteps
<1>9. nbr'[l].lastDD.hdrs \subseteq hist'[l].told /\ Single(nbr'[l].lastDD.hdrs)
  <2>1. CASE nbr'[l].lastDD = nbr[l].lastDD
    BY <1>2, <1>3, <2>1 DEF Ordered
  <2>2. CASE Lists(l)
    BY <1>7, <2>2 DEF Lists, Single
  <2>3. ASSUME NEW h \in Current(l), Tells(l, h)
        PROVE  nbr'[l].lastDD.hdrs \subseteq hist'[l].told /\ Single(nbr'[l].lastDD.hdrs)
    BY <1>5, <1>6, <2>1, <2>3
  <2>. QED
    BY <2>1, <2>2, <2>3, HeadSteps DEF StillHeads
<1>10. ASSUME NEW q \in Scheduled(l)' PROVE q.dd.hdrs \subseteq hist'[l].told /\ Single(q.dd.hdrs)
  <2>1. ASSUME q \in Scheduled(l) PROVE q.dd.hdrs \subseteq hist'[l].told /\ Single(q.dd.hdrs)
    BY <1>2, <1>3, <2>1 DEF Ordered
  <2>2. ASSUME NEW h \in Current(l), Tells(l, h)
        PROVE  q.dd.hdrs \subseteq hist'[l].told /\ Single(q.dd.hdrs)
    <3>1. q.dd.hdrs = First(nbr[l].summary)
      BY <1>5, <1>10, <2>2
    <3>. QED
      BY <1>5, <1>6, <2>2, <3>1
  <2>. QED
    BY <1>10, <2>1, <2>2, HeadSteps DEF StillHeads, Lists
<1>11. ASSUME NEW p, Underway(l, p)' PROVE p.hdrs \subseteq hist'[l].told
  <2>1. CASE Underway(l, p)
    BY <1>2, <1>3, <2>1 DEF Ordered
  <2>2. CASE Blank(p)
    BY <2>2 DEF Blank
  <2>3. CASE p = nbr[l].lastDD
    BY <1>2, <1>3, <2>3 DEF Ordered
  <2>4. CASE p = nbr'[l].lastDD
    BY <1>9, <2>4
  <2>5. ASSUME NEW q \in Scheduled(l), q.dd = p PROVE p.hdrs \subseteq hist'[l].told
    BY <1>2, <1>3, <2>5 DEF Ordered
  <2>. QED
    BY <1>11, <2>1, <2>2, <2>3, <2>4, <2>5, UnderwayHeads, Zenon
<1>. QED
  BY <1>1, <1>4, <1>8, <1>9, <1>10, <1>11, Zenon DEF Ordered

\* The reply a master accepts is its slave's last one, or was sent by a sender thread.
LEMMA AcceptsReply ==
  ASSUME Known, FirstTime, Paired, Heads, NEW l \in Link, Replies(l), NEW h \in Current(Reverse(l)), Tells(Reverse(l), h)
  PROVE  \/ hist[l].stray /\ h.dd.hdrs = {}
         \/ nbr[l].lastDD.body /\ h.dd.hdrs = nbr[l].lastDD.hdrs
<1>1. PICK k \in Link : k = Reverse(l) /\ Reverse(k) = l /\ ~Replies(k)
  BY Opposite, SmallNumbers
<1>2. /\ Underway(l, h.dd) /\ h.dd.body /\ h.dd.seq = nbr[k].ddNum /\ nbr[l].ddNum = nbr[k].ddNum
      /\ nbr[k].ddNum = 0 => ~h.dd.i
  BY <1>1, CurrentUnderway DEF Tells, TellsPoll, TellsReply
<1>3. \/ Blank(h.dd) /\ (h.dd.i \/ hist[l].stray)
      \/ nbr[l].lastDD.body /\ (h.dd.seq = nbr[l].ddNum => h.dd.hdrs = nbr[l].lastDD.hdrs)
  BY <1>2 DEF Heads, Replying
<1>4. CASE Blank(h.dd) /\ (h.dd.i \/ hist[l].stray)
  <2>1. nbr[k].ddNum < Huge
    <3>1. nbr[k].ddNum \in Nat /\ nbr[k].ddNum + 1 < Huge
      BY SmallNumbers, NeighborFields DEF Known
    <3>. QED
      BY <3>1, SMT DEF Huge
  <2>2. nbr[k].ddNum \in Nat
    BY NeighborFields DEF Known
  <2>3. h.dd.seq = 0
    BY <1>2, <1>4, <2>1, <2>2, SMT DEF Blank, Huge
  <2>. QED
    BY <1>2, <1>4, <2>3 DEF Blank
<1>. QED
  BY <1>2, <1>3, <1>4

\* The poll a slave accepts after the opening is the one that is registered.
LEMMA AcceptsPoll ==
  ASSUME Known, FirstTime, Paired, Heads, NEW l \in Link, ~Replies(l), NEW h \in Current(Reverse(l)), Tells(Reverse(l), h)
  PROVE  \/ h.dd.hdrs = {} /\ nbr'[Reverse(l)].ddNum = nbr[Reverse(l)].ddNum
         \/ /\ nbr'[Reverse(l)].ddNum = nbr[l].ddNum
            /\ \E q \in Scheduled(l) : q.dd = h.dd
<1>1. PICK k \in Link : k = Reverse(l) /\ Reverse(k) = l /\ Replies(k)
  BY Opposite, SmallNumbers
<1>2. /\ Underway(l, h.dd) /\ nbr'[k].ddNum = h.dd.seq
      /\ \/ nbr[k].ddNum = 0 /\ h.dd.seq = 0
         \/ h.dd.seq = nbr[k].ddNum + 1 /\ nbr[l].ddNum = nbr[k].ddNum + 1
  BY <1>1, CurrentUnderway DEF Tells, TellsPoll, TellsReply
<1>3. Blank(h.dd) \/ (h.dd.seq > 0 /\ (h.dd.seq = nbr[l].ddNum => \E q \in Scheduled(l) : q.dd = h.dd))
  BY <1>2 DEF Heads, Polled
<1>4. nbr[k].ddNum \in Nat /\ nbr[k].ddNum + 1 < Huge
  BY SmallNumbers, NeighborFields DEF Known
<1>5. CASE h.dd.seq = 0
  BY <1>1, <1>2, <1>3, <1>4, <1>5, SMT DEF Blank
<1>6. CASE h.dd.seq = nbr[k].ddNum + 1
  <2>1. ~Blank(h.dd)
    BY <1>4, <1>6, SMT DEF Blank, Huge
  <2>. QED
    BY <1>1, <1>2, <1>3, <1>4, <1>6, <2>1
<1>. QED
  BY <1>2, <1>5, <1>6
\* What a number below Huge is not.
LEMMA NotNext ==
  ASSUME NEW n \in Nat, n + 1 < Huge, NEW x, x <= n \/ x >= Huge
  PROVE  x # n + 1
  BY SMT DEF Huge

\* Every step keeps what is known of a slave's packets.
LEMMA ReplyingStep ==
  ASSUME Known, Addressed, FirstTime, Up, OnlyPoll, Paired, OneNeighbor, Heads, [Next]_vars,
         NEW l \in Link, Replies(l)
  PROVE  Replying(l)'
<1>1. PICK k \in Link : k = Reverse(l) /\ Reverse(k) = l /\ ~Replies(k)
  BY Opposite, SmallNumbers
<1>2. /\ Replying(l) /\ Start(l) /\ Numbered(l)
      /\ hist[l].stray => hist'[l].stray
      /\ nbr[l].ddNum \in Nat /\ nbr[k].ddNum \in Nat /\ nbr[l].ddNum + 1 < Huge
      /\ hist[k].heard \subseteq hist'[k].heard /\ nbr[l].st \in Int
  BY HistoryGrows, SmallNumbers, NeighborFields DEF Heads, Known, Paired
<1>3. ~EmptyDD(l).body
  BY DEF EmptyDD, DD
<1>4. \/ StillHeads(l)
      \/ Lists(l)
      \/ \E h \in Current(l) : Tells(l, h)
  BY HeadSteps
<1>5. Lists(l) => ~nbr[l].lastDD.body /\ nbr'[l].ddNum = nbr[l].ddNum
  BY <1>3 DEF Lists, Untold
<1>6. ASSUME NEW p, Underway(l, p)', p.body
      PROVE  \/ Blank(p) /\ (p.i \/ hist'[l].stray)
             \/ nbr'[l].lastDD.body /\ (p.seq = nbr'[l].ddNum => p.hdrs = nbr'[l].lastDD.hdrs)
  <2>1. CASE Underway(l, p) \/ p = nbr[l].lastDD
    <3>1. \/ Blank(p) /\ (p.i \/ hist[l].stray)
          \/ nbr[l].lastDD.body /\ (p.seq = nbr[l].ddNum => p.hdrs = nbr[l].lastDD.hdrs)
      BY <1>2, <1>6, <2>1 DEF Replying
    <3>2. CASE nbr[l].lastDD.body /\ (p.seq = nbr[l].ddNum => p.hdrs = nbr[l].lastDD.hdrs)
      <4>1. CASE StillHeads(l)
        BY <3>2, <4>1 DEF StillHeads
      <4>2. ASSUME NEW h \in Current(l), Tells(l, h)
            PROVE  nbr'[l].lastDD.body /\ p.seq # nbr'[l].ddNum
        <5>1. nbr'[l].lastDD = ReplyTo(l, h) /\ nbr'[l].ddNum = nbr[l].ddNum + 1
          BY <1>3, <3>2, <4>2 DEF Tells, TellsReply, TellsPoll
        <5>2. p.seq <= nbr[l].ddNum \/ p.seq >= Huge
          BY <1>2, <2>1 DEF Numbered
        <5>3. p.seq # nbr[l].ddNum + 1
          BY <1>2, <5>2, NotNext
        <5>. QED
          BY <5>1, <5>3 DEF ReplyTo, DD
      <4>. QED
        BY <1>4, <1>5, <3>2, <4>1, <4>2
    <3>. QED
      BY <1>2, <3>1, <3>2
  <2>2. CASE p = nbr'[l].lastDD
    BY <1>6, <2>2
  <2>. QED
    BY <1>6, <2>1, <2>2, UnderwayHeads, Zenon
<1>7. ASSUME nbr'[k].ddNum > nbr'[l].ddNum
      PROVE  hist'[l].stray \/ (nbr'[l].lastDD.body /\ nbr'[l].lastDD.hdrs \subseteq hist'[k].heard)
  <2>1. ASSUME NEW h \in Current(k), Tells(k, h), StillHeads(l)
        PROVE  hist'[l].stray \/ (nbr'[l].lastDD.body /\ nbr'[l].lastDD.hdrs \subseteq hist'[k].heard)
    <3>1. \/ hist[l].stray
          \/ nbr[l].lastDD.body /\ h.dd.hdrs = nbr[l].lastDD.hdrs
      BY <1>1, <2>1, AcceptsReply
    <3>2. hist'[k].heard = hist[k].heard \cup h.dd.hdrs
      BY <2>1 DEF Tells
    <3>. QED
      BY <1>2, <2>1, <3>1, <3>2 DEF StillHeads
  <2>2. ASSUME nbr'[k].ddNum = nbr[k].ddNum \/ nbr'[k].ddNum = 0
        PROVE  hist'[l].stray \/ (nbr'[l].lastDD.body /\ nbr'[l].lastDD.hdrs \subseteq hist'[k].heard)
    <3>1. nbr'[l].ddNum \in Nat /\ CountStep(l)
      <4>1. CountStep(l)
        BY Counts
      <4>. QED
        BY <1>2, <4>1 DEF CountStep
    <3>2. nbr'[k].ddNum = nbr[k].ddNum
      BY <1>2, <1>7, <2>2, <3>1
    <3>3. nbr'[l].ddNum = nbr[l].ddNum
      BY <1>1, <1>2, <1>7, <3>1, <3>2 DEF CountStep
    <3>4. hist[l].stray \/ (nbr[l].lastDD.body /\ nbr[l].lastDD.hdrs \subseteq hist[k].heard)
      BY <1>1, <1>2, <1>7, <3>2, <3>3 DEF Replying
    <3>5. ASSUME NEW h \in Current(l), Tells(l, h) PROVE ~nbr[l].lastDD.body
      BY <1>2, <1>3, <3>3, <3>5 DEF Tells, TellsReply, TellsPoll
    <3>. QED
      BY <1>2, <1>4, <1>5, <3>4, <3>5 DEF StillHeads
  <2>. QED
    BY <1>1, <2>1, <2>2, HeadSteps DEF StillHeads, Lists
<1>. QED
  BY <1>1, <1>6, <1>7, Zenon DEF Replying

\* Every step keeps what is known of a master's packets.
LEMMA PolledStep ==
  ASSUME Known, Addressed, FirstTime, Up, OnlyPoll, Paired, OneNeighbor, Heads, [Next]_vars,
         NEW l \in Link, ~Replies(l)
  PROVE  Polled(l)'
<1>1. PICK k \in Link : k = Reverse(l) /\ Reverse(k) = l /\ Replies(k)
  BY Opposite, SmallNumbers
<1>2. /\ Polled(l) /\ Numbered(l)
      /\ nbr[l].ddNum \in Nat /\ nbr[k].ddNum \in Nat /\ nbr[l].ddNum + 1 < Huge
      /\ hist[k].heard \subseteq hist'[k].heard
  BY HistoryGrows, SmallNumbers, NeighborFields DEF Heads, Known, Paired
<1>3. \/ nbr'[l].ddNum = nbr[l].ddNum /\ Scheduled(l)' = Scheduled(l)
      \/ \E h \in Current(l) : Tells(l, h)
  BY HeadSteps DEF StillHeads, Lists, Untold
<1>4. ASSUME NEW p, Underway(l, p)'
      PROVE  Blank(p) \/ (p.seq > 0 /\ (p.seq = nbr'[l].ddNum => \E q \in Scheduled(l)' : q.dd = p))
  <2>1. CASE Underway(l, p) \/ (p.seq = nbr[l].ddNum /\ p.seq > 0 /\ \E q \in Scheduled(l) : q.dd = p)
    <3>1. Blank(p) \/ (p.seq > 0 /\ (p.seq = nbr[l].ddNum => \E q \in Scheduled(l) : q.dd = p))
      BY <1>2, <2>1 DEF Polled
    <3>2. ASSUME NEW h \in Current(l), Tells(l, h) PROVE p.seq # nbr'[l].ddNum
      <4>1. nbr'[l].ddNum = nbr[l].ddNum + 1
        BY <3>2 DEF Tells, TellsReply, TellsPoll
      <4>2. p.seq <= nbr[l].ddNum \/ p.seq >= Huge
        BY <1>2, <2>1 DEF Numbered
      <4>3. p.seq # nbr[l].ddNum + 1
        BY <1>2, <4>2, NotNext
      <4>. QED
        BY <4>1, <4>3
    <3>. QED
      BY <1>3, <3>1, <3>2
  <2>. QED
    BY <1>4, <2>1, UnderwayHeads, Zenon
<1>5. ASSUME NEW q \in Scheduled(l)', q.dd.seq <= nbr'[k].ddNum PROVE q.dd.hdrs \subseteq hist'[k].heard
  <2>1. ASSUME NEW h \in Current(l), Tells(l, h) PROVE FALSE
    <3>1. /\ q.dd = NextPoll(l) /\ nbr[k].ddNum = nbr[l].ddNum
      BY <1>1, <1>5, <2>1 DEF Tells, TellsReply, TellsPoll
    <3>2. nbr'[k].ddNum = nbr[k].ddNum
      BY <1>1, <2>1, HeadSteps DEF StillHeads
    <3>3. q.dd.seq = nbr[l].ddNum + 1
      BY <3>1 DEF NextPoll, DD
    <3>. QED
      BY <1>2, <1>5, <3>1, <3>2, <3>3
  <2>2. q \in Scheduled(l)
    BY <1>3, <1>5, <2>1
  <2>3. q.dd.seq = nbr[l].ddNum /\ nbr[l].ddNum > 0 /\ \A r \in Scheduled(l) : r = q
    BY <2>2 DEF OnlyPoll, Polling
  <2>4. CASE nbr'[k].ddNum = nbr[k].ddNum
    BY <1>1, <1>2, <1>5, <2>2, <2>4 DEF Polled
  <2>5. CASE Lists(k)
    BY <1>2, <1>5, <2>3, <2>5 DEF Lists
  <2>6. ASSUME NEW h \in Current(k), Tells(k, h) PROVE q.dd.hdrs \subseteq hist'[k].heard
    <3>1. CASE nbr'[k].ddNum = nbr[k].ddNum
      BY <2>4, <3>1
    <3>2. CASE nbr'[k].ddNum # nbr[k].ddNum
      <4>1. PICK r \in Scheduled(l) : r.dd = h.dd
        BY <1>1, <2>6, <3>2, AcceptsPoll
      <4>2. hist'[k].heard = hist[k].heard \cup h.dd.hdrs
        BY <2>6 DEF Tells
      <4>. QED
        BY <2>3, <4>1, <4>2
    <3>. QED
      BY <3>1, <3>2
  <2>. QED
    BY <1>1, <2>4, <2>5, <2>6, HeadSteps DEF StillHeads
<1>. QED
  BY <1>1, <1>4, <1>5, Zenon DEF Polled

\* Every step keeps all of it.
LEMMA HeadsStep ==
  ASSUME Known, Addressed, FirstTime, Up, OnlyPoll, Paired, OneNeighbor, NoDuplicateLsa, Heads, [Next]_vars
  PROVE  Heads'
<1>1. ASSUME NEW l \in Link PROVE Ordered(l)' /\ (Replies(l) => Replying(l)') /\ (~Replies(l) => Polled(l)')
  BY OrderedStep, ReplyingStep, PolledStep, Zenon
<1>2. ASSUME NEW l \in Link PROVE Replies(l)' <=> Replies(l)
  BY DEF Replies
<1>. QED
  BY <1>1, <1>2, Zenon DEF Heads

\* It holds of every state.
LEMMA HeadsAlways == ASSUME FirstTime, Quiet PROVE Spec => []Heads
<1>1. OneNeighbor /\ Refreshing = {} /\ OnceAtFirst
  BY DEF Quiet
<1>2. Init => Heads
  <2>. SUFFICES ASSUME Init, NEW l \in Link PROVE Ordered(l) /\ Replying(l) /\ Polled(l)
    BY DEF Heads
  <2>1. PICK k \in Link : k = Reverse(l) /\ l[1] \in Local /\ l[2] \in Local
    BY Opposite
  <2>2. /\ nbr[l].ddNum = 0 /\ nbr[k].ddNum = 0 /\ nbr[l].summary = << >> /\ nbr[l].lastDD = EmptyDD(l)
    <3>1. nbr[l] = NoNeighbor(l) /\ nbr[k] = NoNeighbor(k)
      BY DEF Init
    <3>. QED
      BY <3>1, NeighborIsTyped DEF NoNeighbor, Neighbor
  <2>3. hist[l] = NoHistory /\ hist[k] = NoHistory /\ net = {} /\ packetList[l[1]] = {}
        /\ handling[l[2]] = NoPacket
    BY <2>1 DEF Init
  <2>4. Scheduled(l) = {} /\ EmptyDD(l).hdrs = {}
    BY <2>3 DEF Scheduled, EmptyDD, DD
  <2>5. \A p : ~Underway(l, p)
    BY <2>3 DEF Underway
  <2>6. Ordered(l)
    BY <2>1, <2>2, <2>3, <2>4, <2>5 DEF Ordered, Single, Once, Elems, NoHistory
  <2>7. Replying(l)
    BY <2>1, <2>2, <2>5 DEF Replying
  <2>8. Polled(l)
    BY <2>4, <2>5 DEF Polled
  <2>. QED
    BY <2>6, <2>7, <2>8
<1>3. Known /\ Addressed /\ Up /\ OnlyPoll /\ Paired /\ NoDuplicateLsa /\ Heads /\ [Next]_vars => Heads'
  BY <1>1, HeadsStep
<1>4. Spec => []NoDuplicateLsa
  BY <1>1, EnteredOnce
<1>. QED
  BY <1>2, <1>3, <1>4, KnownAlways, AddressedAlways, UpAlways, OnlyPollAlways, PairedAlways, PTL DEF Spec

\* A header that is out and not heard goes before the summary list.
Ahead(out, heard, s) ==
  (IF out \subseteq heard THEN << >> ELSE <<CHOOSE x \in out : x \notin heard>>) \o s

\* With everything heard only the summary list is ahead.
LEMMA NothingAhead ==
  ASSUME NEW s \in Seq(Lsa), NEW out, NEW heard, out \subseteq heard
  PROVE  Ahead(out, heard, s) = s
<1>1. << >> \o s = s
  OBVIOUS
<1>. QED
  BY <1>1, Zenon DEF Ahead

\* The header that is out comes first.
LEMMA OneAhead ==
  ASSUME NEW s \in Seq(Lsa), NEW out, NEW heard, Single(out), out \subseteq Lsa, ~(out \subseteq heard)
  PROVE  /\ Ahead(out, heard, s) # << >> /\ Tail(Ahead(out, heard, s)) = s
         /\ out = {Head(Ahead(out, heard, s))}
<1>1. PICK x \in out : x = (CHOOSE y \in out : y \notin heard)
  OBVIOUS
<1>2. Ahead(out, heard, s) = <<x>> \o s
  BY <1>1, Zenon DEF Ahead
<1>3. x \in Lsa /\ out = {x}
  BY <1>1 DEF Single
<1>4. <<x>> \o s # << >> /\ Head(<<x>> \o s) = x /\ Tail(<<x>> \o s) = s
  BY <1>3
<1>. QED
  BY <1>2, <1>3, <1>4, Zenon

\* The next header to tell, and the rest, are the list.
LEMMA AheadOfRest ==
  ASSUME NEW s \in Seq(Lsa), NEW heard, Elems(s) \cap heard = {}
  PROVE  Ahead(First(s), heard, Rest(s)) = s
<1>1. CASE s = << >>
  BY <1>1 DEF Ahead, First, Rest
<1>2. CASE s # << >>
  <2>1. First(s) = {Head(s)} /\ Rest(s) = Tail(s) /\ Head(s) \in Elems(s)
    BY <1>2 DEF First, Rest, Elems
  <2>2. PICK x : x = Head(s)
    OBVIOUS
  <2>3. (CHOOSE y \in {x} : y \notin heard) = x /\ ~({x} \subseteq heard)
    BY <2>1, <2>2
  <2>4. Ahead(First(s), heard, Rest(s)) = <<x>> \o Tail(s)
    BY <2>1, <2>2, <2>3, Zenon DEF Ahead
  <2>5. <<Head(s)>> \o Tail(s) = s
    BY <1>2
  <2>. QED
    BY <2>2, <2>4, <2>5
<1>. QED
  BY <1>1, <1>2

\* What is out is the header of the last reply, or of the registered poll.
LEMMA OutstandingIs ==
  ASSUME Known, FirstTime, OnlyPoll, Paired, Heads, NEW l \in Link
  PROVE  /\ Single(Outstanding(l)) /\ Outstanding(l) \subseteq hist[l].told /\ hist[l].told \subseteq Lsa
         /\ Replies(l) => Outstanding(l) = nbr[l].lastDD.hdrs
         /\ ~Replies(l) => /\ \A q \in Scheduled(l) : Outstanding(l) = q.dd.hdrs
                           /\ Scheduled(l) = {} => Outstanding(l) = {}
         /\ Unheard(l) = Ahead(Outstanding(l), hist[Reverse(l)].heard, nbr[l].summary)
<1>1. Ordered(l) /\ hist[l].told \subseteq Lsa
  BY NeighborFields DEF Heads, Known, History
<1>2. ASSUME Replies(l) PROVE Outstanding(l) = nbr[l].lastDD.hdrs
  <2>1. ASSUME NEW q \in Scheduled(l) PROVE FALSE
    <3>1. Polling(l)
      BY <2>1 DEF OnlyPoll
    <3>2. nbr[l].st >= EXCHANGE /\ ~nbr[l].isMaster
      BY <3>1 DEF Polling, EXCHANGE
    <3>. QED
      BY <1>2, <3>2, RoleOf DEF Known
  <2>. QED
    BY <2>1 DEF Outstanding
<1>3. ASSUME ~Replies(l)
      PROVE  (\A q \in Scheduled(l) : Outstanding(l) = q.dd.hdrs) /\ (Scheduled(l) = {} => Outstanding(l) = {})
  <2>1. nbr[l].lastDD.hdrs = {}
    <3>1. nbr[l].lastDD = EmptyDD(l)
      BY <1>3 DEF Paired, Start
    <3>. QED
      BY <3>1 DEF EmptyDD, DD
  <2>2. \A q, r \in Scheduled(l) : r = q
    BY DEF OnlyPoll
  <2>. QED
    BY <2>1, <2>2 DEF Outstanding
<1>4. Single(Outstanding(l)) /\ Outstanding(l) \subseteq hist[l].told
  <2>1. Single(nbr[l].lastDD.hdrs) /\ nbr[l].lastDD.hdrs \subseteq hist[l].told
    BY <1>1 DEF Ordered
  <2>2. \A q \in Scheduled(l) : Single(q.dd.hdrs) /\ q.dd.hdrs \subseteq hist[l].told
    BY <1>1 DEF Ordered
  <2>3. Single({})
    BY DEF Single
  <2>. QED
    BY <1>2, <1>3, <2>1, <2>2, <2>3
<1>. QED
  BY <1>1, <1>2, <1>3, <1>4, Zenon DEF Unheard, Ahead

\* The headers not heard, before and after a step.
LEMMA UnheardNext ==
  ASSUME NEW l \in Link
  PROVE  Unheard(l)' = Ahead(Outstanding(l)', hist'[Reverse(l)].heard, nbr'[l].summary)
  BY Zenon DEF Unheard, Ahead

\* A step that moves no header of l, and of which l[2] hears none.
LEMMA StillMaps ==
  ASSUME Known, Known', NEW l \in Link, StillHeads(l), hist'[Reverse(l)].heard = hist[Reverse(l)].heard,
         Unheard(l) = Ahead(Outstanding(l), hist[Reverse(l)].heard, nbr[l].summary)
  PROVE  [Transfer(l)!Next]_(Transfer(l)!vars)
<1>1. hist[l].stray \in BOOLEAN /\ hist'[l].stray \in BOOLEAN
  <2>1. hist[l] \in History /\ hist'[l] \in History
    BY DEF Known, IInv, TypeOK
  <2>. QED
    BY <2>1 DEF History
<1>2. Outstanding(l)' = Outstanding(l)
  BY DEF StillHeads, Outstanding
<1>3. Unheard(l)' = Unheard(l) /\ hist'[Reverse(l)].heard = hist[Reverse(l)].heard
  BY <1>2, UnheardNext, Zenon DEF StillHeads
<1>4. (nbr'[l].st >= EXCHANGE) = (nbr[l].st >= EXCHANGE)
  <2>1. (nbr'[l].st >= EXCHANGE) \in BOOLEAN /\ (nbr[l].st >= EXCHANGE) \in BOOLEAN
    OBVIOUS
  <2>. QED
    BY <2>1 DEF StillHeads
<1>5. CASE hist'[l].stray = hist[l].stray
  <2>1. UNCHANGED Transfer(l)!vars
    BY <1>3, <1>4, <1>5, Zenon DEF Transfer!vars
  <2>. QED
    BY <2>1, Zenon
<1>6. CASE hist'[l].stray # hist[l].stray
  <2>1. hist'[l].stray = TRUE
    BY <1>1, <1>6 DEF StillHeads
  <2>2. Transfer(l)!Stray
    BY <1>3, <1>4, <2>1, Zenon DEF Transfer!Stray
  <2>. QED
    BY <2>2, Zenon DEF Transfer!Next
<1>. QED
  BY <1>5, <1>6

\* Listing the database is the offer.
LEMMA ListsMaps ==
  ASSUME Known, NEW l \in Link, Lists(l), StillHeads(Reverse(l))
  PROVE  [Transfer(l)!Next]_(Transfer(l)!vars)
<1>1. lsdb[l[1]] \in Seq(Lsa)
  BY LinkType DEF Known, IInv, TypeOK
<1>2. Outstanding(l) = {} /\ Outstanding(l)' = {}
  <2>1. EmptyDD(l).hdrs = {}
    BY DEF EmptyDD, DD
  <2>. QED
    BY <2>1 DEF Lists, Untold, Outstanding
<1>3. {} \subseteq hist'[Reverse(l)].heard
  OBVIOUS
<1>4. Unheard(l)' = lsdb[l[1]]
  BY <1>1, <1>2, <1>3, UnheardNext, NothingAhead, Zenon DEF Lists
<1>5. /\ ~(nbr[l].st >= EXCHANGE)
      /\ (nbr'[l].st >= EXCHANGE) = TRUE
      /\ hist'[l].stray = hist[l].stray /\ hist'[Reverse(l)].heard = hist[Reverse(l)].heard
  BY DEF Lists, StillHeads
<1>6. Transfer(l)!Offer
  BY <1>4, <1>5, Zenon DEF Transfer!Offer
<1>. QED
  BY <1>6, Zenon DEF Transfer!Next

\* What is told next comes off the list: nothing changes, unless a header was
\* passed over.
LEMMA TellsMaps ==
  ASSUME Known, FirstTime, OnlyPoll, Paired, Heads, NEW l \in Link, NEW h \in Current(l), Tells(l, h),
         StillHeads(Reverse(l))
  PROVE  [Transfer(l)!Next]_(Transfer(l)!vars)
<1>1. PICK k \in Link : k = Reverse(l) /\ Reverse(k) = l /\ (Replies(k) <=> ~Replies(l))
  BY Opposite, SmallNumbers
<1>2. nbr[l].summary \in Seq(Lsa) /\ nbr[l].ddNum \in Nat /\ nbr[k].ddNum \in Nat
  BY NeighborFields DEF Known
<1>3. /\ hist[k].heard \subseteq hist[l].told /\ Elems(nbr[l].summary) \cap hist[l].told = {}
      /\ hist'[k].heard = hist[k].heard /\ hist'[l].stray = hist[l].stray
      /\ (nbr'[l].st >= EXCHANGE) = (nbr[l].st >= EXCHANGE)
  BY <1>1 DEF Heads, Ordered, StillHeads, Tells
<1>4. Outstanding(l)' = First(nbr[l].summary)
  <2>1. ReplyTo(l, h).hdrs = First(nbr[l].summary) /\ NextPoll(l).hdrs = First(nbr[l].summary)
    BY DEF ReplyTo, NextPoll, DD
  <2>2. CASE TellsReply(l, h)
    <3>1. nbr'[l].lastDD.hdrs = First(nbr[l].summary) /\ Scheduled(l)' = {}
      BY <2>1, <2>2 DEF TellsReply
    <3>. QED
      BY <3>1 DEF Outstanding
  <2>3. CASE TellsPoll(l, h)
    <3>1. nbr'[l].lastDD.hdrs = {}
      <4>1. nbr'[l].lastDD = EmptyDD(l)
        BY <2>3 DEF TellsPoll, Paired, Start
      <4>. QED
        BY <4>1 DEF EmptyDD, DD
    <3>2. \/ Scheduled(l)' = {} /\ First(nbr[l].summary) = {}
          \/ \E q : Scheduled(l)' = {q} /\ q.dd.hdrs = First(nbr[l].summary)
      BY <2>1, <2>3 DEF TellsPoll, First
    <3>. QED
      BY <3>1, <3>2 DEF Outstanding
  <2>. QED
    BY <2>2, <2>3 DEF Tells
<1>5. Unheard(l)' = nbr[l].summary
  <2>1. Unheard(l)' = Ahead(First(nbr[l].summary), hist[k].heard, Rest(nbr[l].summary))
    BY <1>1, <1>3, <1>4, UnheardNext, Zenon DEF Tells
  <2>2. Elems(nbr[l].summary) \cap hist[k].heard = {}
    BY <1>3
  <2>. QED
    BY <1>2, <2>1, <2>2, AheadOfRest, Zenon
<1>6. /\ Single(Outstanding(l)) /\ Outstanding(l) \subseteq Lsa
      /\ Unheard(l) = Ahead(Outstanding(l), hist[k].heard, nbr[l].summary)
  BY <1>1, OutstandingIs
<1>7. CASE Outstanding(l) \subseteq hist[k].heard
  <2>1. Unheard(l) = nbr[l].summary
    BY <1>2, <1>6, <1>7, NothingAhead, Zenon
  <2>2. UNCHANGED Transfer(l)!vars
    BY <1>1, <1>3, <1>5, <2>1, Zenon DEF Transfer!vars
  <2>. QED
    BY <2>2, Zenon
<1>8. CASE ~(Outstanding(l) \subseteq hist[k].heard)
  <2>1. Unheard(l) # << >> /\ Tail(Unheard(l)) = nbr[l].summary
    BY <1>2, <1>6, <1>8, OneAhead, Zenon
  <2>2. hist[l].stray
    <3>1. CASE TellsReply(l, h)
      <4>1. Outstanding(l) = nbr[l].lastDD.hdrs
        BY <3>1, OutstandingIs DEF TellsReply
      <4>2. nbr[l].lastDD # EmptyDD(l)
        BY <1>8, <4>1 DEF EmptyDD, DD
      <4>3. nbr[k].ddNum > nbr[l].ddNum
        BY <1>1, <1>2, <3>1, <4>2 DEF TellsReply
      <4>4. Replying(l)
        BY <3>1 DEF Heads, TellsReply
      <4>. QED
        BY <1>1, <1>8, <4>1, <4>3, <4>4 DEF Replying
    <3>2. CASE TellsPoll(l, h)
      <4>1. PICK q \in Scheduled(l) : Outstanding(l) = q.dd.hdrs
        BY <1>8, <3>2, OutstandingIs DEF TellsPoll
      <4>2. q.dd.seq <= nbr[k].ddNum
        BY <1>1, <1>2, <3>2 DEF TellsPoll, OnlyPoll
      <4>3. Polled(l)
        BY <3>2 DEF Heads, TellsPoll
      <4>. QED
        BY <1>1, <1>8, <4>1, <4>2, <4>3 DEF Polled
    <3>. QED
      BY <3>1, <3>2 DEF Tells
  <2>3. Transfer(l)!PassOver
    BY <1>1, <1>3, <1>5, <2>1, <2>2, Zenon DEF Transfer!PassOver
  <2>. QED
    BY <2>3, Zenon DEF Transfer!Next
<1>. QED
  BY <1>7, <1>8

\* A DD that should not be sent is sent in a step that changes no Neighbor object.
LEMMA StraySteps ==
  ASSUME Known, FirstTime, Up, [Next]_vars, NEW l \in Link
  PROVE  hist'[l].stray = hist[l].stray \/ UNCHANGED nbr
<1>1. IInv
  BY DEF Known
<1>2. CASE Aside(l)
  <2>1. ASSUME SenderThread(l) PROVE UNCHANGED nbr
    BY <1>1, <2>1, SenderEffect, Zenon
  <2>2. ASSUME NEW x, sendLSReq(l, x) PROVE hist'[l].stray = hist[l].stray
    BY <1>1, <2>2, AskEffect, Zenon
  <2>. QED
    BY <1>2, <2>1, <2>2, Zenon DEF Aside, Wakes
<1>3. ASSUME NEW h \in Current(l), DDStep(l, h) PROVE hist'[l].stray = hist[l].stray
  <2>1. ASSUME NEW missing \in SUBSET Lsa,
               acceptAsSlave(l, h, missing) \/ acceptLastAck(l, h, missing) \/ acceptAck(l, h, missing)
        PROVE  hist'[l].stray = hist[l].stray
    BY <1>1, <2>1, SlaveEffect, LastAckEffect, AckEffect, Zenon DEF AcceptedDD
  <2>. QED
    BY <1>1, <1>3, <2>1, WakeEffect, NegotiateEffect, NotedEffect, Zenon DEF DDStep
<1>. QED
  BY <1>2, <1>3, BusySteps, Zenon

\* What is accepted is the header that is out: it is heard, if it was not before.
LEMMA HearsMaps ==
  ASSUME Known, FirstTime, OnlyPoll, Paired, Heads, NEW l \in Link, StillHeads(l),
         NEW h \in Current(Reverse(l)), Tells(Reverse(l), h), hist'[l].stray = hist[l].stray
  PROVE  [Transfer(l)!Next]_(Transfer(l)!vars)
<1>1. PICK k \in Link : k = Reverse(l) /\ Reverse(k) = l
  BY Opposite
<1>2. nbr[l].summary \in Seq(Lsa)
  BY NeighborFields DEF Known
<1>3. /\ hist'[k].heard = hist[k].heard \cup h.dd.hdrs
      /\ (nbr'[l].st >= EXCHANGE) = (nbr[l].st >= EXCHANGE)
  <2>1. (nbr'[l].st >= EXCHANGE) \in BOOLEAN /\ (nbr[l].st >= EXCHANGE) \in BOOLEAN
    OBVIOUS
  <2>. QED
    BY <1>1, <2>1 DEF StillHeads, Tells
<1>4. /\ Single(Outstanding(l)) /\ Outstanding(l) \subseteq Lsa
      /\ Unheard(l) = Ahead(Outstanding(l), hist[k].heard, nbr[l].summary)
  BY <1>1, OutstandingIs
<1>5. Unheard(l)' = Ahead(Outstanding(l), hist'[k].heard, nbr[l].summary)
  <2>1. Outstanding(l)' = Outstanding(l)
    BY DEF StillHeads, Outstanding
  <2>. QED
    BY <1>1, <2>1, UnheardNext, Zenon DEF StillHeads
<1>6. h.dd.hdrs = {} \/ h.dd.hdrs = Outstanding(l)
  <2>1. CASE Replies(l)
    BY <2>1, AcceptsReply, OutstandingIs
  <2>2. CASE ~Replies(l)
    BY <2>2, AcceptsPoll, OutstandingIs
  <2>. QED
    BY <2>1, <2>2
<1>7. CASE h.dd.hdrs \subseteq hist[k].heard
  <2>1. hist'[k].heard = hist[k].heard
    BY <1>3, <1>7
  <2>2. UNCHANGED Transfer(l)!vars
    BY <1>1, <1>3, <1>4, <1>5, <2>1, Zenon DEF Transfer!vars
  <2>. QED
    BY <2>2, Zenon
<1>8. CASE ~(h.dd.hdrs \subseteq hist[k].heard)
  <2>1. h.dd.hdrs = Outstanding(l) /\ ~(Outstanding(l) \subseteq hist[k].heard)
        /\ Outstanding(l) \subseteq hist'[k].heard
    BY <1>3, <1>6, <1>8
  <2>2. Unheard(l) # << >> /\ Tail(Unheard(l)) = nbr[l].summary /\ Outstanding(l) = {Head(Unheard(l))}
    <3>1. PICK u : u = Ahead(Outstanding(l), hist[k].heard, nbr[l].summary)
      OBVIOUS
    <3>2. u # << >> /\ Tail(u) = nbr[l].summary /\ Outstanding(l) = {Head(u)}
      BY <1>2, <1>4, <2>1, <3>1, OneAhead
    <3>. QED
      BY <1>4, <3>1, <3>2, Zenon
  <2>3. Unheard(l)' = nbr[l].summary
    BY <1>2, <1>5, <2>1, NothingAhead, Zenon
  <2>4. Transfer(l)!Hear
    BY <1>1, <1>3, <2>1, <2>2, <2>3, Zenon DEF Transfer!Hear
  <2>. QED
    BY <2>4, Zenon DEF Transfer!Next
<1>. QED
  BY <1>7, <1>8

\* The exchange of two routers of this code implements HeaderTransfer, whatever
\* databases they start with, and however often DDs are lost, repeated or reordered:
\* each side hears the headers of the other in the order of its database, none left
\* out, unless a sendEmptyDDPacets thread has sent a DD it should not have
\* (PacketManager.cpp:283-399, 560).
THEOREM HeadersInOrder ==
  ASSUME FirstTime, Quiet
  PROVE  Spec => TransfersHeaders
<1>1. Init => \A l \in Link : Transfer(l)!Init
  <2>. SUFFICES ASSUME Init, NEW l \in Link PROVE Transfer(l)!Init
    OBVIOUS
  <2>1. PICK k \in Link : k = Reverse(l) /\ l[1] \in Local
    BY Opposite
  <2>2. nbr[l].st = NoNbr /\ nbr[l].summary = << >> /\ nbr[l].lastDD = EmptyDD(l)
    <3>1. nbr[l] = NoNeighbor(l)
      BY DEF Init
    <3>. QED
      BY <3>1, NeighborIsTyped DEF NoNeighbor, Neighbor
  <2>3. hist[l] = NoHistory /\ hist[k] = NoHistory /\ packetList[l[1]] = {}
    BY <2>1 DEF Init
  <2>4. (nbr[l].st >= EXCHANGE) = FALSE
    BY <2>2 DEF NoNbr, EXCHANGE
  <2>5. Outstanding(l) = {}
    <3>1. nbr[l].lastDD.hdrs = {}
      BY <2>2 DEF EmptyDD, DD
    <3>. QED
      BY <2>3, <3>1 DEF Outstanding, Scheduled
  <2>6. Unheard(l) = << >>
    <3>1. {} \subseteq hist[Reverse(l)].heard /\ << >> \in Seq(Lsa)
      OBVIOUS
    <3>. QED
      BY <2>2, <2>5, <3>1, NothingAhead, Zenon DEF Unheard, Ahead
  <2>7. hist[l].stray = FALSE /\ hist[Reverse(l)].heard = {}
    BY <2>1, <2>3 DEF NoHistory
  <2>. QED
    BY <2>4, <2>6, <2>7, Zenon DEF Transfer!Init
<1>2. Known /\ Known' /\ Up /\ OnlyPoll /\ Paired /\ Heads /\ [Next]_vars
        => \A l \in Link : [Transfer(l)!Next]_(Transfer(l)!vars)
  <2>. SUFFICES ASSUME Known, Known', Up, OnlyPoll, Paired, Heads, [Next]_vars, NEW l \in Link
                PROVE  [Transfer(l)!Next]_(Transfer(l)!vars)
    OBVIOUS
  <2>1. PICK k \in Link : k = Reverse(l) /\ Reverse(k) = l
    BY Opposite
  <2>2. OneNeighbor
    BY DEF Quiet
  <2>3. /\ StillHeads(l) \/ Lists(l) \/ \E h \in Current(l) : Tells(l, h)
        /\ Lists(l) \/ (\E h \in Current(l) : Tells(l, h)) => StillHeads(k)
    BY <2>1, <2>2, HeadSteps, Zenon
  <2>4. /\ StillHeads(k) \/ Lists(k) \/ \E h \in Current(k) : Tells(k, h)
        /\ Lists(k) \/ (\E h \in Current(k) : Tells(k, h)) => StillHeads(l)
    BY <2>1, <2>2, HeadSteps, Zenon
  <2>5. CASE StillHeads(l) /\ StillHeads(k)
    <3>1. hist'[k].heard = hist[k].heard
      BY <2>5 DEF StillHeads
    <3>. QED
      BY <2>1, <2>5, <3>1, StillMaps, OutstandingIs
  <2>6. CASE Lists(l)
    BY <2>1, <2>3, <2>6, ListsMaps
  <2>7. ASSUME NEW h \in Current(l), Tells(l, h) PROVE [Transfer(l)!Next]_(Transfer(l)!vars)
    BY <2>1, <2>3, <2>7, TellsMaps
  <2>8. ASSUME NEW h \in Current(k), Tells(k, h) PROVE [Transfer(l)!Next]_(Transfer(l)!vars)
    <3>1. hist'[l].stray = hist[l].stray
      <4>1. ASSUME UNCHANGED nbr PROVE FALSE
        <5>1. nbr'[k].ddNum = nbr[k].ddNum /\ nbr[k].ddNum \in Nat
          BY <4>1, NeighborFields DEF Known
        <5>2. nbr'[k].lastDD = nbr[k].lastDD /\ ReplyTo(k, h).body /\ ~EmptyDD(k).body
          BY <4>1 DEF ReplyTo, EmptyDD, DD
        <5>. QED
          BY <2>8, <5>1, <5>2 DEF Tells, TellsReply, TellsPoll
      <4>. QED
        BY <4>1, StraySteps
    <3>. QED
      BY <2>1, <2>4, <2>8, <3>1, HearsMaps
  <2>9. CASE Lists(k)
    <3>1. hist'[k].heard = hist[k].heard
      BY <2>9 DEF Lists
    <3>. QED
      BY <2>1, <2>4, <2>9, <3>1, StillMaps, OutstandingIs
  <2>. QED
    BY <2>3, <2>4, <2>5, <2>6, <2>7, <2>8, <2>9, Zenon
<1>. QED
  BY <1>1, <1>2, KnownAlways, UpAlways, OnlyPollAlways, PairedAlways, HeadsAlways, PTL DEF Spec, TransfersHeaders

-----------------------------------------------------------------------------
(* Both routers tell all they have. *)

\* The slave has at most two LSAs at first.
ShortSlave == \A d \in InitialDbs : \A l \in Link : Replies(l) => Len(d[l[1]]) <= 2

\* Nobody asks for an LSA, or is sent one, before the exchange has ended.
Unasked ==
  /\ \A r \in Local : ~generating[r]
  /\ \A l \in Link : nbr[l].st < LOADING =>
       \A p \in net : ~(p.type = "lsreq" /\ p.from = l[1]) /\ ~(p.type = "lsu" /\ p.to = l[1])

\* A slave's database until then, and its list once it is made: the two polls that
\* it gets for certain are enough for it.
Short(l) ==
  /\ nbr[l].st < LOADING => Len(lsdb[l[1]]) <= 2
  /\ nbr[l].st = EXCHANGE => Len(nbr[l].summary) <= (IF nbr[l].lastDD.body THEN 1 ELSE 2)

Enough ==
  /\ \A l \in Link : Replies(l) => Short(l)
  /\ EndsTold

\* A new LS request comes from a sendLSReq thread, a new LS update answers a request.
LEMMA NewLSPackets ==
  ASSUME Known, [Next]_vars, NEW p \in net', p \notin net, p.type \in {"lsreq", "lsu"}
  PROVE  \/ \E l \in Link : \E x \in nbr[l].reqList : sendLSReq(l, x) /\ p.type = "lsreq" /\ p.from = l[1]
         \/ \E l \in Link : \E x \in Requests(l) : p.type = "lsu" /\ p.to = l[2]
<1>1. Fresh(p)
  BY NewPackets
<1>2. p.type # "dd"
  OBVIOUS
<1>3. ASSUME NEW l \in Link, NEW h \in Current(l), p \in Replay(l, h) PROVE FALSE
  <2>1. p = nbr[l].lastDD
    BY <1>3 DEF Replay
  <2>. QED
    BY <1>2, <2>1, NeighborFields DEF Known, NeighborType, DDPacket
<1>4. ASSUME NEW l \in Link, NEW h, p = ReplyTo(l, h) PROVE FALSE
  BY <1>2, <1>4 DEF ReplyTo, DD
<1>5. ASSUME NEW l \in Link, NEW e \in BOOLEAN, p = Bare(l, e) PROVE FALSE
  BY <1>2, <1>5 DEF Bare, DD
<1>6. ASSUME NEW r \in Local, NEW q \in packetList[r], p = q.dd PROVE FALSE
  BY <1>2, <1>6 DEF Known, IInv, TypeOK, DDPacket
<1>7. ASSUME NEW l \in Link, NEW x, p = LSReq(l, x) PROVE p.type = "lsreq" /\ p.from = l[1]
  BY <1>7 DEF LSReq
<1>8. ASSUME NEW l \in Link, NEW x, p = LSUpdate(l, x) PROVE p.type = "lsu" /\ p.to = l[2]
  BY <1>8 DEF LSUpdate
<1>. QED
  BY <1>1, <1>3, <1>4, <1>5, <1>6, <1>7, <1>8, Zenon DEF Fresh

\* Every step keeps the silence.
LEMMA UnaskedStep ==
  ASSUME Known, FirstTime, OneNeighbor, Refreshing = {}, Up, Asking, Unasked, [Next]_vars
  PROVE  Unasked'
<1>1. IInv
  BY DEF Known
<1>2. ASSUME NEW r \in Local PROVE ~generating'[r]
  <2>1. CASE UNCHANGED generating
    BY <2>1 DEF Unasked
  <2>2. ASSUME NEW q \in Local, lsaGenerateRemove(q) \/ lsaGenerateInsert(q) PROVE FALSE
    BY <1>1, <2>2, GenerateEffect DEF Unasked
  <2>3. ASSUME NEW l \in Link, NEW x \in Updates(l), recvLSUpdate(l, x) PROVE UNCHANGED generating
    BY <1>1, <2>3, UpdateEffect, Zenon
  <2>4. ~ \E q \in Restarting : Restart(q)
    BY DEF FirstTime
  <2>. QED
    BY <2>1, <2>2, <2>3, <2>4, DatabaseSteps, Zenon
<1>3. ASSUME NEW l \in Link, nbr'[l].st < LOADING, NEW p \in net'
      PROVE  ~(p.type = "lsreq" /\ p.from = l[1]) /\ ~(p.type = "lsu" /\ p.to = l[1])
  <2>1. nbr[l].st < LOADING
    <3>1. nbr'[l].st >= nbr[l].st /\ nbr[l].st \in Int /\ nbr'[l].st \in Int
      BY Rises
    <3>. QED
      BY <1>3, <3>1 DEF LOADING
  <2>2. CASE p \in net
    BY <2>1, <2>2 DEF Unasked
  <2>3. ASSUME NEW k \in Link, NEW x, sendLSReq(k, x), k[1] = l[1] PROVE FALSE
    <3>1. k = l
      BY <2>3 DEF OneNeighbor
    <3>2. requesters[l] > 0
      BY <1>1, <2>3, <3>1, AskEffect, Zenon
    <3>3. nbr[l].st = LOADING
      BY <3>2 DEF Asking
    <3>. QED
      BY <2>1, <3>3 DEF LOADING
  <2>4. ASSUME NEW k \in Link, NEW x \in Requests(k), k[2] = l[1] PROVE FALSE
    <3>1. PICK q \in net : q.type = "lsreq" /\ q.from = l[1]
      BY <2>4 DEF Requests, Incoming, FirstTime
    <3>. QED
      BY <2>1, <3>1 DEF Unasked
  <2>. QED
    BY <2>2, <2>3, <2>4, NewLSPackets
<1>. QED
  BY <1>2, <1>3 DEF Unasked

\* A slave's database stays as it is until its exchange has ended.
LEMMA DatabaseWaits ==
  ASSUME Known, FirstTime, OneNeighbor, Refreshing = {}, Unasked, [Next]_vars,
         NEW l \in Link, nbr[l].st < LOADING
  PROVE  lsdb'[l[1]] = lsdb[l[1]]
<1>1. IInv /\ l[1] \in Local
  BY LinkType DEF Known
<1>2. ASSUME NEW k \in Link, NEW x \in Updates(k), recvLSUpdate(k, x), k[1] = l[1] PROVE FALSE
  <2>1. PICK q \in net : q.type = "lsu" /\ q.to = l[1]
    BY <1>2 DEF Updates, Incoming, FirstTime
  <2>. QED
    BY <2>1 DEF Unasked
<1>3. ASSUME NEW k \in Link, NEW x \in Updates(k), recvLSUpdate(k, x), k[1] # l[1] PROVE lsdb'[l[1]] = lsdb[l[1]]
  BY <1>1, <1>3, UpdateEffect, Zenon
<1>4. ASSUME NEW r \in Local, lsaGenerateRemove(r) \/ lsaGenerateInsert(r) PROVE FALSE
  BY <1>1, <1>4, GenerateEffect DEF Unasked
<1>5. ~ \E r \in Restarting : Restart(r)
  BY DEF FirstTime
<1>. QED
  BY <1>2, <1>3, <1>4, <1>5, DatabaseSteps, Zenon

\* The exchange ends with the second poll or later, or with the master's list empty
\* (PacketManager.cpp:345, 363-370).
LEMMA EndsBy ==
  ASSUME Known, FirstTime, Up, OnlyPoll, Paired, OneNeighbor, [Next]_vars, NEW l \in Link,
         nbr[l].st = EXCHANGE, nbr'[l].st >= LOADING
  PROVE  \/ Replies(l) /\ nbr[l].lastDD.body /\ nbr'[l].summary = Rest(nbr[l].summary)
         \/ nbr[l].summary = << >> /\ nbr'[l].summary = << >>
<1>1. IInv
  BY DEF Known
<1>2. nbr'[l].st # nbr[l].st /\ nbr[l].st \notin {NoNbr, INIT} /\ nbr'[l].st # EXCHANGE /\ nbr[l].st # EXSTART
  BY DEF NoNbr, INIT, EXSTART, EXCHANGE, LOADING
<1>3. ~Aside(l)
  <2>1. ASSUME NEW x, sendLSReq(l, x) PROVE FALSE
    BY <1>1, <1>2, <2>1, AskEffect, Zenon
  <2>. QED
    BY <1>2, <2>1 DEF Aside, Wakes
<1>4. PICK h \in Current(l) : DDStep(l, h)
  BY <1>3, BusySteps
<1>5. ASSUME NEW missing \in SUBSET Lsa, acceptAsSlave(l, h, missing)
      PROVE  Replies(l) /\ nbr[l].lastDD.body /\ nbr'[l].summary = Rest(nbr[l].summary)
  <2>1. Replies(l)
    BY <1>5, SlaveCounts
  <2>2. nbr'[l].summary = Rest(nbr[l].summary) /\ ~h.dd.m
    BY <1>1, <1>2, <1>5, SlaveEffect, Zenon
  <2>3. ~Opened(l)
    <3>1. handling[l[1]] # NoPacket => h = handling[l[1]]
      BY CurrentUnderway
    <3>. QED
      BY <2>1, <2>2, <3>1 DEF Opened, Busy
  <2>4. nbr[l].lastDD.body
    BY <2>1, <2>3 DEF Paired, Start, Beginning
  <2>. QED
    BY <2>1, <2>2, <2>4
<1>6. ASSUME NEW missing \in SUBSET Lsa, acceptLastAck(l, h, missing)
      PROVE  nbr[l].summary = << >> /\ nbr'[l].summary = << >>
  BY <1>1, <1>6, LastAckEffect
<1>7. ASSUME NEW missing \in SUBSET Lsa, acceptAck(l, h, missing) PROVE FALSE
  BY <1>1, <1>2, <1>7, AckEffect, Zenon
<1>8. ASSUME wakeDD(l, h) \/ negotiateAsSlave(l, h) \/ negotiateAsMaster(l, h) \/ ignoreDD(l, h) \/ discardDD(l, h)
      PROVE  FALSE
  BY <1>1, <1>2, <1>8, WakeEffect, NegotiateEffect, NotedEffect, Zenon
<1>. QED
  BY <1>4, <1>5, <1>6, <1>7, <1>8, Zenon DEF DDStep

\* Every step keeps it.
LEMMA EnoughStep ==
  ASSUME Known, FirstTime, OneNeighbor, Refreshing = {}, Up, OnlyPoll, Paired, Unasked, Enough, [Next]_vars
  PROVE  Enough'
<1>. SUFFICES ASSUME NEW l \in Link
              PROVE  (Replies(l) => Short(l)') /\ (nbr'[l].st >= LOADING => nbr'[l].summary = << >>)
  <2>1. ASSUME NEW k \in Link PROVE Replies(k)' <=> Replies(k)
    BY DEF Replies
  <2>. QED
    BY <2>1, Zenon DEF Enough, EndsTold
<1>1. /\ nbr[l].summary \in Seq(Lsa) /\ l[1] \in Local /\ lsdb[l[1]] \in Seq(Lsa)
      /\ Replies(l) => Short(l)
      /\ nbr[l].st >= LOADING => nbr[l].summary = << >>
  BY NeighborFields, LinkType DEF Known, IInv, TypeOK, Enough, EndsTold
<1>2. /\ Level(nbr[l]) /\ Level(nbr'[l]) /\ nbr'[l].st >= nbr[l].st
      /\ nbr[l].st \in Int /\ nbr'[l].st \in Int
  BY Rises
<1>3. \/ StillHeads(l)
      \/ Lists(l)
      \/ \E h \in Current(l) : Tells(l, h)
  BY HeadSteps
<1>4. ASSUME nbr'[l].st < LOADING PROVE nbr[l].st < LOADING
  BY <1>2, <1>4 DEF LOADING
<1>5. ASSUME Replies(l), nbr'[l].st < LOADING PROVE Len(lsdb'[l[1]]) <= 2
  BY <1>1, <1>4, <1>5, DatabaseWaits DEF Short
<1>6. ASSUME Replies(l), nbr'[l].st = EXCHANGE
      PROVE  Len(nbr'[l].summary) <= (IF nbr'[l].lastDD.body THEN 1 ELSE 2)
  <2>1. CASE StillHeads(l)
    <3>1. nbr[l].st = EXCHANGE
      BY <1>2, <1>6, <2>1 DEF StillHeads, EXCHANGE
    <3>. QED
      BY <1>1, <1>6, <2>1, <3>1 DEF StillHeads, Short
  <2>2. CASE Lists(l)
    <3>1. Len(lsdb[l[1]]) <= 2
      BY <1>1, <1>4, <1>6, <2>2 DEF Short, LOADING, EXCHANGE
    <3>2. ~nbr'[l].lastDD.body /\ nbr'[l].summary = lsdb[l[1]]
      BY <2>2 DEF Lists, EmptyDD, DD
    <3>. QED
      BY <3>1, <3>2
  <2>3. ASSUME NEW h \in Current(l), Tells(l, h)
        PROVE  Len(nbr'[l].summary) <= (IF nbr'[l].lastDD.body THEN 1 ELSE 2)
    <3>1. nbr[l].st = EXCHANGE
      BY <1>2, <1>6, <2>3 DEF Tells, EXCHANGE
    <3>2. nbr'[l].summary = Rest(nbr[l].summary) /\ nbr'[l].lastDD = ReplyTo(l, h)
      BY <1>6, <2>3 DEF Tells, TellsReply, TellsPoll
    <3>3. Len(nbr[l].summary) <= 2
      BY <1>1, <1>6, <3>1 DEF Short
    <3>4. Len(Rest(nbr[l].summary)) <= 1
      BY <1>1, <3>3 DEF Rest
    <3>5. ReplyTo(l, h).body
      BY DEF ReplyTo, DD
    <3>. QED
      BY <3>2, <3>4, <3>5
  <2>. QED
    BY <1>3, <2>1, <2>2, <2>3
<1>7. ASSUME nbr'[l].st >= LOADING PROVE nbr'[l].summary = << >>
  <2>1. CASE nbr[l].st >= LOADING
    <3>1. nbr[l].summary = << >>
      BY <1>1, <2>1
    <3>2. ~Lists(l)
      BY <1>2, <2>1 DEF Lists, LOADING, EXCHANGE
    <3>. QED
      BY <1>3, <3>1, <3>2 DEF StillHeads, Tells, Rest
  <2>2. CASE ~(nbr[l].st >= LOADING)
    <3>1. nbr[l].st = EXCHANGE
      <4>1. \/ nbr'[l].st = nbr[l].st
            \/ nbr'[l].st \in {INIT, EXSTART}
            \/ nbr'[l].st = EXCHANGE
            \/ nbr[l].st = EXCHANGE
        BY Rises DEF Wakes
      <4>. QED
        BY <1>7, <2>2, <4>1 DEF INIT, EXSTART, EXCHANGE, LOADING
    <3>2. CASE Replies(l) /\ nbr[l].lastDD.body /\ nbr'[l].summary = Rest(nbr[l].summary)
      <4>1. Len(nbr[l].summary) <= 1
        BY <1>1, <3>1, <3>2 DEF Short
      <4>2. Rest(nbr[l].summary) = << >>
        BY <1>1, <4>1 DEF Rest
      <4>. QED
        BY <3>2, <4>2
    <3>. QED
      BY <1>7, <3>1, <3>2, EndsBy
  <2>. QED
    BY <2>1, <2>2
<1>. QED
  BY <1>5, <1>6, <1>7 DEF Short

\* Each router has told its neighbour of its whole database when it ends the exchange,
\* if the one with the smaller id has at most two LSAs: it has no way to ask for more
\* polls (PacketManager.cpp:345, 363-370).
THEOREM AllIsTold ==
  ASSUME FirstTime, OneNeighbor, Refreshing = {}, ShortSlave
  PROVE  Spec => []EndsTold
<1>1. Init => Unasked /\ Enough
  <2>. SUFFICES ASSUME Init PROVE Unasked /\ Enough
    OBVIOUS
  <2>1. (\A r \in Local : ~generating[r]) /\ net = {} /\ lsdb \in InitialDbs
    BY DEF Init
  <2>2. ASSUME NEW l \in Link
        PROVE  (Replies(l) => Short(l)) /\ ~(nbr[l].st >= LOADING)
    <3>1. nbr[l] = NoNeighbor(l)
      BY DEF Init
    <3>2. nbr[l].st = NoNbr
      BY <3>1, NeighborIsTyped DEF NoNeighbor, Neighbor
    <3>3. nbr[l].st # EXCHANGE /\ ~(nbr[l].st >= LOADING)
      BY <3>2 DEF NoNbr, EXCHANGE, LOADING
    <3>4. Replies(l) => Len(lsdb[l[1]]) <= 2
      BY <2>1 DEF ShortSlave
    <3>. QED
      BY <3>3, <3>4 DEF Short
  <2>. QED
    BY <2>1, <2>2, Zenon DEF Unasked, Enough, EndsTold
<1>2. Known /\ Up /\ Asking /\ Unasked /\ [Next]_vars => Unasked'
  BY UnaskedStep
<1>3. Known /\ Up /\ OnlyPoll /\ Paired /\ Unasked /\ Enough /\ [Next]_vars => Enough'
  BY EnoughStep
<1>4. Enough => EndsTold
  BY DEF Enough
<1>. QED
  BY <1>1, <1>2, <1>3, <1>4, KnownAlways, UpAlways, AskingAlways, OnlyPollAlways, PairedAlways, PTL DEF Spec
=============================================================================
