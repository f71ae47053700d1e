------------------------ MODULE RetransmitterProofs -------------------------
(***************************************************************************)
(* Theorems about PacketRetransmitter, for any intervals and any bounds.   *)
(* The invariant of all of them is IInv: what the mutex excludes           *)
(* (MutexHeld) and what a call in progress knows (CallInv) make the facts  *)
(* about the vector inductive; with two more clauses (RInv) it shows that  *)
(* PacketRetransmitter implements Resend.                                  *)
(***************************************************************************)
EXTENDS PacketRetransmitter, SequenceTheorems, TLAPS

\* Between its lock and its body, registerPacket has a positive interval, and
\* there is a number left for it.
CallInv == callerPc = "register" => currentId < MaxPackets /\ arg > 0

\* The strengthening that is inductive.
IInv ==
  /\ TypeOK
  /\ MutexHeld
  /\ CallInv
  /\ IdsAscending
  /\ CountBelowSec

-----------------------------------------------------------------------------
(* The vector. *)

\* Erasing a node keeps the others, in their order.
LEMMA EraseProperties ==
  ASSUME NEW S, NEW s \in Seq(S), NEW k \in 1..Len(s)
  PROVE  /\ Erase(s, k) \in Seq(S)
         /\ Len(Erase(s, k)) = Len(s) - 1
         /\ \A j \in 1..Len(s) - 1 : Erase(s, k)[j] = s[IF j < k THEN j ELSE j + 1]
<1>1. Len(s) \in Nat /\ Len(s) - 1 \in Nat
  BY LenProperties
<1>2. \A j \in 1..Len(s) - 1 : Erase(s, k)[j] = s[IF j < k THEN j ELSE j + 1]
  BY <1>1 DEF Erase
<1>3. \A j \in 1..Len(s) - 1 : s[IF j < k THEN j ELSE j + 1] \in S
  BY <1>1, ElementOfSeq
<1>4. Erase(s, k) \in [1..Len(s) - 1 -> S]
  BY <1>1, <1>3 DEF Erase
<1>5. Erase(s, k) \in Seq(S)
  BY <1>1, <1>4, IsASeq
<1>6. Len(Erase(s, k)) = Len(s) - 1
  BY <1>1, <1>5, LenProperties DEF Erase
<1>. QED
  BY <1>2, <1>5, <1>6

-----------------------------------------------------------------------------
(* The invariant. *)

\* The initial states satisfy the inductive invariant.
LEMMA InitIInv == Init => IInv
<1>. SUFFICES ASSUME Init PROVE IInv
  OBVIOUS
<1>1. TypeOK
  BY BoundsAssumption DEF Init, TypeOK, Node
<1>2. MutexHeld /\ CallInv
  BY DEF Init, MutexHeld, CallInv
<1>3. IdsAscending /\ CountBelowSec
  BY DEF Init, IdsAscending, CountBelowSec
<1>. QED
  BY <1>1, <1>2, <1>3 DEF IInv

\* The steps that only take or release the mutex leave the vector alone.
LEMMA LockSteps ==
  ASSUME IInv,
         \/ \E sec \in Intervals : registerLock(sec)
         \/ \E id \in 0..MaxPackets - 1 : unregisterLock(id)
         \/ runLock
         \/ runUnlock
  PROVE  IInv'
<1>. USE BoundsAssumption, IntervalsAssumption
<1>1. UNCHANGED <<packetList, currentId, sent>>
  BY DEF registerLock, unregisterLock, runLock, runUnlock
<1>2. TypeOK'
  BY DEF IInv, TypeOK, registerLock, unregisterLock, runLock, runUnlock
<1>3. MutexHeld'
  BY DEF IInv, MutexHeld, registerLock, unregisterLock, runLock, runUnlock
<1>4. CallInv'
  BY DEF IInv, CallInv, registerLock, unregisterLock, runLock, runUnlock
<1>5. IdsAscending' /\ CountBelowSec'
  BY <1>1 DEF IInv, IdsAscending, CountBelowSec
<1>. QED
  BY <1>2, <1>3, <1>4, <1>5 DEF IInv

\* A registration appends a node with the next number and count 0.
LEMMA RegisterStep == ASSUME IInv, registerPacket PROVE IInv'
<1>. DEFINE node == [id |-> currentId, sec |-> arg, count |-> 0]
<1>1. node \in Node /\ packetList \in Seq(Node) /\ currentId \in Nat
  BY BoundsAssumption DEF IInv, TypeOK, CallInv, Node, registerPacket
<1>2. /\ packetList' \in Seq(Node)
      /\ Len(packetList') = Len(packetList) + 1
      /\ \A k \in 1..Len(packetList) : packetList'[k] = packetList[k]
      /\ packetList'[Len(packetList) + 1] = node
  BY <1>1, AppendProperties DEF registerPacket
<1>3. Len(packetList) \in Nat
  BY <1>1, LenProperties
<1>4. TypeOK'
  BY <1>2, BoundsAssumption DEF IInv, TypeOK, CallInv, registerPacket
<1>5. MutexHeld' /\ CallInv'
  BY DEF IInv, TypeOK, MutexHeld, CallInv, registerPacket
<1>6. IdsAscending'
  <2>1. currentId' = currentId + 1
    BY DEF registerPacket
  <2>2. \A k \in 1..Len(packetList) : packetList[k].id \in Nat
    <3>1. \A k \in 1..Len(packetList) : packetList[k] \in Node
      BY <1>1, ElementOfSeq
    <3>. QED
      BY <3>1 DEF Node
  <2>3. \A k \in 1..Len(packetList') : packetList'[k].id < currentId'
    BY <1>1, <1>2, <1>3, <2>1, <2>2 DEF IInv, IdsAscending
  <2>4. ASSUME NEW j \in 1..Len(packetList'), NEW k \in 1..Len(packetList'), j < k
        PROVE  packetList'[j].id < packetList'[k].id
    BY <1>1, <1>2, <1>3, <2>2, <2>4 DEF IInv, IdsAscending
  <2>. QED
    BY <2>3, <2>4 DEF IdsAscending
<1>7. CountBelowSec'
  BY <1>2, <1>3 DEF IInv, CallInv, CountBelowSec, registerPacket
<1>. QED
  BY <1>4, <1>5, <1>6, <1>7 DEF IInv

\* Unregistering erases at most one node.
LEMMA UnregisterStep == ASSUME IInv, unregisterPacket PROVE IInv'
<1>1. packetList \in Seq(Node) /\ Len(packetList) \in Nat
  BY LenProperties DEF IInv, TypeOK
<1>2. MutexHeld' /\ CallInv' /\ currentId' = currentId
  BY DEF IInv, TypeOK, MutexHeld, CallInv, unregisterPacket
<1>3. CASE UNCHANGED packetList
  BY <1>2, <1>3 DEF IInv, TypeOK, IdsAscending, CountBelowSec, unregisterPacket
<1>4. ASSUME NEW k \in 1..Len(packetList), packetList' = Erase(packetList, k) PROVE IInv'
  <2>1. /\ packetList' \in Seq(Node)
        /\ Len(packetList') = Len(packetList) - 1
        /\ \A j \in 1..Len(packetList) - 1 :
             packetList'[j] = packetList[IF j < k THEN j ELSE j + 1]
    BY <1>1, <1>4, EraseProperties
  <2>2. TypeOK'
    BY <2>1 DEF IInv, TypeOK, unregisterPacket
  <2>3. IdsAscending'
    <3>1. \A j \in 1..Len(packetList') : packetList'[j].id < currentId'
      BY <1>1, <1>2, <2>1 DEF IInv, IdsAscending
    <3>2. ASSUME NEW h \in 1..Len(packetList'), NEW j \in 1..Len(packetList'), h < j
          PROVE  packetList'[h].id < packetList'[j].id
      <4>. DEFINE at(n) == IF n < k THEN n ELSE n + 1
      <4>1. at(h) \in 1..Len(packetList) /\ at(j) \in 1..Len(packetList) /\ at(h) < at(j)
        BY <1>1, <2>1, <3>2
      <4>2. packetList'[h] = packetList[at(h)] /\ packetList'[j] = packetList[at(j)]
        BY <1>1, <2>1
      <4>. QED
        BY <4>1, <4>2 DEF IInv, IdsAscending
    <3>. QED
      BY <3>1, <3>2 DEF IdsAscending
  <2>4. CountBelowSec'
    BY <1>1, <2>1 DEF IInv, CountBelowSec
  <2>. QED
    BY <1>2, <2>2, <2>3, <2>4 DEF IInv
<1>. QED
  BY <1>3, <1>4 DEF unregisterPacket

\* One iteration of the walk changes only the count of the node at i.
LEMMA ScanStep ==
  ASSUME IInv, scanNode
  PROVE  /\ IInv'
         /\ Len(packetList') = Len(packetList)
         /\ \A k \in 1..Len(packetList) : packetList'[k].id = packetList[k].id
<1>. DEFINE node == packetList[i]
            count == IF node.count + 1 = node.sec THEN 0 ELSE node.count + 1
<1>1. packetList \in Seq(Node) /\ Len(packetList) \in Nat /\ i \in 1..Len(packetList)
  BY LenProperties DEF IInv, TypeOK, scanNode
<1>2. \A k \in 1..Len(packetList) : packetList[k] \in Node
  BY <1>1, ElementOfSeq
<1>3. node.count \in Nat /\ node.sec \in Nat /\ node.count < node.sec /\ count \in Nat
  <2>1. node.count \in Nat /\ node.sec \in Nat
    BY <1>1, <1>2 DEF Node
  <2>2. node.count < node.sec
    BY <1>1 DEF IInv, CountBelowSec
  <2>. QED
    BY <2>1, <2>2
<1>4. packetList' = [packetList EXCEPT ![i] = [packetList[i] EXCEPT !.count = count]]
  BY <1>1 DEF scanNode
<1>5. [packetList[i] EXCEPT !.count = count] \in Node
  BY <1>1, <1>2, <1>3 DEF Node
<1>6. /\ packetList' \in Seq(Node)
      /\ Len(packetList') = Len(packetList)
      /\ packetList'[i] = [packetList[i] EXCEPT !.count = count]
      /\ \A k \in 1..Len(packetList) \ {i} : packetList'[k] = packetList[k]
  BY <1>1, <1>4, <1>5, ExceptSeq
<1>7. \A k \in 1..Len(packetList) :
        /\ packetList'[k].id = packetList[k].id
        /\ packetList'[k].sec = packetList[k].sec
        /\ packetList'[k].count = IF k = i THEN count ELSE packetList[k].count
  <2>1. /\ packetList'[i].id = packetList[i].id
        /\ packetList'[i].sec = packetList[i].sec
        /\ packetList'[i].count = count
    BY <1>1, <1>2, <1>6 DEF Node
  <2>. QED
    BY <1>6, <2>1
<1>8. TypeOK'
  <2>1. sent' \in [0..MaxPackets - 1 -> Nat]
    BY DEF IInv, TypeOK, scanNode
  <2>2. i' \in Nat \ {0}
    BY DEF IInv, TypeOK, scanNode
  <2>. QED
    BY <1>6, <2>1, <2>2 DEF IInv, TypeOK, scanNode
<1>9. MutexHeld' /\ CallInv'
  BY DEF IInv, MutexHeld, CallInv, scanNode
<1>10. currentId' = currentId
  BY DEF scanNode
<1>11. IdsAscending'
  BY <1>6, <1>7, <1>10 DEF IInv, IdsAscending
<1>12. CountBelowSec'
  <2>1. count < node.sec
    BY <1>3
  <2>. QED
    BY <1>1, <1>6, <1>7, <2>1 DEF IInv, CountBelowSec
<1>. QED
  BY <1>6, <1>7, <1>8, <1>9, <1>11, <1>12 DEF IInv

\* Every step, and every stutter, keeps the inductive invariant.
LEMMA NextIInv == IInv /\ [Next]_vars => IInv'
<1>. SUFFICES ASSUME IInv, [Next]_vars PROVE IInv'
  OBVIOUS
<1>1. CASE \E sec \in Intervals : registerLock(sec)
  BY <1>1, LockSteps
<1>2. CASE registerPacket
  BY <1>2, RegisterStep
<1>3. CASE \E id \in 0..MaxPackets - 1 : unregisterLock(id)
  BY <1>3, LockSteps
<1>4. CASE unregisterPacket
  BY <1>4, UnregisterStep
<1>5. CASE runLock \/ runUnlock
  BY <1>5, LockSteps
<1>6. CASE scanNode
  BY <1>6, ScanStep
<1>7. CASE UNCHANGED vars
  BY <1>7 DEF IInv, TypeOK, MutexHeld, CallInv, IdsAscending, CountBelowSec, vars
<1>. QED
  BY <1>1, <1>2, <1>3, <1>4, <1>5, <1>6, <1>7 DEF Next

\* Every step keeps the mutex with whoever is past its lock call, the call's
\* argument, the order of the numbers and the counts below their intervals
\* (PacketRetransmitter.cpp:11-50).
THEOREM Invariance == Spec => []IInv
  BY InitIInv, NextIInv, PTL DEF Spec

-----------------------------------------------------------------------------
(* The theorems. *)

\* Every variable keeps to its set, whatever the intervals and the bounds
\* (PacketRetransmitter.cpp:11-50).
THEOREM TypeCorrect == Spec => []TypeOK
<1>1. IInv => TypeOK
  BY DEF IInv
<1>. QED
  BY <1>1, Invariance, PTL

\* A thread is past its pthread_mutex_lock exactly when it holds the mutex
\* (PacketRetransmitter.cpp:14, 24, 38).
THEOREM MutualExclusion == Spec => []MutexHeld
<1>1. IInv => MutexHeld
  BY DEF IInv
<1>. QED
  BY <1>1, Invariance, PTL

\* The numbers in the vector ascend, so that unregisterPacket erases the packet
\* that was meant and no other (PacketRetransmitter.cpp:15, 25-29).
THEOREM NumbersAscend == Spec => []IdsAscending
<1>1. IInv => IdsAscending
  BY DEF IInv
<1>. QED
  BY <1>1, Invariance, PTL

\* The equality test of the walk is never stepped over, for any intervals
\* (PacketRetransmitter.cpp:42).
THEOREM NeverSteppedOver == Spec => []CountBelowSec
<1>1. IInv => CountBelowSec
  BY DEF IInv
<1>. QED
  BY <1>1, Invariance, PTL

\* No node is added, removed or moved under the walk's index and pointer
\* (PacketRetransmitter.cpp:38-47).
THEOREM WalkIsUndisturbed == Spec => ScanUndisturbed
<1>. DEFINE Undisturbed ==
       runPc = "scan" =>
         /\ Len(packetList') = Len(packetList)
         /\ \A k \in 1..Len(packetList) : packetList'[k].id = packetList[k].id
<1>1. ASSUME IInv, Next PROVE Undisturbed
  <2>. SUFFICES ASSUME runPc = "scan"
                PROVE  /\ Len(packetList') = Len(packetList)
                       /\ \A k \in 1..Len(packetList) : packetList'[k].id = packetList[k].id
    OBVIOUS
  <2>1. lock = "run" /\ callerPc = "idle"
    BY <1>1 DEF IInv, TypeOK, MutexHeld
  <2>2. CASE scanNode
    BY <1>1, <2>2, ScanStep
  <2>3. CASE runUnlock
    BY <2>3 DEF runUnlock
  <2>. QED
    BY <1>1, <2>1, <2>2, <2>3
       DEF Next, registerLock, registerPacket, unregisterLock, unregisterPacket, runLock
<1>2. IInv /\ [Next]_vars => [Undisturbed]_vars
  BY <1>1
<1>. QED
  BY <1>2, Invariance, PTL DEF Spec, ScanUndisturbed

-----------------------------------------------------------------------------
(* The refinement of Resend: every step of the two threads is a            *)
(* registration, a cancellation or a whole pass of the abstract            *)
(* retransmitter, or nothing at all.                                       *)

\* The interval that a call of registerPacket carries is one the callers use.
IntervalAsked == callerPc = "register" => arg \in Intervals

\* A number that has not been handed out has never been sent.
UnissuedUnsent == \A n \in 0..MaxPackets - 1 : n >= currentId => sent[n] = 0

\* What the simulation needs besides the invariant.
RInv == IInv /\ IntervalAsked /\ UnissuedUnsent

\* The extra clauses hold initially and are kept by every step.
LEMMA RInvariance == Spec => []RInv
<1>1. Init => RInv
  <2>. SUFFICES ASSUME Init PROVE RInv
    OBVIOUS
  <2>1. IntervalAsked /\ UnissuedUnsent
    BY DEF Init, IntervalAsked, UnissuedUnsent
  <2>. QED
    BY <2>1, InitIInv DEF RInv
<1>2. RInv /\ [Next]_vars => RInv'
  <2>. SUFFICES ASSUME RInv, [Next]_vars PROVE RInv'
    OBVIOUS
  <2>1. IInv /\ IInv'
    BY NextIInv DEF RInv
  <2>2. IntervalAsked'
    BY <2>1 DEF RInv, IntervalAsked, IInv, TypeOK, MutexHeld, vars, Next, registerLock, registerPacket,
         unregisterLock, unregisterPacket, runLock, scanNode, runUnlock
  <2>3. CASE scanNode
    <3>1. packetList[i].id < currentId
      BY <2>1, <2>3 DEF IInv, TypeOK, IdsAscending, scanNode
    <3>2. ASSUME NEW n \in 0..MaxPackets - 1, n >= currentId PROVE sent'[n] = sent[n]
      <4>1. n # packetList[i].id
        <5>1. i \in 1..Len(packetList) /\ packetList \in Seq(Node)
          BY <2>1, <2>3, LenProperties DEF IInv, TypeOK, scanNode
        <5>2. packetList[i] \in Node
          BY <5>1, ElementOfSeq
        <5>3. packetList[i].id \in Nat
          BY <5>2 DEF Node
        <5>. QED
          BY <2>1, <3>1, <3>2, <5>3 DEF IInv, TypeOK
      <4>. QED
        BY <2>1, <2>3, <4>1 DEF IInv, TypeOK, scanNode
    <3>. QED
      BY <2>2, <2>1, <2>3, <3>2 DEF RInv, UnissuedUnsent, scanNode
  <2>4. CASE registerPacket
    BY <2>1, <2>2, <2>4, BoundsAssumption DEF RInv, UnissuedUnsent, registerPacket, IInv, TypeOK
  <2>5. CASE UNCHANGED <<currentId, sent>>
    BY <2>1, <2>2, <2>5 DEF RInv, UnissuedUnsent
  <2>. QED
    BY <2>3, <2>4, <2>5 DEF vars, Next, registerLock, unregisterLock, unregisterPacket, runLock, runUnlock
<1>. QED
  BY <1>1, <1>2, PTL DEF Spec

-----------------------------------------------------------------------------
(* The mapping, node by node. *)

\* A number in an ascending vector has one position.
LEMMA PositionUnique ==
  ASSUME NEW s \in Seq(Node), NEW k \in 1..Len(s),
         \A j, h \in 1..Len(s) : j < h => s[j].id < s[h].id
  PROVE  (CHOOSE j \in 1..Len(s) : s[j].id = s[k].id) = k
<1>1. Len(s) \in Nat /\ \A j \in 1..Len(s) : s[j].id \in Nat
  <2>1. \A j \in 1..Len(s) : s[j] \in Node
    BY ElementOfSeq
  <2>. QED
    BY <2>1, LenProperties DEF Node
<1>2. \A j \in 1..Len(s) : s[j].id = s[k].id => j = k
  BY <1>1
<1>. QED
  BY <1>2, Zenon

\* The transmission that the walk in progress still owes the node at k.
Owed(k) == IF Pending(k) /\ packetList[k].count + 1 = packetList[k].sec THEN 1 ELSE 0

\* Node k is live with the birth and the interval the mapping gives it, and
\* counts as sent once more while the walk that is due to send it has not
\* reached it.
MapsTo(k) ==
  /\ packetList[k].id \in Numbers
  /\ liveBar[packetList[k].id] = [born |-> passes - Age(k), sec |-> packetList[k].sec]
  /\ sentBar[packetList[k].id] = sent[packetList[k].id] + Owed(k)

\* The types of a node and of its history.
LEMMA NodeType ==
  ASSUME IInv, NEW k \in 1..Len(packetList)
  PROVE  /\ packetList[k] \in Node
         /\ packetList[k].id \in 0..currentId - 1 /\ packetList[k].id \in 0..MaxPackets - 1
         /\ packetList[k].sec \in Nat \ {0} /\ packetList[k].count \in Nat
         /\ packetList[k].count < packetList[k].sec
         /\ sent[packetList[k].id] \in Nat
         /\ Age(k) \in Nat
<1>1. packetList[k] \in Node
  BY ElementOfSeq DEF IInv, TypeOK
<1>2. packetList[k].id \in Nat /\ packetList[k].sec \in Nat \ {0} /\ packetList[k].count \in Nat
  BY <1>1 DEF Node
<1>3. packetList[k].id < currentId /\ currentId <= MaxPackets /\ currentId \in Nat
  BY BoundsAssumption DEF IInv, TypeOK, IdsAscending
<1>4. packetList[k].id \in 0..currentId - 1 /\ packetList[k].id \in 0..MaxPackets - 1
  BY <1>2, <1>3, BoundsAssumption
<1>5. sent[packetList[k].id] \in Nat
  BY <1>4 DEF IInv, TypeOK
<1>6. sent[packetList[k].id] * packetList[k].sec \in Nat
  BY <1>2, <1>5
<1>7. Age(k) \in Nat
  BY <1>2, <1>6 DEF Age
<1>. QED
  BY <1>1, <1>2, <1>4, <1>5, <1>7 DEF IInv, CountBelowSec

\* The mapping holds of every node.
Mapped == \A k \in 1..Len(packetList) : MapsTo(k)

\* It follows from the invariant, before a step and after it.
LEMMA MappedAlways == (IInv => Mapped) /\ (IInv' => Mapped')
<1>1. IInv => Mapped
  <2>. SUFFICES ASSUME IInv, NEW k \in 1..Len(packetList) PROVE MapsTo(k)
    BY DEF Mapped
  <2>1. Position(packetList[k].id) = k
    BY PositionUnique DEF Position, IInv, TypeOK, IdsAscending
  <2>2. packetList[k].id \in Numbers /\ packetList[k].id \in 0..currentId - 1
    BY NodeType DEF Numbers
  <2>. QED
    BY <2>1, <2>2, Zenon DEF MapsTo, Owed, liveBar, sentBar
<1>. QED
  BY <1>1, PTL

-----------------------------------------------------------------------------
(* The steps. *)

\* A step that changes no node's number, interval, age or debt is a stutter of
\* the abstract retransmitter.
LEMMA Stutters ==
  ASSUME IInv, IInv', UNCHANGED <<passes, currentId>>, Len(packetList') = Len(packetList),
         \A k \in 1..Len(packetList) :
           /\ packetList'[k].id = packetList[k].id
           /\ packetList'[k].sec = packetList[k].sec
           /\ Age(k)' = Age(k)
           /\ (sent[packetList[k].id] + Owed(k))' = sent[packetList[k].id] + Owed(k),
         \A n \in (0..currentId - 1) \ Numbers : sent'[n] = sent[n]
  PROVE  UNCHANGED <<passes, currentId, liveBar, sentBar>>
<1>1. Mapped /\ Mapped'
  BY MappedAlways
<1>2. Numbers' = Numbers
  BY Zenon DEF Numbers
<1>3. \A n \in Numbers : liveBar'[n] = liveBar[n] /\ sentBar'[n] = sentBar[n]
  <2>. SUFFICES ASSUME NEW k \in 1..Len(packetList)
                PROVE  /\ liveBar'[packetList[k].id] = liveBar[packetList[k].id]
                       /\ sentBar'[packetList[k].id] = sentBar[packetList[k].id]
    BY Zenon DEF Numbers
  <2>1. MapsTo(k) /\ MapsTo(k)'
    BY <1>1, Zenon DEF Mapped
  <2>. QED
    BY <2>1, Zenon DEF MapsTo
<1>4. liveBar' = liveBar
  BY <1>2, <1>3, Zenon DEF liveBar
<1>5. sentBar' = sentBar
  <2>1. \A n \in 0..currentId - 1 : sentBar'[n] = sentBar[n]
    BY <1>2, <1>3, Zenon DEF sentBar
  <2>. QED
    BY <2>1, Zenon DEF sentBar
<1>. QED
  BY <1>4, <1>5

\* Taking the mutex for a call, and releasing it after a walk, changes nothing.
LEMMA LockRefines ==
  ASSUME IInv, IInv',
         \/ \E sec \in Intervals : registerLock(sec)
         \/ \E id \in 0..MaxPackets - 1 : unregisterLock(id)
         \/ runUnlock
  PROVE  UNCHANGED <<passes, currentId, liveBar, sentBar>>
<1>1. UNCHANGED <<passes, currentId, packetList, sent>>
  BY DEF registerLock, unregisterLock, runUnlock
<1>2. \A k \in 1..Len(packetList) : Pending(k)' = Pending(k)
  <2>1. Len(packetList) \in Nat /\ i \in Nat
    BY LenProperties DEF IInv, TypeOK
  <2>. QED
    BY <2>1 DEF Pending, registerLock, unregisterLock, runUnlock
<1>3. \A k \in 1..Len(packetList) : Age(k)' = Age(k) /\ Owed(k)' = Owed(k)
  BY <1>1, <1>2, Zenon DEF Age, Owed
<1>. QED
  BY <1>1, <1>3, Stutters

\* One iteration of the walk pays what the pass already owed.
LEMMA ScanRefines ==
  ASSUME IInv, IInv', scanNode
  PROVE  UNCHANGED <<passes, currentId, liveBar, sentBar>>
<1>. DEFINE node == packetList[i]
            due == node.count + 1 = node.sec
<1>1. /\ Len(packetList) \in Nat /\ i \in 1..Len(packetList) /\ runPc = "scan"
      /\ packetList \in Seq(Node) /\ i' = i + 1 /\ runPc' = "scan"
      /\ UNCHANGED <<passes, currentId>>
  BY LenProperties DEF IInv, TypeOK, scanNode
<1>2. /\ node \in Node /\ node.id \in 0..MaxPackets - 1 /\ node.count \in Nat
      /\ node.sec \in Nat \ {0} /\ sent[node.id] \in Nat
  BY <1>1, NodeType
<1>3. PICK m : m = [node EXCEPT !.count = IF due THEN 0 ELSE node.count + 1]
  OBVIOUS
<1>4. m \in Node /\ m.id = node.id /\ m.sec = node.sec /\ m.count = IF due THEN 0 ELSE node.count + 1
  BY <1>2, <1>3 DEF Node
<1>5. packetList' = [packetList EXCEPT ![i] = m]
  BY <1>1, <1>3 DEF scanNode
<1>6. /\ Len(packetList') = Len(packetList)
      /\ packetList'[i] = m
      /\ \A k \in 1..Len(packetList) \ {i} : packetList'[k] = packetList[k]
  BY <1>1, <1>4, <1>5, ExceptSeq
<1>7. sent' = [sent EXCEPT ![node.id] = @ + (IF due THEN 1 ELSE 0)]
  <2>1. CASE due
    BY <2>1 DEF scanNode
  <2>2. CASE ~due
    BY <1>2, <2>2 DEF scanNode, IInv, TypeOK
  <2>. QED
    BY <2>1, <2>2
<1>8. ASSUME NEW k \in 1..Len(packetList)
      PROVE  /\ packetList'[k].id = packetList[k].id
             /\ packetList'[k].sec = packetList[k].sec
             /\ Age(k)' = Age(k)
             /\ (sent[packetList[k].id] + Owed(k))' = sent[packetList[k].id] + Owed(k)
  <2>1. CASE k = i
    <3>1. sent'[node.id] = sent[node.id] + (IF due THEN 1 ELSE 0)
      BY <1>2, <1>7 DEF IInv, TypeOK
    <3>2. Pending(k) /\ ~Pending(k)'
      BY <1>1, <2>1 DEF Pending
    <3>3. Age(k) = sent[node.id] * node.sec + node.count + 1
      BY <1>2, <2>1, <3>2 DEF Age
    <3>4. Age(k)' = sent'[node.id] * node.sec + m.count + 0
      BY <1>4, <1>6, <2>1, <3>2, Zenon DEF Age
    <3>5. Age(k)' = Age(k)
      <4>. HIDE DEF node
      <4>1. CASE due
        <5>1. PICK a, s, c : a = sent[node.id] /\ s = node.sec /\ c = node.count
          OBVIOUS
        <5>2. a \in Nat /\ s \in Nat /\ c \in Nat /\ c + 1 = s
          BY <1>2, <4>1, <5>1
        <5>3. a * s + c + 1 = (a + 1) * s + 0 + 0
          BY <5>2
        <5>4. sent'[node.id] = a + 1 /\ m.count = 0
          BY <1>4, <3>1, <4>1, <5>1
        <5>. QED
          BY <3>3, <3>4, <5>1, <5>3, <5>4, Zenon
      <4>2. CASE ~due
        <5>1. sent'[node.id] = sent[node.id] /\ m.count = node.count + 1
          BY <1>2, <1>4, <3>1, <4>2
        <5>2. sent[node.id] * node.sec \in Nat
          BY <1>2
        <5>. QED
          BY <1>2, <3>3, <3>4, <5>1, <5>2
      <4>. QED
        BY <4>1, <4>2
    <3>6. Owed(k) = (IF due THEN 1 ELSE 0) /\ Owed(k)' = 0
      BY <2>1, <3>2, Zenon DEF Owed
    <3>7. packetList'[k].id = node.id /\ packetList'[k].sec = node.sec
      BY <1>4, <1>6, <2>1
    <3>8. sent[node.id] + Owed(k) = sent'[node.id] + Owed(k)'
      <4>. HIDE DEF node
      <4>. QED
        BY <1>2, <3>1, <3>6
    <3>. QED
      BY <2>1, <3>5, <3>7, <3>8, Zenon
  <2>2. CASE k # i
    <3>1. packetList[k].id # node.id
      <4>1. packetList[k].id \in Nat /\ node.id \in Nat
        BY <1>1, NodeType
      <4>2. (k < i => packetList[k].id < node.id) /\ (i < k => node.id < packetList[k].id)
        BY <1>1 DEF IInv, IdsAscending
      <4>. QED
        BY <1>1, <2>2, <4>1, <4>2
    <3>2. packetList'[k] = packetList[k] /\ sent'[packetList[k].id] = sent[packetList[k].id]
      BY <1>2, <1>6, <1>7, <2>2, <3>1, NodeType DEF IInv, TypeOK
    <3>3. Pending(k)' = Pending(k)
      BY <1>1, <2>2 DEF Pending
    <3>. QED
      BY <3>2, <3>3, Zenon DEF Age, Owed
  <2>. QED
    BY <2>1, <2>2
<1>9. \A n \in (0..currentId - 1) \ Numbers : sent'[n] = sent[n]
  <2>1. node.id \in Numbers
    BY <1>1 DEF Numbers
  <2>. QED
    BY <1>2, <1>7, <2>1, BoundsAssumption DEF IInv, TypeOK
<1>. QED
  BY <1>1, <1>6, <1>8, <1>9, Stutters

\* What counting one more pass does to the interval test: a packet that was sent
\* a times and has counted c passes since is due when c + 1 is its interval.
LEMMA DueWhenCounted ==
  ASSUME NEW a \in Nat, NEW s \in Nat \ {0}, NEW c \in Nat, c < s
  PROVE  ((a * s + c) + 1) % s = 0 <=> c + 1 = s
<1>1. \A q, r \in Nat : r < s => (q * s + r) % s = r
  OBVIOUS
<1>2. CASE c + 1 = s
  <2>1. (a * s + c) + 1 = (a + 1) * s + 0 /\ a + 1 \in Nat
    BY <1>2
  <2>2. ((a + 1) * s + 0) % s = 0
    BY <1>1, <2>1
  <2>. QED
    BY <1>2, <2>1, <2>2
<1>3. CASE c + 1 < s
  <2>1. (a * s + c) + 1 = a * s + (c + 1) /\ c + 1 \in Nat
    BY <1>3
  <2>2. (a * s + (c + 1)) % s = c + 1
    BY <1>1, <1>3, <2>1
  <2>. QED
    BY <1>3, <2>1, <2>2
<1>. QED
  BY <1>2, <1>3

\* Taking the mutex for a walk is a pass of the abstract retransmitter: every
\* node grows older by one, and exactly those that are due are owed a
\* transmission.
LEMMA PassRefines == ASSUME IInv, IInv', runLock PROVE R!Pass
<1>1. /\ UNCHANGED <<currentId, packetList, sent>>
      /\ passes < MaxPasses /\ passes' = passes + 1 /\ passes \in Nat
      /\ runPc = "sleep" /\ runPc' = "scan" /\ i' = 1
  BY DEF IInv, TypeOK, runLock
<1>2. Mapped /\ Mapped' /\ Numbers' = Numbers
  BY <1>1, MappedAlways, Zenon DEF Numbers
<1>3. ASSUME NEW k \in 1..Len(packetList)
      PROVE  /\ liveBar'[packetList[k].id] = liveBar[packetList[k].id]
             /\ sentBar'[packetList[k].id] =
                  sentBar[packetList[k].id]
                    + (IF R!Due(packetList[k].id, passes + 1) THEN 1 ELSE 0)
  <2>. DEFINE node == packetList[k]
              due == node.count + 1 = node.sec
  <2>1. /\ node.id \in Nat /\ node.sec \in Nat \ {0} /\ node.count \in Nat
        /\ node.count < node.sec /\ sent[node.id] \in Nat /\ Age(k) \in Nat
    BY NodeType
  <2>2. ~Pending(k) /\ Pending(k)'
    BY <1>1 DEF Pending
  <2>3. Age(k) = sent[node.id] * node.sec + node.count /\ Age(k)' = Age(k) + 1
    <3>1. sent[node.id] * node.sec \in Nat
      BY <2>1
    <3>2. Age(k) = sent[node.id] * node.sec + node.count + 0
      BY <2>2, Zenon DEF Age
    <3>3. Age(k)' = sent[node.id] * node.sec + node.count + 1
      BY <1>1, <2>2, Zenon DEF Age
    <3>. QED
      BY <2>1, <3>1, <3>2, <3>3
  <2>4. Owed(k) = 0 /\ Owed(k)' = IF due THEN 1 ELSE 0
    BY <1>1, <2>2, Zenon DEF Owed
  <2>5. MapsTo(k) /\ MapsTo(k)'
    BY <1>1, <1>2, Zenon DEF Mapped
  <2>6. liveBar[node.id] = [born |-> passes - Age(k), sec |-> node.sec] /\ node.id \in Numbers
    BY <2>5, Zenon DEF MapsTo
  <2>7. liveBar'[node.id] = liveBar[node.id]
    <3>1. liveBar'[node.id] = [born |-> passes' - Age(k)', sec |-> node.sec]
      BY <1>1, <2>5, Zenon DEF MapsTo
    <3>2. passes' - Age(k)' = passes - Age(k)
      BY <1>1, <2>1, <2>3
    <3>. QED
      BY <2>6, <3>1, <3>2, Zenon
  <2>8. R!Due(node.id, passes + 1) <=> due
    <3>1. R!Due(node.id, passes + 1) <=> ((passes + 1) - (passes - Age(k))) % node.sec = 0
      <4>1. node.id \in DOMAIN liveBar
        BY <2>6, Zenon DEF liveBar
      <4>2. liveBar[node.id].born = passes - Age(k) /\ liveBar[node.id].sec = node.sec
        BY <2>6
      <4>. QED
        BY <4>1, <4>2, Zenon DEF R!Due
    <3>2. (passes + 1) - (passes - Age(k)) = (sent[node.id] * node.sec + node.count) + 1
      <4>1. (passes + 1) - (passes - Age(k)) = Age(k) + 1
        BY <1>1, <2>1
      <4>. QED
        BY <2>3, <4>1, Zenon
    <3>3. ((sent[node.id] * node.sec + node.count) + 1) % node.sec = 0 <=> due
      BY <2>1, DueWhenCounted
    <3>. QED
      BY <3>1, <3>2, <3>3, Zenon
  <2>9. sentBar[node.id] = sent[node.id] + 0 /\ sentBar'[node.id] = sent[node.id] + (IF due THEN 1 ELSE 0)
    BY <1>1, <2>4, <2>5, Zenon DEF MapsTo
  <2>10. sentBar'[node.id] = sentBar[node.id] + (IF R!Due(node.id, passes + 1) THEN 1 ELSE 0)
    <3>1. sent[node.id] + 0 = sent[node.id]
      BY <2>1
    <3>. QED
      BY <2>8, <2>9, <3>1, Zenon
  <2>. QED
    BY <2>7, <2>10
<1>4. liveBar' = liveBar
  <2>1. \A n \in Numbers : liveBar'[n] = liveBar[n]
    BY <1>3, Zenon DEF Numbers
  <2>. QED
    BY <1>2, <2>1, Zenon DEF liveBar
<1>5. sentBar' = [n \in DOMAIN sentBar |->
                    sentBar[n] + (IF R!Due(n, passes + 1) THEN 1 ELSE 0)]
  <2>1. DOMAIN sentBar = 0..currentId - 1 /\ DOMAIN liveBar = Numbers
    BY Zenon DEF sentBar, liveBar
  <2>2. ASSUME NEW n \in 0..currentId - 1
        PROVE  sentBar'[n] = sentBar[n] + (IF R!Due(n, passes + 1) THEN 1 ELSE 0)
    <3>1. CASE n \in Numbers
      BY <1>3, <3>1, Zenon DEF Numbers
    <3>2. CASE n \notin Numbers
      <4>1. ~R!Due(n, passes + 1)
        BY <2>1, <3>2, Zenon DEF R!Due
      <4>2. sentBar[n] = sent[n] + 0 /\ sentBar'[n] = sent[n] + 0
        BY <1>1, <1>2, <2>2, <3>2, Zenon DEF sentBar
      <4>3. sent[n] \in Nat
        BY <2>2, BoundsAssumption DEF IInv, TypeOK
      <4>. QED
        BY <4>1, <4>2, <4>3
    <3>. QED
      BY <3>1, <3>2
  <2>3. sentBar' = [n \in 0..currentId - 1 |-> sentBar'[n]]
    BY <1>1, Zenon DEF sentBar
  <2>. QED
    BY <2>1, <2>2, <2>3, Zenon
<1>. QED
  BY <1>1, <1>4, <1>5, Zenon DEF R!Pass

\* The body of registerPacket is a registration of the abstract retransmitter.
LEMMA RegisterRefines == ASSUME RInv, RInv', registerPacket PROVE R!Register(arg)
<1>1. /\ IInv /\ IInv' /\ IntervalAsked /\ UnissuedUnsent
      /\ currentId \in Nat /\ currentId < MaxPackets /\ arg \in Nat \ {0}
      /\ packetList \in Seq(Node) /\ Len(packetList) \in Nat
  BY LenProperties, BoundsAssumption DEF RInv, IInv, TypeOK, CallInv, registerPacket
<1>2. /\ UNCHANGED <<passes, sent, runPc, i>> /\ currentId' = currentId + 1
      /\ runPc # "scan"
  BY <1>1 DEF IInv, TypeOK, MutexHeld, registerPacket
<1>3. PICK node : node = [id |-> currentId, sec |-> arg, count |-> 0]
  OBVIOUS
<1>4. node \in Node /\ node.id = currentId /\ node.sec = arg /\ node.count = 0
  BY <1>1, <1>3 DEF Node
<1>5. /\ Len(packetList') = Len(packetList) + 1
      /\ \A k \in 1..Len(packetList) : packetList'[k] = packetList[k]
      /\ packetList'[Len(packetList) + 1] = node
  BY <1>1, <1>3, <1>4, AppendProperties DEF registerPacket
<1>6. Mapped /\ Mapped'
  BY <1>1, MappedAlways
<1>7. Numbers' = Numbers \cup {currentId}
  <2>1. 1..Len(packetList') = 1..Len(packetList) \cup {Len(packetList) + 1}
    BY <1>1, <1>5
  <2>2. ASSUME NEW n \in Numbers' PROVE n \in Numbers \cup {currentId}
    <3>1. PICK j \in 1..Len(packetList') : n = packetList'[j].id
      BY Zenon DEF Numbers
    <3>. QED
      BY <1>4, <1>5, <2>1, <3>1 DEF Numbers
  <2>3. ASSUME NEW n \in Numbers PROVE n \in Numbers'
    <3>1. PICK j \in 1..Len(packetList) : n = packetList[j].id
      BY Zenon DEF Numbers
    <3>2. j \in 1..Len(packetList') /\ n = packetList'[j].id
      BY <1>5, <2>1, <3>1
    <3>. QED
      BY <3>2, Zenon DEF Numbers
  <2>4. currentId \in Numbers'
    <3>1. Len(packetList) + 1 \in 1..Len(packetList')
      BY <2>1
    <3>. QED
      BY <1>4, <1>5, <3>1, Zenon DEF Numbers
  <2>. QED
    BY <2>2, <2>3, <2>4
<1>8. \A k : ~Pending(k) /\ ~Pending(k)'
  BY <1>2 DEF Pending
<1>9. ASSUME NEW k \in 1..Len(packetList)
      PROVE  /\ liveBar'[packetList[k].id] = liveBar[packetList[k].id]
             /\ sentBar'[packetList[k].id] = sentBar[packetList[k].id]
  <2>1. k \in 1..Len(packetList')
    BY <1>1, <1>5
  <2>2. Age(k)' = Age(k) /\ Owed(k)' = Owed(k)
    BY <1>2, <1>5, <1>8, Zenon DEF Age, Owed
  <2>3. MapsTo(k) /\ MapsTo(k)'
    BY <1>6, <2>1, Zenon DEF Mapped
  <2>4. packetList'[k] = packetList[k] /\ passes' = passes /\ sent' = sent
    BY <1>2, <1>5
  <2>. QED
    BY <2>2, <2>3, <2>4, Zenon DEF MapsTo
<1>10. liveBar'[currentId] = [born |-> passes, sec |-> arg] /\ sentBar'[currentId] = 0
  <2>1. PICK k : k = Len(packetList) + 1
    OBVIOUS
  <2>2. k \in 1..Len(packetList') /\ packetList'[k] = node
    BY <1>1, <1>5, <2>1
  <2>3. sent[currentId] = 0
    BY <1>1, BoundsAssumption DEF UnissuedUnsent
  <2>4. Age(k)' = 0 * arg + 0 + 0 /\ Owed(k)' = 0
    BY <1>2, <1>4, <1>8, <2>2, <2>3, Zenon DEF Age, Owed
  <2>5. MapsTo(k)'
    BY <1>6, <2>2, Zenon DEF Mapped
  <2>6. /\ liveBar'[currentId] = [born |-> passes - (0 * arg + 0 + 0), sec |-> arg]
        /\ sentBar'[currentId] = 0 + 0
    BY <1>2, <1>4, <2>2, <2>3, <2>4, <2>5, Zenon DEF MapsTo
  <2>7. passes - (0 * arg + 0 + 0) = passes /\ 0 + 0 = 0
    BY <1>1 DEF IInv, TypeOK
  <2>. QED
    BY <2>6, <2>7, Zenon
<1>11. liveBar' = [n \in DOMAIN liveBar \cup {currentId} |->
                     IF n = currentId THEN [born |-> passes, sec |-> arg] ELSE liveBar[n]]
  <2>1. DOMAIN liveBar = Numbers
    BY Zenon DEF liveBar
  <2>2. \A n \in Numbers : n # currentId /\ liveBar'[n] = liveBar[n]
    <3>1. \A k \in 1..Len(packetList) : packetList[k].id # currentId
      BY <1>1, NodeType
    <3>. QED
      BY <1>9, <3>1, Zenon DEF Numbers
  <2>3. liveBar' = [n \in Numbers' |-> liveBar'[n]]
    BY Zenon DEF liveBar
  <2>. QED
    BY <1>7, <1>10, <2>1, <2>2, <2>3, Zenon
<1>12. sentBar' = [n \in 0..currentId |-> IF n = currentId THEN 0 ELSE sentBar[n]]
  <2>1. 0..currentId' - 1 = 0..currentId /\ \A n \in 0..currentId : n # currentId => n \in 0..currentId - 1
    BY <1>1, <1>2
  <2>2. ASSUME NEW n \in 0..currentId, n # currentId PROVE sentBar'[n] = sentBar[n]
    <3>1. CASE n \in Numbers
      BY <1>9, <3>1, Zenon DEF Numbers
    <3>2. CASE n \notin Numbers
      <4>1. n \notin Numbers' /\ n \in 0..currentId - 1 /\ n \in 0..currentId' - 1
        BY <1>7, <2>1, <2>2, <3>2
      <4>. QED
        BY <1>2, <3>2, <4>1, Zenon DEF sentBar
    <3>. QED
      BY <3>1, <3>2
  <2>3. sentBar' = [n \in 0..currentId' - 1 |-> sentBar'[n]]
    BY Zenon DEF sentBar
  <2>. QED
    BY <1>10, <2>1, <2>2, <2>3, Zenon
<1>. QED
  BY <1>1, <1>2, <1>11, <1>12, Zenon DEF R!Register

\* The body of unregisterPacket cancels the packet that was meant, or does
\* nothing when that one is not registered.
LEMMA UnregisterRefines ==
  ASSUME IInv, IInv', unregisterPacket
  PROVE  \/ \E n \in DOMAIN liveBar : R!Cancel(n)
         \/ UNCHANGED <<passes, currentId, liveBar, sentBar>>
<1>1. /\ UNCHANGED <<passes, currentId, sent, runPc, i>>
      /\ packetList \in Seq(Node) /\ Len(packetList) \in Nat
  BY LenProperties DEF IInv, TypeOK, unregisterPacket
<1>2. \A k : ~Pending(k) /\ ~Pending(k)'
  BY DEF Pending, IInv, TypeOK, MutexHeld, unregisterPacket
<1>3. Mapped /\ Mapped' /\ DOMAIN liveBar = Numbers
  BY MappedAlways, Zenon DEF liveBar
<1>4. CASE UNCHANGED packetList
  <2>1. \A k : Age(k)' = Age(k) /\ Owed(k)' = Owed(k)
    BY <1>1, <1>2, <1>4, Zenon DEF Age, Owed
  <2>. QED
    BY <1>1, <1>4, <2>1, Stutters
<1>5. ASSUME NEW k \in 1..Len(packetList), packetList' = Erase(packetList, k)
      PROVE  R!Cancel(packetList[k].id)
  <2>. DEFINE gone == packetList[k].id
  <2>1. /\ Len(packetList') = Len(packetList) - 1
        /\ \A j \in 1..Len(packetList) - 1 :
             packetList'[j] = packetList[IF j < k THEN j ELSE j + 1]
    BY <1>1, <1>5, EraseProperties
  <2>2. \A j \in 1..Len(packetList) \ {k} : packetList[j].id # gone
    BY NodeType DEF IInv, IdsAscending
  <2>3. ASSUME NEW j \in 1..Len(packetList')
        PROVE  \E h \in 1..Len(packetList) \ {k} : packetList'[j] = packetList[h]
    <3>1. (IF j < k THEN j ELSE j + 1) \in 1..Len(packetList) \ {k}
      BY <1>1, <2>1
    <3>. QED
      BY <2>1, <3>1
  <2>4. ASSUME NEW h \in 1..Len(packetList) \ {k}
        PROVE  \E j \in 1..Len(packetList') : packetList'[j] = packetList[h]
    <3>1. CASE h < k
      BY <1>1, <2>1, <3>1
    <3>2. CASE h > k
      <4>1. h - 1 \in 1..Len(packetList) - 1 /\ ~(h - 1 < k) /\ (h - 1) + 1 = h
        BY <1>1, <3>2
      <4>. QED
        BY <2>1, <4>1
    <3>. QED
      BY <1>1, <3>1, <3>2
  <2>5. Numbers' = Numbers \ {gone}
    <3>1. ASSUME NEW n \in Numbers' PROVE n \in Numbers \ {gone}
      <4>1. PICK j \in 1..Len(packetList') : n = packetList'[j].id
        BY Zenon DEF Numbers
      <4>. QED
        BY <2>2, <2>3, <4>1, Zenon DEF Numbers
    <3>2. ASSUME NEW n \in Numbers \ {gone} PROVE n \in Numbers'
      <4>1. PICK h \in 1..Len(packetList) : n = packetList[h].id
        BY Zenon DEF Numbers
      <4>2. h \in 1..Len(packetList) \ {k}
        BY <3>2, <4>1
      <4>3. PICK j \in 1..Len(packetList') : packetList'[j] = packetList[h]
        BY <2>4, <4>2
      <4>. QED
        BY <4>1, <4>3, Zenon DEF Numbers
    <3>. QED
      BY <3>1, <3>2
  <2>6. ASSUME NEW n \in Numbers'
        PROVE  liveBar'[n] = liveBar[n] /\ sentBar'[n] = sentBar[n]
    <3>1. PICK j \in 1..Len(packetList') : packetList'[j].id = n
      BY Zenon DEF Numbers
    <3>2. PICK h \in 1..Len(packetList) : packetList'[j] = packetList[h]
      BY <2>3
    <3>3. Age(j)' = sent[n] * packetList[h].sec + packetList[h].count + 0 /\ Owed(j)' = 0
      BY <1>1, <1>2, <3>1, <3>2, Zenon DEF Age, Owed
    <3>4. Age(h) = sent[n] * packetList[h].sec + packetList[h].count + 0 /\ Owed(h) = 0
      BY <1>2, <3>1, <3>2, Zenon DEF Age, Owed
    <3>5. MapsTo(j)' /\ MapsTo(h)
      BY <1>3, Zenon DEF Mapped
    <3>. QED
      BY <1>1, <3>1, <3>2, <3>3, <3>4, <3>5, Zenon DEF MapsTo
  <2>7. liveBar' = [n \in DOMAIN liveBar \ {gone} |-> liveBar[n]]
    <3>1. liveBar' = [n \in Numbers' |-> liveBar'[n]]
      BY Zenon DEF liveBar
    <3>. QED
      BY <1>3, <2>5, <2>6, <3>1, Zenon
  <2>8. sentBar' = sentBar
    <3>1. ASSUME NEW n \in 0..currentId - 1 PROVE sentBar'[n] = sentBar[n]
      <4>1. CASE n \in Numbers'
        BY <2>6, <4>1
      <4>2. CASE n = gone
        <5>1. sentBar'[n] = sent[n] + 0
          BY <1>1, <2>5, <3>1, <4>2, Zenon DEF sentBar
        <5>2. sentBar[n] = sent[n] + 0
          <6>1. MapsTo(k) /\ Owed(k) = 0
            BY <1>2, <1>3, Zenon DEF Mapped, Owed
          <6>. QED
            BY <4>2, <6>1, Zenon DEF MapsTo
        <5>. QED
          BY <5>1, <5>2
      <4>3. CASE n \notin Numbers
        BY <1>1, <2>5, <3>1, <4>3, Zenon DEF sentBar
      <4>. QED
        BY <2>5, <4>1, <4>2, <4>3
    <3>. QED
      BY <1>1, <3>1, Zenon DEF sentBar
  <2>9. gone \in DOMAIN liveBar
    BY <1>3, Zenon DEF Numbers
  <2>. QED
    BY <1>1, <2>7, <2>8, <2>9, Zenon DEF R!Cancel
<1>. QED
  <2>1. \A k \in 1..Len(packetList) : packetList[k].id \in DOMAIN liveBar
    BY <1>3, Zenon DEF Numbers
  <2>. QED
    BY <1>4, <1>5, <2>1 DEF unregisterPacket

-----------------------------------------------------------------------------
(* The theorem of refinement. *)

\* PacketRetransmitter implements Resend: every registered packet is sent on
\* exactly every sec-th pass after its registration, no pass is missed or
\* counted twice however the two threads interleave, and a packet that was
\* unregistered is never sent again (PacketRetransmitter.cpp:11-50).
THEOREM ImplementsResend == Spec => KeepsPromise
<1>1. Init => R!Init
  <2>. SUFFICES ASSUME Init PROVE R!Init
    OBVIOUS
  <2>1. Len(packetList) = 0 /\ Numbers = {} /\ passes = 0 /\ currentId = 0
    BY DEF Init, Numbers
  <2>2. 0..currentId - 1 = {}
    BY <2>1
  <2>3. \A f, e : DOMAIN f = {} /\ f = [n \in {} |-> f[n]] => f = << >>
    OBVIOUS
  <2>4. DOMAIN liveBar = {} /\ liveBar = [n \in {} |-> liveBar[n]]
    BY <2>1, Zenon DEF liveBar
  <2>5. DOMAIN sentBar = {} /\ sentBar = [n \in {} |-> sentBar[n]]
    BY <2>2, Zenon DEF sentBar
  <2>6. liveBar = << >> /\ sentBar = << >>
    BY <2>3, <2>4, <2>5, Zenon
  <2>. QED
    BY <2>1, <2>6, Zenon DEF R!Init
<1>2. RInv /\ RInv' /\ [Next]_vars => [R!Next]_(R!vars)
  <2>. SUFFICES ASSUME RInv, RInv', [Next]_vars
                PROVE  R!Next \/ UNCHANGED <<passes, currentId, liveBar, sentBar>>
    BY Zenon DEF R!vars
  <2>1. IInv /\ IInv'
    BY DEF RInv
  <2>2. CASE \/ \E sec \in Intervals : registerLock(sec)
             \/ \E id \in 0..MaxPackets - 1 : unregisterLock(id)
             \/ runUnlock
    BY <2>1, <2>2, LockRefines
  <2>3. CASE scanNode
    BY <2>1, <2>3, ScanRefines
  <2>4. CASE runLock
    BY <2>1, <2>4, PassRefines DEF R!Next
  <2>5. CASE registerPacket
    <3>1. arg \in Intervals
      BY <2>5 DEF RInv, IntervalAsked, registerPacket
    <3>. QED
      BY <2>5, <3>1, RegisterRefines DEF R!Next
  <2>6. CASE unregisterPacket
    BY <2>1, <2>6, UnregisterRefines DEF R!Next
  <2>7. CASE UNCHANGED vars
    <3>1. UNCHANGED <<passes, currentId, packetList, sent, runPc, i>>
      BY <2>7 DEF vars
    <3>. QED
      BY <3>1, Zenon DEF liveBar, sentBar, Numbers, Position, Age, Pending
  <2>. QED
    BY <2>2, <2>3, <2>4, <2>5, <2>6, <2>7 DEF Next
<1>. QED
  BY <1>1, <1>2, RInvariance, PTL DEF Spec, KeepsPromise, R!Spec
=============================================================================
