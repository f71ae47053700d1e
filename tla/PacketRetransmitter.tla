------------------------ MODULE PacketRetransmitter -------------------------
(***************************************************************************)
(* PacketRetransmitter.cpp: one vector of packet nodes, one mutex, and two *)
(* threads that use them.  The retransmission thread (run) takes the mutex *)
(* once a second, walks the whole vector by index and sends the nodes      *)
(* whose count has reached sec; the receive thread registers and           *)
(* unregisters packets.  Each thread's lock, body and unlock are separate  *)
(* steps, and the walk is one step per node, so that everything the mutex  *)
(* has to exclude can be interleaved when it is missing.                   *)
(***************************************************************************)
EXTENDS Naturals, Sequences

CONSTANTS
  Intervals,   \* values of the parameter sec of registerPacket
  MaxPackets,  \* bound: registrations in one behaviour
  MaxPasses    \* bound: passes of run in one behaviour

ASSUME IntervalsAssumption == Intervals \subseteq Nat \ {0}
ASSUME BoundsAssumption == MaxPackets \in Nat /\ MaxPasses \in Nat

VARIABLES
  packetList,  \* the vector: a sequence of nodes [id, sec, count]
  currentId,   \* the next packet number
  lock,        \* holder of the mutex: "none", "run" or "caller"
  runPc,       \* run: "sleep" outside the mutex, "scan" inside
  i,           \* run's index into the vector (1-based here)
  callerPc,    \* the receive thread: "idle", "register" or "unregister"
  arg,         \* the argument of the call in progress: sec, or a packet number
  sent,        \* history: packet number -> number of transmissions
  passes       \* history: passes begun

vars == <<packetList, currentId, lock, runPc, i, callerPc, arg, sent, passes>>

Node == [id : Nat, sec : Nat \ {0}, count : Nat]

TypeOK ==
  /\ packetList \in Seq(Node)
  /\ currentId \in 0..MaxPackets
  /\ lock \in {"none", "run", "caller"}
  /\ runPc \in {"sleep", "scan"}
  /\ i \in Nat \ {0}
  /\ callerPc \in {"idle", "register", "unregister"}
  /\ arg \in Nat
  /\ sent \in [0..MaxPackets - 1 -> Nat]
  /\ passes \in 0..MaxPasses

Init ==
  /\ packetList = << >>
  /\ currentId = 0
  /\ lock = "none"
  /\ runPc = "sleep"
  /\ i = 1
  /\ callerPc = "idle"
  /\ arg = 0
  /\ sent = [n \in 0..MaxPackets - 1 |-> 0]
  /\ passes = 0

-----------------------------------------------------------------------------
(* The receive thread. *)

registerLock(sec) ==
  /\ callerPc = "idle"
  /\ lock = "none"
  /\ currentId < MaxPackets
  /\ lock' = "caller"
  /\ callerPc' = "register"
  /\ arg' = sec
  /\ UNCHANGED <<packetList, currentId, runPc, i, sent, passes>>

\* Mutant of registerPacket: the number is not advanced.
registerSameId ==
  /\ callerPc = "register"
  /\ packetList' = Append(packetList, [id |-> currentId, sec |-> arg, count |-> 0])
  /\ lock' = "none"
  /\ callerPc' = "idle"
  /\ arg' = 0
  /\ UNCHANGED <<currentId, runPc, i, sent, passes>>

\* Mutant of registerPacket: the pass in progress is counted already.
registerCounted ==
  /\ callerPc = "register"
  /\ packetList' = Append(packetList, [id |-> currentId, sec |-> arg, count |-> 1])
  /\ currentId' = currentId + 1
  /\ lock' = "none"
  /\ callerPc' = "idle"
  /\ arg' = 0
  /\ UNCHANGED <<runPc, i, sent, passes>>

\* Mutant of registerPacket: the node gets the number before its own.
registerOldId ==
  /\ callerPc = "register"
  /\ packetList' = Append(packetList, [id |-> currentId - 1, sec |-> arg, count |-> 0])
  /\ currentId' = currentId + 1
  /\ lock' = "none"
  /\ callerPc' = "idle"
  /\ arg' = 0
  /\ UNCHANGED <<runPc, i, sent, passes>>

registerPacket ==
  /\ callerPc = "register"
  /\ packetList' = Append(packetList, [id |-> currentId, sec |-> arg, count |-> 0])
  /\ currentId' = currentId + 1
  /\ lock' = "none"
  /\ callerPc' = "idle"
  /\ arg' = 0
  /\ UNCHANGED <<runPc, i, sent, passes>>

\* Mutant of unregisterLock: pthread_mutex_lock is missing.
unregisterNoLock(id) ==
  /\ callerPc = "idle"
  /\ lock' = "caller"
  /\ callerPc' = "unregister"
  /\ arg' = id
  /\ UNCHANGED <<packetList, currentId, runPc, i, sent, passes>>

unregisterLock(id) ==
  /\ callerPc = "idle"
  /\ lock = "none"
  /\ lock' = "caller"
  /\ callerPc' = "unregister"
  /\ arg' = id
  /\ UNCHANGED <<packetList, currentId, runPc, i, sent, passes>>

\* Erase the node at position k.
Erase(s, k) == [j \in 1..Len(s) - 1 |-> IF j < k THEN s[j] ELSE s[j + 1]]

\* The first node that carries the number is erased; a number that is not in
\* the vector is ignored.
unregisterPacket ==
  /\ callerPc = "unregister"
  /\ \/ \E k \in 1..Len(packetList) :
          /\ packetList[k].id = arg
          /\ \A j \in 1..k - 1 : packetList[j].id # arg
          /\ packetList' = Erase(packetList, k)
     \/ /\ \A k \in 1..Len(packetList) : packetList[k].id # arg
        /\ UNCHANGED packetList
  /\ lock' = "none"
  /\ callerPc' = "idle"
  /\ arg' = 0
  /\ UNCHANGED <<currentId, runPc, i, sent, passes>>

-----------------------------------------------------------------------------
(* The retransmission thread. *)

runLock ==
  /\ runPc = "sleep"
  /\ lock = "none"
  /\ passes < MaxPasses
  /\ lock' = "run"
  /\ runPc' = "scan"
  /\ i' = 1
  /\ passes' = passes + 1
  /\ UNCHANGED <<packetList, currentId, callerPc, arg, sent>>

\* Mutant of scanNode: the count is compared before it is advanced.
scanNodeLate ==
  /\ runPc = "scan"
  /\ i <= Len(packetList)
  /\ LET node == packetList[i] IN
       IF node.count = node.sec
       THEN /\ packetList' = [packetList EXCEPT ![i].count = 0]
            /\ sent' = [sent EXCEPT ![node.id] = @ + 1]
       ELSE /\ packetList' = [packetList EXCEPT ![i].count = @ + 1]
            /\ UNCHANGED sent
  /\ i' = i + 1
  /\ UNCHANGED <<currentId, lock, runPc, callerPc, arg, passes>>

\* One iteration of the loop: count the pass, and send when the interval is up.
scanNode ==
  /\ runPc = "scan"
  /\ i <= Len(packetList)
  /\ LET node == packetList[i] IN
       IF node.count + 1 = node.sec
       THEN /\ packetList' = [packetList EXCEPT ![i].count = 0]
            /\ sent' = [sent EXCEPT ![node.id] = @ + 1]
       ELSE /\ packetList' = [packetList EXCEPT ![i].count = @ + 1]
            /\ UNCHANGED sent
  /\ i' = i + 1
  /\ UNCHANGED <<currentId, lock, runPc, callerPc, arg, passes>>

runUnlock ==
  /\ runPc = "scan"
  /\ i > Len(packetList)
  /\ lock' = "none"
  /\ runPc' = "sleep"
  /\ i' = 1
  /\ UNCHANGED <<packetList, currentId, callerPc, arg, sent, passes>>

Next ==
  \/ \E sec \in Intervals : registerLock(sec)
  \/ registerPacket
  \/ \E id \in 0..MaxPackets - 1 : unregisterLock(id)
  \/ unregisterPacket
  \/ runLock
  \/ scanNode
  \/ runUnlock

Spec == Init /\ [][Next]_vars

-----------------------------------------------------------------------------
(* Properties. *)

\* The mutex excludes the two threads from the vector: whoever is past its
\* lock call is the holder (PacketRetransmitter.cpp:14, 24, 38).
MutexHeld ==
  /\ runPc = "scan" <=> lock = "run"
  /\ callerPc # "idle" <=> lock = "caller"

\* Numbers in the vector are distinct, in the order they were handed out, and
\* below currentId: unregisterPacket stops at the first match and so removes
\* the packet that was meant (PacketRetransmitter.cpp:15, 25-29).
IdsAscending ==
  /\ \A k \in 1..Len(packetList) : packetList[k].id < currentId
  /\ \A j, k \in 1..Len(packetList) : j < k => packetList[j].id < packetList[k].id

\* No count outside the walk's step ever reaches sec, so the equality test of
\* line 42 cannot be stepped over, after which a packet would never be sent
\* again.
CountBelowSec == \A k \in 1..Len(packetList) : packetList[k].count < packetList[k].sec

\* While run walks the vector (it holds a pointer to a node and an index), no
\* node is added, removed or moved (PacketRetransmitter.cpp:38-47).
ScanUndisturbed ==
  [][runPc = "scan" =>
       /\ Len(packetList') = Len(packetList)
       /\ \A k \in 1..Len(packetList) : packetList'[k].id = packetList[k].id]_vars

-----------------------------------------------------------------------------
(* The promise, with a pass of run taking effect when it takes the mutex:  *)
(* a node that the walk has not reached yet already counts as visited.     *)

Pending(k) == runPc = "scan" /\ k >= i

\* Passes the node at position k has lived through.
Age(k) ==
  sent[packetList[k].id] * packetList[k].sec + packetList[k].count
    + (IF Pending(k) THEN 1 ELSE 0)

Position(id) == CHOOSE k \in 1..Len(packetList) : packetList[k].id = id

Numbers == {packetList[k].id : k \in 1..Len(packetList)}

liveBar ==
  [id \in Numbers |->
     [born |-> passes - Age(Position(id)), sec |-> packetList[Position(id)].sec]]

sentBar ==
  [id \in 0..currentId - 1 |->
     sent[id] + (IF /\ id \in Numbers
                    /\ Pending(Position(id))
                    /\ packetList[Position(id)].count + 1 = packetList[Position(id)].sec
                 THEN 1 ELSE 0)]

R == INSTANCE Resend WITH issued <- currentId, live <- liveBar, sent <- sentBar

\* Every registered packet is sent on every sec-th pass after its
\* registration, no pass is missed or counted twice whatever the two threads'
\* interleaving, and a packet that was unregistered is never sent again.
KeepsPromise == R!Spec
=============================================================================
