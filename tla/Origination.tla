---------------------------- MODULE Origination -----------------------------
(***************************************************************************)
(* How a router keeps its own router LSA up to date: onRouterLSAGenerate,  *)
(* called by the receive thread and by the timer's thread whenever they    *)
(* have run calcDR; the queue rlsaList; the thread lsaGenerate, which      *)
(* takes the LSA from the queue into the database; and the packet handlers *)
(* that read it there or meet a copy of it from the LAN.                   *)
(*                                                                         *)
(* One interface (main.cpp:39-41).  Whatever calcDR elects is a router     *)
(* that this one knows (DrIsKnown of the module Election), any of them     *)
(* here.  The variable lost is history: it collects the reasons why the    *)
(* LSA that is queued or installed last may not be the one that describes  *)
(* the interface.                                                          *)
(***************************************************************************)
EXTENDS Wire, FiniteSets

CONSTANTS
  Self,        \* the router's id and address (main.cpp:16, 40)
  Peers,       \* its neighbours' addresses
  Cost,        \* the interface's cost
  Earlier,     \* the DRs it has named in LSAs before it was restarted
  Reflecting,  \* whether LS updates with our own LSA may arrive
  MaxCalls,    \* bound: calls of onRouterLSAGenerate
  MaxChanges   \* bound: changes of FULL

Router == Peers \cup {Self}

ASSUME PeerAssumption == Self \notin Peers /\ Earlier \subseteq Router
ASSUME AddressAssumption == Router \subseteq Word32 /\ Cost \in Word16
ASSUME BoundAssumption == MaxCalls \in Nat /\ MaxChanges \in Nat /\ Reflecting \in BOOLEAN

VARIABLES
  fault,          \* "none", or what ended the process: "null_lsa", "null_nbr"
  waiting,        \* currentState is IT_ST_WAITING
  dr,             \* the interface's dr
  full,           \* the neighbours in NBR_ST_FULL
  timer,          \* waitTimer is still asleep
  call,           \* call[t]: where thread t is in onRouterLSAGenerate
  rlsaList,       \* the queue of generated LSAs
  generator,      \* the LSA that lsaGenerate has in its hands, or NoLsa
  routerLSAList,  \* the copies of the router's own LSA in the database
  sent,           \* the LS updates with its own LSA that it has sent, ever
  lost,           \* history: why the last LSA may be out of date
  calls,          \* history: how many LSAs have been generated
  changes         \* history: how often FULL has changed

interface == <<waiting, dr, full, timer>>
database == <<generator, routerLSAList>>
counters == <<calls, changes>>
vars == <<fault, interface, call, rlsaList, database, sent, lost, counters>>

Thread == {"recv", "wait"}

Nobody == Zero32

-----------------------------------------------------------------------------
(* LSAs. *)

\* The two kinds of links (generateRouterLSA).
Stub == [linkId |-> SubSeq(Self, 1, 3) \o <<0>>, linkData |-> <<255, 255, 255, 0>>, type |-> 3, metric |-> Cost]
Transit(d) == [linkId |-> d, linkData |-> Self, type |-> 2, metric |-> Cost]

Links == {<<Stub>>} \cup {<<Transit(d)>> : d \in Router \cup {Nobody}}

\* A generated LSA.  History: the number of its generation, and whether the
\* interface changed while it was read.
Generated == [links : Links, number : Nat, torn : BOOLEAN]
NoLsa == [number |-> -1]

\* A copy in the database.  counted: linkNum is the number of links, and len the
\* length.  Both are set by refresh, when the copy is sent, and by the
\* constructor that reads a packet; in an LSA that was only generated linkNum is
\* 0 and len is whatever was on the stack.
Copy == [links : Links, counted : BOOLEAN]

\* The router is the DR, or its adjacency with the DR is FULL.
HasDr == ~waiting /\ (dr = Self \/ dr \in full)

\* What a thread that generates now puts into the LSA.
Describe == IF HasDr THEN <<Transit(dr)>> ELSE <<Stub>>

\* The packet that carries each of them.
PacketOf ==
  [k \in Links |-> LSUpdatePacket([state_id |-> Self, ad_router |-> Self, links |-> k], Self)]

\* The LSA that is the last word on the interface: the last one in the queue,
\* or the one being installed, or else the one a lookup finds.
LastWord ==
  IF rlsaList # << >> THEN Last(rlsaList).links
  ELSE IF generator # NoLsa THEN generator.links
  ELSE IF routerLSAList # << >> THEN routerLSAList[1].links
  ELSE << >>

Idle == [pc |-> "idle"]

\* main has generated the first LSA.  A process that ran before this one may
\* have sent others; a restart is a new behaviour with what has been sent.
Init ==
  /\ fault = "none"
  /\ waiting = TRUE
  /\ dr = Nobody
  /\ full = {}
  /\ timer = TRUE
  /\ call = [t \in Thread |-> Idle]
  /\ rlsaList = <<[links |-> <<Stub>>, number |-> 0, torn |-> FALSE]>>
  /\ generator = NoLsa
  /\ routerLSAList = << >>
  /\ sent = {PacketOf[<<Transit(d)>>] : d \in Earlier}
  /\ lost = {}
  /\ calls = 0
  /\ changes = 0

-----------------------------------------------------------------------------
(* The events that change the interface. *)

Free(t) == fault = "none" /\ call[t].pc = "idle"

\* Threads that have changed the interface and not yet read it.
Reading == {t \in Thread : call[t].pc \in {"test", "find", "state", "fill"}}
MayCall == calls + Cardinality(Reading) < MaxCalls

\* calcDR writes dr, and onBackUpSeen leaves WAITING, before the LSA is
\* generated.
backUpSeen(d) ==
  /\ Free("recv")
  /\ MayCall
  /\ waiting
  /\ waiting' = FALSE
  /\ dr' = d
  /\ call' = [call EXCEPT !["recv"] = [pc |-> "test"]]
  /\ UNCHANGED <<fault, full, timer, rlsaList, database, sent, lost, counters>>

nbrChange(d) ==
  /\ Free("recv")
  /\ MayCall
  /\ dr' = d
  /\ call' = [call EXCEPT !["recv"] = [pc |-> "test"]]
  /\ UNCHANGED <<fault, waiting, full, timer, rlsaList, database, sent, lost, counters>>

\* The timer's thread, once: onWaitTimer looks at the state, and then elects.
waitTimer ==
  /\ Free("wait")
  /\ timer
  /\ timer' = FALSE
  /\ call' = IF waiting THEN [call EXCEPT !["wait"] = [pc |-> "elect"]] ELSE call
  /\ UNCHANGED <<fault, waiting, dr, full, rlsaList, database, sent, lost, counters>>

onWaitTimer(d) ==
  /\ fault = "none"
  /\ call["wait"].pc = "elect"
  /\ MayCall
  /\ dr' = d
  /\ call' = [call EXCEPT !["wait"] = [pc |-> "test"]]
  /\ UNCHANGED <<fault, waiting, full, timer, rlsaList, database, sent, lost, counters>>

\* Mutant of changeFull: another thread changes the neighbour's state.
changeFullAnytime(p) ==
  /\ fault = "none"
  /\ changes < MaxChanges
  /\ full' = IF p \in full THEN full \ {p} ELSE full \cup {p}
  /\ changes' = changes + 1
  /\ UNCHANGED <<fault, waiting, dr, timer, call, rlsaList, database, sent, calls>>
  /\ lost' = IF Describe' = Describe THEN lost ELSE lost \cup {"full"}

\* An adjacency becomes FULL, or is reset: no LSA is generated.
changeFull(p) ==
  /\ Free("recv")
  /\ changes < MaxChanges
  /\ full' = IF p \in full THEN full \ {p} ELSE full \cup {p}
  /\ changes' = changes + 1
  /\ UNCHANGED <<fault, waiting, dr, timer, call, rlsaList, database, sent, calls>>
  /\ lost' = IF Describe' = Describe THEN lost ELSE lost \cup {"full"}

-----------------------------------------------------------------------------
(* onRouterLSAGenerate. *)

\* generateRouterLSA decides which kind of link it is: in WAITING, and with the
\* router itself as the DR, at once; otherwise it looks for the neighbour ...
testLink(t) ==
  /\ fault = "none"
  /\ call[t].pc = "test"
  /\ call' = [call EXCEPT ![t] = IF waiting \/ dr = Self THEN [pc |-> "fill", transit |-> ~waiting]
                                                      ELSE [pc |-> "find"]]
  /\ UNCHANGED <<fault, interface, rlsaList, database, sent, lost, counters>>

\* ... whose address it reads from dr once more: if that is the router itself by
\* now, getNbrByIp returns NULL, which is read through ...
findNbr(t) ==
  /\ fault = "none"
  /\ call[t].pc = "find"
  /\ IF dr \in Peers
     THEN call' = [call EXCEPT ![t] = [pc |-> "state", nbr |-> dr]] /\ UNCHANGED fault
     ELSE fault' = "null_nbr" /\ UNCHANGED call
  /\ UNCHANGED <<interface, rlsaList, database, sent, lost, counters>>

\* ... and whether it is FULL with it ...
testFull(t) ==
  /\ fault = "none"
  /\ call[t].pc = "state"
  /\ call' = [call EXCEPT ![t] = [pc |-> "fill", transit |-> @.nbr \in full]]
  /\ UNCHANGED <<fault, interface, rlsaList, database, sent, lost, counters>>

\* ... and it reads dr again for the link.
fillLink(t) ==
  LET links == IF call[t].transit THEN <<Transit(dr)>> ELSE <<Stub>> IN
    /\ fault = "none"
    /\ call[t].pc = "fill"
    /\ calls' = calls + 1
    /\ call' = [call EXCEPT ![t] =
                  [pc |-> "lookup",
                   lsa |-> [links |-> links, number |-> calls + 1, torn |-> links # Describe]]]
    /\ UNCHANGED <<fault, interface, rlsaList, database, sent, lost, changes>>

\* getRouterLSAById returns a pointer into the vector.
lookup(t) ==
  /\ fault = "none"
  /\ call[t].pc = "lookup"
  /\ call' = [call EXCEPT ![t] =
                [pc |-> "compare", lsa |-> @.lsa,
                 found |-> IF routerLSAList = << >> THEN "nothing" ELSE "copy"]]
  /\ UNCHANGED <<fault, interface, rlsaList, database, sent, lost, counters>>

\* The vector has been changed: the pointer that thread t may hold is stale.
Disturbed(t) ==
  IF call[t].pc = "compare" /\ call[t].found = "copy" THEN [call[t] EXCEPT !.found = "stale"] ELSE call[t]

\* *ptr != lsa compares len and linkNum first, which are not set in the new LSA.
\* A copy with its links counted is never equal; one without is, when the
\* lengths happen to be the same, and then no link is looked at.  A stale
\* pointer may lead to either.
MayBeEqual(t) ==
  \/ call[t].found = "stale"
  \/ call[t].found = "copy" /\ routerLSAList # << >> /\ ~routerLSAList[1].counted

\* Why an LSA that is queued now is not the one that describes the interface.
LostBy(lsa) == (IF lsa.torn THEN {"torn"} ELSE {}) \cup (IF lsa.number < calls THEN {"overtaken"} ELSE {})

\* Mutant of Queued: the new LSA goes to the front.
QueuedFirst(lsa) == <<lsa>> \o rlsaList

Queued(lsa) == Append(rlsaList, lsa)

\* Different, or nothing found: the LSA is queued, under the queue's mutex,
\* which lsaGenerate holds from the remove to the insert.
queueLsa(t) ==
  /\ fault = "none"
  /\ call[t].pc = "compare"
  /\ generator = NoLsa
  /\ rlsaList' = Queued(call[t].lsa)
  /\ lost' = IF call[t].lsa.links = Describe THEN lost \cap {"reflected"} ELSE lost \cup LostBy(call[t].lsa)
  /\ call' = [call EXCEPT ![t] = Idle]
  /\ UNCHANGED <<fault, interface, database, sent, counters>>

\* Why an LSA is taken for equal.
NotQueued(t) ==
  IF call[t].found = "stale" THEN {"stale"} ELSE IF routerLSAList[1].counted THEN {} ELSE {"uncounted"}

\* Equal: nothing is done.
dropLsa(t) ==
  /\ fault = "none"
  /\ call[t].pc = "compare"
  /\ MayBeEqual(t)
  /\ lost' = IF LastWord = Describe THEN lost ELSE lost \cup NotQueued(t)
  /\ call' = [call EXCEPT ![t] = Idle]
  /\ UNCHANGED <<fault, interface, rlsaList, database, sent, counters>>

-----------------------------------------------------------------------------
(* lsaGenerate. *)

\* remove erases the first copy.
WithoutFirst(s) == IF s = << >> THEN s ELSE Tail(s)

\* Mutant of lsaGenerateRemove: pop_front is forgotten.
lsaGenerateRemoveKeep ==
  /\ fault = "none"
  /\ generator = NoLsa
  /\ rlsaList # << >>
  /\ generator' = Head(rlsaList)
  /\ routerLSAList' = WithoutFirst(routerLSAList)
  /\ call' = [t \in Thread |-> Disturbed(t)]
  /\ UNCHANGED <<fault, interface, rlsaList, sent, lost, counters>>

\* Mutant of lsaGenerateRemove: the copy is removed before the queue is looked at.
lsaGenerateRemoveEager ==
  /\ fault = "none"
  /\ generator = NoLsa
  /\ generator' = IF rlsaList = << >> THEN NoLsa ELSE Head(rlsaList)
  /\ rlsaList' = IF rlsaList = << >> THEN << >> ELSE Tail(rlsaList)
  /\ routerLSAList' = WithoutFirst(routerLSAList)
  /\ call' = [t \in Thread |-> Disturbed(t)]
  /\ UNCHANGED <<fault, interface, sent, lost, counters>>

\* The thread wakes every five seconds: remove, then pop_front.
lsaGenerateRemove ==
  /\ fault = "none"
  /\ generator = NoLsa
  /\ rlsaList # << >>
  /\ generator' = Head(rlsaList)
  /\ rlsaList' = Tail(rlsaList)
  /\ routerLSAList' = WithoutFirst(routerLSAList)
  /\ call' = [t \in Thread |-> Disturbed(t)]
  /\ UNCHANGED <<fault, interface, sent, lost, counters>>

lsaGenerateInsert ==
  /\ fault = "none"
  /\ generator # NoLsa
  /\ routerLSAList' = Append(routerLSAList, [links |-> generator.links, counted |-> FALSE])
  /\ generator' = NoLsa
  /\ call' = [t \in Thread |-> Disturbed(t)]
  /\ UNCHANGED <<fault, interface, rlsaList, sent, lost, counters>>

-----------------------------------------------------------------------------
(* The LAN. *)

\* An LS request for our own LSA: refresh counts the links of the copy found.
\* Without a copy the handler reads through NULL.
recvLSReq ==
  /\ Free("recv")
  /\ IF routerLSAList = << >>
     THEN /\ fault' = "null_lsa"
          /\ UNCHANGED <<routerLSAList, sent>>
     ELSE /\ routerLSAList' = [routerLSAList EXCEPT ![1].counted = TRUE]
          /\ sent' = sent \cup {PacketOf[routerLSAList[1].links]}
          /\ UNCHANGED fault
  /\ UNCHANGED <<interface, call, rlsaList, generator, lost, counters>>

\* Mutant of recvLSUpdate: the database is not searched.
recvLSUpdateAlways(packet) ==
  /\ Reflecting
  /\ Free("recv")
  /\ Len(routerLSAList) < 2
  /\ routerLSAList' = Append(routerLSAList, [links |-> RouterLSA(LsaOf(packet)).links, counted |-> TRUE])
  /\ lost' = IF generator # NoLsa THEN lost \cup {"reflected"} ELSE lost
  /\ call' = [t \in Thread |-> Disturbed(t)]
  /\ UNCHANGED <<fault, interface, rlsaList, generator, sent, counters>>

\* An LS update with our own LSA, from a neighbour that has kept it, perhaps
\* since before a restart.  Every LSA of ours has the same sequence number, so
\* that a copy we have is not replaced.
recvLSUpdate(packet) ==
  /\ Reflecting
  /\ Free("recv")
  /\ routerLSAList = << >>
  /\ routerLSAList' = <<[links |-> RouterLSA(LsaOf(packet)).links, counted |-> TRUE]>>
  /\ lost' = IF generator # NoLsa THEN lost \cup {"reflected"} ELSE lost
  /\ call' = [t \in Thread |-> Disturbed(t)]
  /\ UNCHANGED <<fault, interface, rlsaList, generator, sent, counters>>

\* An LSA of another router is inserted, or replaced by a newer one: the same
\* vector is changed, but no copy of ours.
recvOtherLsa ==
  /\ Free("recv")
  /\ call' = [t \in Thread |-> Disturbed(t)]
  /\ UNCHANGED <<fault, interface, rlsaList, database, sent, lost, counters>>

generate(t) == testLink(t) \/ findNbr(t) \/ testFull(t) \/ fillLink(t) \/ lookup(t) \/ queueLsa(t) \/ dropLsa(t)
lsaGenerate == lsaGenerateRemove \/ lsaGenerateInsert

Next ==
  \/ \E d \in Router : backUpSeen(d) \/ nbrChange(d) \/ onWaitTimer(d)
  \/ waitTimer
  \/ \E p \in Peers : changeFull(p)
  \/ \E t \in Thread : generate(t)
  \/ lsaGenerate
  \/ recvLSReq
  \/ \E p \in sent : recvLSUpdate(p)
  \/ recvOtherLsa

Spec == Init /\ [][Next]_vars

\* The threads are scheduled.
FairSpec == Spec /\ WF_vars(lsaGenerate) /\ \A t \in Thread : WF_vars(generate(t))

-----------------------------------------------------------------------------
(* Properties. *)

HasLsa(t) == call[t].pc \in {"lookup", "compare"}

Call ==
  {Idle} \cup [pc : {"elect", "test", "find"}] \cup [pc : {"state"}, nbr : Peers]
  \cup [pc : {"fill"}, transit : BOOLEAN]
  \cup [pc : {"lookup"}, lsa : Generated]
  \cup [pc : {"compare"}, lsa : Generated, found : {"nothing", "copy", "stale"}]

Reasons == {"full", "torn", "overtaken", "uncounted", "stale", "reflected"}

TypeOK ==
  /\ fault \in {"none", "null_lsa", "null_nbr"}
  /\ waiting \in BOOLEAN
  /\ dr \in Router \cup {Nobody}
  /\ full \in SUBSET Peers
  /\ timer \in BOOLEAN
  /\ call \in [Thread -> Call]
  /\ rlsaList \in Seq(Generated)
  /\ generator \in Generated \cup {NoLsa}
  /\ routerLSAList \in Seq(Copy)
  /\ sent \subseteq {PacketOf[k] : k \in Links}
  /\ lost \in SUBSET Reasons
  /\ calls \in Nat /\ changes \in Nat

\* No thread generates, and nothing is to be installed.
Quiet ==
  /\ \A t \in Thread : call[t].pc \in {"idle", "elect"}
  /\ rlsaList = << >>
  /\ generator = NoLsa

Current == routerLSAList # << >> /\ routerLSAList[1].links = Describe

\* Once everything has been worked off, the LSA that a lookup finds describes
\* the interface, unless one of these has happened since it last did: an
\* adjacency became FULL or ceased to be (nothing generates then, Neighbor.cpp:76);
\* the interface changed between the two reads of generateRouterLSA; the two
\* threads queued in the other order; an uncounted copy passed for equal, or a
\* stale pointer (LSAManager.cpp:33-38); or an old copy came back from the LAN
\* while the LSA was being replaced.
UpToDate == Quiet /\ lost = {} => Current

\* Only the timer's thread makes the first two of the orders possible, and the
\* search for the router itself among its neighbours, which reads through NULL
\* (LSAManager.cpp:81): before the forty seconds are over, the receive thread has
\* the interface to itself.
OrderedBeforeTimer == timer => {"torn", "overtaken"} \cap lost = {} /\ fault # "null_nbr"

\* The router's own LSA is absent from its database only while one is queued or
\* being inserted (LSAManager.cpp:20-23).
AbsentOnlyBefore == routerLSAList = << >> => rlsaList # << >> \/ generator # NoLsa

\* The database holds one copy of the router's LSA, unless an old one has come
\* back from the LAN between the remove and the insert of lsaGenerate, which
\* erases only the first (LSDatabase.cpp:67-73, PacketManager.cpp:435).
OneCopy == Len(routerLSAList) > 1 => "reflected" \in lost

\* When the interface has stopped changing, the LSA in the database becomes
\* the one that describes it, with the exceptions of UpToDate.
CatchesUp == <>[](fault # "none" \/ lost # {} \/ Current)

\* The checksums of every LS update sent are right (PacketManager.cpp:606,
\* Packets.h:156), but for the sums that create_osi_cksum gets wrong
\* (Common.h:57).
ChecksumsProp ==
  [][\A p \in sent' \ sent :
       LET d == Ageless(LsaOf(p)) IN
         InetVerifies(p) /\ (OsiVerifies(d) <=> ~Slips(d, 14))]_vars

\* A router of this code reads from the packet the LSA that was in the database
\* (Packets.h:130-159, PacketManager.cpp:433).
ReadsBackProp ==
  [][\A p \in sent' \ sent :
       RouterLSA(LsaOf(p)) = [state_id |-> Self, ad_router |-> Self, links |-> routerLSAList[1].links]]_vars
=============================================================================
