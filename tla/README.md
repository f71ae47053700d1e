# Verification of OSPF_Router

TLA+ models, TLC runs and TLAPS proofs for the C++ OSPF router in `src/`: a
single process, a single LAN interface, six kinds of threads and almost no locks.

## 1. The system

| Component | State | Operations | Files |
|---|---|---|---|
| Interface | `currentState`, `dr`, `bdr`, `nbrList` | `onInterfaceUp`, `onWaitTimer`, `onBackUpSeen`, `onNbrChange`, `calcDR`, `getNbrByIp`, `createNbr` | Interface, Timers |
| Neighbour | `currentState`, `isMaster`, `ddNum`, `last_seq_num`, `lastDD`, `reqList`, `summaryList`, `unAckDDList`, `ndr`, `nbdr` | `onHelloRecved`, `on2wayRecved`, `on1wayRecved`, `onNegotiationDone`, `onExchageDone` | Neighbor |
| Packet handling | packets on the LAN; the handler's local variables | `recvHelloPacket`, `sendHello`, `sendEmptyDDPacets`, `sendDDPackets`, `sendLSReq`, `sendPacket` | PacketManager |
| Retransmission | `packetList`, `currentId`, `lock` | `registerPacket`, `unregisterPacket`, `run` | PacketRetransmitter |
| Link-state database | `routerLSAList`, `networkLSAList`, `rlock` | lookups, `remove`, `insertRouterLSA`, `insertNetworkLSA` | LSDatabase |
| LSA origination | `rlsaList`, `nlsaList` | `onRouterLSAGenerate`, `onNetworkLSAGenerate`, `lsaGenerate` | LSAManager |
| Routing table | `tree`, `clist` | `calc`, `getNextHop`; never called | RoutingTable |
| Packet formats | none | `toRouterLSA`, the constructors that read packets, `sendPacket` | Packets, PacketManager |
| Checksums | none | `inet_cksum`, `create_osi_cksum` | PacketManager, Common |

Interaction. `main` raises INTERFACEUP, which starts the retransmission thread
and the 40 s timer, and then starts three threads: `recvHelloPacket`, `sendHello`
and `lsaGenerate`. `recvHelloPacket` handles every packet. It calls the neighbour
and interface state machines (`invokeEvent` is a table of member functions called
in place, so an event is a procedure call), searches and changes the database,
and registers and unregisters polls. A neighbour that becomes two-way gets a
`sendEmptyDDPacets` thread, which repeats the opening DD until the state is no
longer EXSTART; one that enters LOADING gets a `sendLSReq` thread.

What is shared by threads: the neighbour object (receive thread, its senders, its
requesters, `sendHello`, `waitTimer`), the interface's `dr` and `bdr` (receive
thread and `waitTimer`), the database (receive thread, `lsaGenerate`), the
retransmitter (receive thread, `run`). Only the retransmitter, insertion into and
removal from the database, and the LSA queues are locked.

What makes it hard:

* a sender thread tests the state twice and reads `ddNum` later, and the receive
  thread can change both in between;
* DDs are lost, repeated and reordered; only the master retransmits, and what it
  retransmits is whatever is registered;
* an adjacency may be reset by a one-way hello at any moment, and keeps its
  lists, its last sequence number and its registered polls;
* two threads elect the DR, each reading first and writing later;
* the same two threads generate the router LSA: each reads `dr` three times, looks up
  the database without a lock, compares, and appends to the queue in its own time;
* between `lsaGenerate`'s remove and insert the LSA is not in the database, and an
  old copy may come back from the LAN and take its place;
* a router may restart while its neighbours go on, and starts with an empty database;
  they ask for what it described before;
* a hello's list is built before the hello is sent, so that DDs may overtake it.

What makes each part correct: a registered packet is sent on every sec-th pass
and never after it was cancelled (retransmission); of two neighbours one is the
master, they stay in step, no header is lost, and the exchange ends (neighbour and
packets); every described LSA is held or asked for (database); routers that hear
each other agree on one DR and calcDR always has a candidate (interface); the LSA
installed is the one that describes the interface (origination); what is sent has
a right checksum and is read as what was meant (packets); the tree holds shortest
paths and the calculation comes to an end (routing table).

## 2. Modules

| Module | What it is |
|---|---|
| `Resend` | Abstract: what the retransmitter promises, without threads or vector |
| `PacketRetransmitter` | The vector, the mutex and the two threads; implements `Resend` |
| `HeaderTransfer` | Abstract: what the DD exchange promises in one direction, without packets, numbers or roles |
| `Adjacency` | Neighbour state machine, DD/LS handlers, sending threads, database, for any number of routers of this code and of others; implements `HeaderTransfer` on every link |
| `MCAdjacency` | Databases for the runs of `Adjacency` |
| `Election` | Interface state machine, `calcDR`, hellos |
| `Wire` | Router LSAs and the packets that carry them, byte by byte; the two checksums |
| `Origination` | `onRouterLSAGenerate` on two threads, the queue, `lsaGenerate`, the own LSA on the LAN; uses `Wire` for what is sent |
| `MCOrigination` | Addresses for the run of `Origination` |
| `ShortestPath` | `RoutingTable::calc`, and shortest distances by definition |
| `MCShortestPath` | The databases for the run of `ShortestPath` |
| `RetransmitterProofs`, `ElectionProofs`, `OriginationProofs`, `WireProofs`, `ShortestPathProofs` | Theorems about the module of that name |
| `AdjacencyProofs` | Types and roles of `Adjacency` |
| `AdjacencySafetyProofs` | What holds of `Adjacency` whatever other routers send and whoever is restarted |
| `FirstAdjacencyProofs` | What holds between routers of this code that meet for the first time, up to the refinement of `HeaderTransfer` |

What one module takes from another's component is stated in the other's terms:
`Adjacency` takes any registered packet as due (`PacketRetransmitter` says when),
and `Origination` takes any router that is known as the DR (`DrIsKnown` of
`Election`) and any change of FULL (`Adjacency` says when).

### PacketRetransmitter

One action per lock call, body and loop iteration: `registerLock`,
`registerPacket`, `unregisterLock`, `unregisterPacket`, `runLock`, `scanNode`,
`runUnlock`. A node is `[id, sec, count]`; the packet itself, its length and its
destination play no part. `sent` and `passes` are history.

The refinement `KeepsPromise` maps a walk to the moment it takes the mutex: a node
that the walk has not reached yet counts as visited (`Pending`). `liveBar`
computes the pass a packet was registered in from its count and its
transmissions, so that a pass that is missed or counted twice does not map to
anything.

Bounds: intervals 1 to 3, three registrations, five passes: two packets with
different intervals are registered in the middle of each other's intervals, one
is cancelled, and one of interval 2 is due twice. `CHECK_DEADLOCK FALSE`
because the bounds stop the model.

### Adjacency

A `Link` is `<<self, peer>>`; `nbr[l]` is the Neighbor object. `net` is the set of
all packets ever sent, so that any packet may be received late, repeatedly, out of
order or never. Routers in `Local` run this code; those in `Foreign` send any DD,
hello, LS request and LS update built from small sets.

A router that starts or is restarted (`Restart`) has an empty database;
`lsaGenerate` inserts the LSA that `main` has generated: so begins the run `poller`.
The `InitialDbs` of the other runs, where nobody restarts, are those of routers that had
some time before they met, so that their own LSAs are in place. A hello of a local router is evaluated when it arrives (`Hears`), which is
what a hello that is delivered at once says; a router in `LateHello` may also be heard
by a hello whose list was built before it heard the other, or before its restart.
The runs have `LateHello = {}`: a router that a hello resets at any time is the one of
`poller`, whose foreign neighbour says what it likes. The theorems about first
adjacencies have it as a hypothesis, and all others hold for any `LateHello`.

The DD handler is one step, except that it stops (`handling`) after 2WAYRECV and
after NEGOTIATIONDONE, the two places where it has written the state that sender
threads read. Its branches are `recvOrphanDD`, `wakeDD`, `negotiateAsSlave`,
`negotiateAsMaster`, `ignoreDD`, `discardDD`, `runaway`, `acceptAsSlave`,
`acceptLastAck` and `acceptAck`. Hellos, LS requests and LS updates are one step
each. A sender thread has a program counter with four places (`SenderPc`), and
threads of one neighbour are counted per place. `lsaGenerate` is two steps.
`fault` records how a process ended: reading through a NULL neighbour or LSA, the
header loop that misses its end, a list changed by two threads.

Conversions that matter are modelled by what they do: `sendDDPackets` forgets to
convert `ddNum` (`SwapBytes`), and a packet shorter than its type is a DD of zeros
(`body = FALSE`, since the buffer is cleared before `recv`). The first assumption
on bounds, `MaxDd < 127`, keeps sequence numbers clear of swapped ones.

Abstracted: header contents other than the LSA's identity; LSAs stand for their
(state_id, ad_router), and state_ids are distinct (`LSDatabase::remove` compares
only those); network LSAs go the way of router LSAs; an LS request and an LS
update carry one LSA each, as this code sends them; a registered packet may be
sent at any time (its schedule is `PacketRetransmitter`'s). A lookup during
`lsaGenerate`'s gap may miss anything. Acknowledgements are sent and read by
nobody.

`HeaderTransfer` has a list of headers not heard yet, and steps that offer the
database, hear the first header of the list and, once a DD without flags was
sent, pass over it. The mapping reads the list off the last DD (the slave's
`lastDD`, the master's registered poll) and the summary list. A DD without flags is
what `sendDDPackets` sends when the receive thread overtakes it between its two
tests of the state; the peer takes it for a reply.

History (`hist`): headers accepted, headers told, LSAs asked for, and whether a
sender thread sent a DD without flags (`stray`).

### Election

All routers run the code. A hello of `s` carries `dr[s]`, `bdr[s]` and the routers
`s` has heard; it is taken from `s`'s state when it is received. `recvHello` is
the handler up to the two if-statements, `checkClaim` one if-statement as far as
the first half of `calcDR`, `setDR` the second half with the rest of the event's
handler. `waitTimer` does the same on its own thread; `calc[r][t]` is what a thread
has elected and not written. `recvDD` is the part of the DD handler that makes a
neighbour two-way.

`Winner` is the selection loop as it is, including that the last candidate wins
when the first has the largest id. The sort by priority is left out: all
priorities are 1 (nothing reads `rtr_pri`) and the sort is then the identity. An
empty list of candidates for the backup is an out-of-bounds read: any voter, or
the end of the process (`no_bdr`). `ndr` and `nbdr` of a new neighbour are
uninitialised: 0 or the neighbour (`Before`), the two values that the tests tell
apart.

Abstracted: reading the hello's fields and sending it is one instant; `calcDR`'s
write of `dr` and the state change read from it are one step; a DD makes its
sender two-way only while the sender has us two-way (none is delayed beyond a
reset; `Adjacency` has those); contents of LSAs.
A `Late` router starts when the others have had their first election; `Prompt`
says that two-way hellos of all arrive within the timer's 40 s (hellos are sent
every 10 s).

### Wire

A packet is a sequence of bytes. `create_osi_cksum` is translated with C's signed
remainder and its corrections by one; `inet_cksum` with its two additions of the
carry. `RawLsa`/`LinkBytes` are the writer and `RouterLSA`/`ReadLink` the reader, which
are separate code at separate offsets. Everything in it is a function; `Origination`
sends its packets, and `WireProofs` shows what they carry.

### Origination

`call[t]` is where a thread is in `onRouterLSAGenerate`: `testLink` (the state and
`dr` are read), `findNbr` (`dr` is read again to look for the neighbour, and a NULL is
read through if it has become the router itself), `testFull` (the neighbour's state,
which decides on the kind of link), `fillLink` (`dr` is read a third time), `lookup` (a pointer into the vector), then `queueLsa` or `dropLsa`. The receive thread
comes here from `backUpSeen` and `nbrChange`, the timer's thread from `waitTimer` and
`onWaitTimer`. `changeFull` is an adjacency that becomes FULL or is reset, which
generates nothing. `recvOtherLsa` is an update about another router's LSA, which
changes the vector under a pointer into it. `lsaGenerateRemove` and `lsaGenerateInsert` are the two locked
calls inside the queue's mutex.

The comparison `*ptr != lsa` is modelled by what it does (`MayBeEqual`): it looks at
`len` and `linkNum` first, which a generated LSA has not set, so that no link is ever
compared; a copy that was sent or received has them set and is never equal; one
that was not may be, depending on what the stack held; a pointer into a vector that
has changed may lead to either.

`lost` is history: the reasons why the last word on the interface may not describe
it, cleared when an LSA that does is queued. The properties are about what is left
once these are set aside: nothing else makes the database go stale.

### ShortestPath

`calc` is one turn of the endless loop, for a vertex that is a router or one that is
not. The maps' `operator[]` inserts a vertex of zeros for a key that is missing
(`Touched`; an assignment is `Put`), which `getNextHop` runs into: for a vertex below a
neighbour it reads the candidate of a parent that has left the list. The zeros are
then the nearest candidate, enter the tree in place of the parent, and are taken for
a network with link state id 0, of which there is no LSA.

A link of type 1 or 2 is followed to a router that has an LSA and is not in the tree
(`Usable`); one of type 3 is skipped. The switch has no case for any other byte
(`Stray`): its end becomes a candidate without a lookup, whose type is
whatever the stack held (`Types`). The tree may then hold vertices that are neither
routers nor zeros, vertices may enter twice, and the walk of `getNextHop` up the tree
(`Walk`) may go round for ever or end at an interface without a DR. Relaxing all links is
therefore a set of outcomes (`Relaxed`), which has one member without stray links. The
properties name the exception: `Strayed`, a router of the tree has such a link.
`Distance` is the reference: costs of all walks over usable links.

## 3. Runs

| Run | Instance | Shows |
|---|---|---|
| `retransmitter` | see above | types, unique numbers, counts below intervals, undisturbed walks, the refinement of `Resend` |
| `pair` | two routers; two LSAs at the slave and one at the master, the other way round, or two at the slave of which one is the master's | `Adjacency` implements `HeaderTransfer`; both end only when each has told all (`EndsTold`); FULL means all that was described is there; the poll in progress is registered and nothing else is; one poll apart; no DD before its sender is known; no LSA twice; no list race; the run-away loop only in place of the first reply |
| `poller` | one router that starts with an empty database and is restarted once, `lsaGenerate`, a foreign neighbour with a larger id that asks for anything, two requesters, resets | roles opposed; nothing forgotten; an LSA described since the start is missing only in `lsaGenerate`'s gap |
| `hub` | one master, two foreign slaves | acknowledgements of one neighbour leave the other's polls alone, but for packet number 0 |
| `live` | two routers with one LSA, losses | the exchange ends |
| `replay` | violation | a slave replays a DD it never sent |
| `stuck` | violation | with two LSAs at the master the exchange never ends |
| `elect_restart` | two routers starting together, and a restart | types; the DR is known; no candidates only after a split |
| `elect_join` | one router joins another's LAN | no crash, one DR, agreement for ever |
| `elect_lsa` | violation | a change of the DR queues no network LSA |
| `origination` | one router, one neighbour, three generations, two changes of FULL, an LSA from before a restart on the LAN | the LSA in the database describes the interface in the end, but for the named losses; only the timer's thread makes two of them possible; it is absent only while one is queued or being inserted; a second copy is an old one from the LAN; checksums and the round trip of every packet sent |
| `spf` | every database of three routers with up to two links at the root and one at the others, links to networks and to an id without LSA, four values of the uninitialised pid; and of two routers with links of type 4 to every id, three values of an uninitialised type | distances in the tree are shortest; a crash only without the root's LSA or where a shortest path may be indirect; only the root's neighbours enter; every call ends in a crash or a complete tree; all until a stray link is within reach |

Why the bounds suffice. The exchange sends one header per DD, so databases of one
and two LSAs give every case of its end: an empty, a last and a further header on
either side. `MaxDd` and `MaxPackets` leave room for each of them and are not the
reason a run ends (after FULL or LOADING nothing more is polled). With the databases
of `pair`'s third kind the slave, which lacks nothing, becomes FULL while the
master still asks; the others end in LOADING, which nothing leaves. `MaxRequesters` 2
in `poller` lets the `sendLSReq` thread of an earlier adjacency meet the next
one's; a new sender thread waits for the old one there (what it sends goes to a
foreign router, and is not followed), and the other runs have no resets. The foreign neighbours use sequence numbers 0 and 1, the
first that count. In `Election` two routers give every order of the first hellos,
timers and elections; with three, `calcDR` has no further case than the choice
among more candidates, and two routers that join at once already run into the
crash that uninitialised claims lead to, so that `elect_join` has one.

`origination`: with three generations a thread finds one LSA being installed,
another in the queue and holds a third, and each of the two threads can overtake
the other; one neighbour gives every kind of DR (nobody, the router
itself, a FULL and a not FULL neighbour). `103` and `104` are addresses for which
one of the LSAs has a checksum that slips. `spf`: with two links at the root and one
at the others there are ties, a better path found later, cycles, zero costs,
unreachable routers, a direct path longer than an indirect one, and a root
without LSA. The second family has stray links of the root, next to another link, and
of a router one link away, to routers, to networks, to the root itself and to ids
without LSA; `Types` are a router, a network and neither. Vertices can then enter the
tree again and again; `MaxCost` 4 lets each of them do so a few times, and no
vertex of the first family is dearer.

`CHECK_DEADLOCK FALSE` is everywhere: a crashed router stops, and so do models at
their bounds.

Fairness. `live` and `stuck` use `Adjacency!FairSpec`: threads are scheduled
(weak fairness of sender, receive and retransmission threads), hellos are sent
every ten seconds for ever and one gets through, and a packet that is sent over
and over again (an opening, a poll, a reply to a repeated poll) is not lost every
time (strong fairness of its delivery). LS requests, sent once, get no fairness.
`elect_join` assumes that hellos keep arriving (strong, since the receive thread
may be busy) and threads run. `origination` assumes that `lsaGenerate`, which wakes
every five seconds, and each of the two generating threads run (weak); nothing is
assumed of events. `spf` assumes that the loop goes on.

Findings. `replay`: `PacketManager.cpp:278`. `stuck`: `PacketManager.cpp:374` writes
the more-bit into the packet received. `elect_lsa`: the comment at
`Interface.cpp:183` against line 185.

Met while modelling, and not stated as a property of a run, because no document or
comment says otherwise: the selection loop of calcDR (`Interface.cpp:112-122`) starts
with the id of the first candidate but a pointer to the last, so that the last is
elected when the first has the largest id, and two routers that hear each other
from the start both elect themselves; an adjacency that becomes FULL generates no
router LSA (`Neighbor.cpp:76`; `generateNetworkLSA` is called and its result
dropped), so that a router keeps announcing a stub link until the next change;
about one LSA in 255 has a wrong checksum (`Common.h:49-57`); a
network LSA is written without its mask and read with one (`Packets.h:226-235`,
`209`); a link whose type is none of 1, 2 and 3 makes `calc` follow an end that has no LSA
(`RoutingTable.cpp:54`); `calc` ends well only for the root's neighbours, and links to transit networks
fall through to the test for routers (`RoutingTable.cpp:45`);
LOADINGDONE is never raised; LS requests are not repeated;
after a reset an old `sendLSReq` thread may empty the new request list, so that
FULL is reached with LSAs missing; a restarted router reads through NULL on a DD
that precedes its first hello, and on a request for an LSA that it described before
and does not have yet (`PacketManager.cpp:410`); `generateRouterLSA` reads `dr` twice in
one condition, and through NULL if it becomes the router itself in between
(`LSAManager.cpp:81`), so that `DrIsKnown` alone does not make that line safe; claims in a one-way hello raise no event later, so
that after a restart routers may disagree about the DR for ever.

## 4. Proofs

Checked by TLAPS for all values of the constants.

* `RetransmitterProofs`: `IInv` is the type invariant, `MutexHeld`, the argument of
  the call in progress (`CallInv`), `IdsAscending` and `CountBelowSec`. `CallInv`
  is what a registration needs to append a node with a positive interval, and
  `IdsAscending` with `EraseProperties` gives that erasing keeps the order.
  Theorems: `TypeCorrect`, `MutualExclusion`, `NumbersAscend`, `NeverSteppedOver`,
  the action property `WalkIsUndisturbed`, which follows from the mutex, and
  `ImplementsResend`, where a packet's registration and its transmissions are read off
  its count, the passes and how far the walk under way has come (`liveBar`, `sentBar`).
* `AdjacencyProofs`: `IInv` is the type invariant and `RolesOpposed`. Every Neighbor
  object is `Good`, which is both for one object; `KeptUpdates` treats the
  assignments that leave state and role alone, `StateUpdates` those that do not.
  The negotiation steps establish the roles from the ids; every other step keeps
  them. Theorems: `TypeCorrect`, `OneMaster`.
* `AdjacencySafetyProofs`, for any routers, foreign packets, losses and bounds. It
  first says what each step does, field by field (`StepCases`, `LinkSteps`, `PollSteps`,
  `DatabaseSteps`), so that an invariant is proved once per kind of step and not once
  per handler.
  `NothingForgotten`: a header accepted is in the database, in the list, or asked for
  (`Remembered`), per neighbour. `RunawayOnlyAsMaster`: a DD without a body is one of
  zeros (`BodylessZero`), and only a master that waits for reply 0 takes a zero for its
  number. `LaterPollScheduled`, `PollScheduled`: polls of one router have numbers below
  `currentId`, no two the same (`PollNumbers`); an acknowledgement from another neighbour
  unregisters that neighbour's own number, or packet 0, which every object names that
  has not polled yet (`FreshCounters`). `MissingOnlyWhileGenerating`, without further
  hypotheses: what a process has described it holds (`Told`), for nothing but
  `lsaGenerate` takes an LSA away. `AskedIsHeld`: without foreign routers and
  restarts every header and request in the air speaks of an LSA its router has
  (`Describable`), so that nothing else is asked for. `NoDuplicateLsa`: databases without repetition stay so (`AllOnce`),
  without `lsaGenerate`'s gap.
* `FirstAdjacencyProofs`, with `FirstTime`: all routers run this code, none is
  restarted, and no hello is late. A DD in the air is one that its sender's state still explains (`Built`,
  `Underway`), so that an adjacency only rises (`Up`): hence `NoOrphanDD`, `NoListRace`,
  `FullMeansSynced`. `NoLeftoverPoll`: what is registered for a neighbour is its last
  unanswered poll (`OnlyPoll`). `Lockstep`: a link is untold, beginning or in step
  (`Start`, `InStep`); every number in the air is below 128 or has its bytes reversed
  and is beyond 2^24 (`Numbered`), and the slave's number is the master's or one less.
  `TransfersHeaders` (hypothesis `Quiet`: one neighbour each, `lsaGenerate` does not run,
  no LSA twice in a database) needs to know that what is heard, what is out and not
  heard, and the summary list make up the database in this order (`Ordered`), and which
  of sender and receiver is ahead, for either role (`Replying`, `Polled`); the mapping
  is then followed through each kind of step (`StillMaps`, `ListsMaps`, `TellsMaps`,
  `HearsMaps`). `EndsTold`: the master ends when its own headers are told,
  whatever the slave has left; the two polls that a slave gets for certain are enough
  for the two LSAs of `ShortSlave` (`Short`, `Enough`). The hypotheses are met by the run `pair`.
* `ElectionProofs`: `DrIsKnown` is not inductive, because a thread writes what it
  elected some time ago. `ResultsNear` says that unwritten results are routers
  this one has heard; `nbrList` only grows, except at a restart, which forgets the
  results too. `CrashMeansSplit` rests on `Meetings`: two-way is mutual knowledge
  (`Acquainted`), a hello is in hand only from a two-way neighbour, and a router with
  its timer running that has no such neighbour has elected nobody (`OnePerCause`), so
  that an election in which the router is DR already has a second voter.
  `NoElectionCrash` and `OneDr` are proved for a router that joins another's LAN
  (`Joining`, the instance of `elect_join` with any ids): the incumbent has elected
  itself, or is about to, before the other one starts (`Incumbent`), and after that it
  is the only candidate either can see (`OneCandidate`). With two joiners both are false.

* `OriginationProofs`: `UpToDate` is about a moment when all is quiet. `LastWordDescribes`
  extends it to every moment: with no loss on record the last word on the
  interface (the last LSA queued, or being installed, or in the database) describes
  it, or some thread is busy. That thread's LSA is the newest one generated
  (`NewestInHand`), LSAs in hand have distinct numbers (`NumbersInHand`), and before the
  timer fires no thread but the receive thread has one (`AloneBeforeTimer`). The
  database's vector has at most one copy unless an old one came back (`AtMostOne`,
  `InsertsIntoNothing`). Theorems: `InvCorrect`, `UpToDateCorrect`,
  `OrderedBeforeTimerCorrect`, `AbsentOnlyBeforeCorrect`, `OneCopyCorrect`.
  The bytes: LSAs in hand, queued or in the database have links that the interface can
  have, and what was sent is the LS update of such an LSA (`TypeCorrect`); a router of
  this code reads back from it the LSA that was in the database (`ReadsBackCorrect`); and
  both its checksums are right but for the LSAs that `create_osi_cksum` gets wrong
  (`ChecksumsCorrect`). The last two follow from `SentPacket`, about the packet of any
  links, and the theorems of `WireProofs`.
* `WireProofs`: the arithmetic first. `CheckBytes`: the two check bytes make both sums
  multiples of 255 for any length exactly when neither slips. `WordSumComplement`: two
  additions of the carry are enough for any packet that IP can carry. The sums over
  a packet and the list of links read are functions defined by recursion: `Recursion`
  says that such a function exists, and `Induction`, for sets of numbers instead of
  predicates, what holds of its values (the library's induction takes a predicate as a
  parameter, which the provers cannot instantiate). From these, for packets and LSAs of
  any length: a sum after two bytes are patched (`WordSumPatched`, `PatchedSums`), hence
  `PacketVerifies` and `LsaChecksumVerifies`; and with what is at which offset (`Holds`),
  `RouterLsaReadsBack` and `LSUpdateCarriesLsa`, about writer and reader.

* `ShortestPathProofs`, for databases of any size. `IsDistance` says what is needed of
  `Distance`: the root is at 0, no usable link shortens a distance, every other
  distance ends with a link, and a path that leaves a set leaves it over some link.
  `Distances` proves this of the recursion `Reached`, which stops at as many links as
  there are routers: vertices are settled one at a time, the end of the best link
  that leaves the settled ones next (`SettleOne`), and k links are enough for k + 1
  of them (`GrowOne`, `AllSettled`). `Base` is what holds whatever the links are: finite
  maps of vertices at their ids (`RelaxedGood`, `CalcBase`). Without a stray link all
  is routers and zeros, the walk of `getNextHop` ends at once (`PlainWalk`), and
  `Relaxed` has one member (`PlainOutcome`); `RelaxedIs` says what that one does to
  the two maps, whatever the number and the order of links. The invariant `IInv` is
  `Base`, and until a stray link is within reach `PlainInv`: Dijkstra's invariant for as long
  as no zeros are candidates. The tree is at its distances and the candidates no nearer
  (`Near`), every link that leaves the tree has a candidate at its end that is no worse
  (`Frontier`); once there are zeros, some link was as good as what was known about its
  end (`Indirect`). It needs to know that the zeros' keys are in the tree already
  (`Apart`), that what `getNextHop` inserts there is no router (`Blocked`, false if the
  root's pid is one), and that as long as there are no zeros all is below the root
  (`BelowRoot`).

Assumptions: ids are positive numbers, `Local` and `Foreign` are disjoint, the
databases are sequences of LSAs, the bounds are numbers, a router is none of its
neighbours; in `Origination` an id or address is four bytes and a cost is two; in
`ShortestPath` a database has finitely many router LSAs, link types of one byte, metrics
of 16 bits and no id 0. All are named ASSUMEs. What a theorem needs beyond them it states
(`FirstTime`, `Quiet`, `Joining` and the like).

Model-checked only: liveness (`ExchangeEnds`, `Settles`, `CatchesUp`, `CalcEnds`), for
fairness and ENABLED are out of the prover's reach. Every invariant and every action
property that a passing run checks is stated by a theorem, some under the
hypotheses named above.

## 5. Not modelled

* Network LSAs beyond their queueing: nothing takes them from `nlsaList`, so that no
  step of the program depends on their contents. `Adjacency` treats those that
  others send as it treats router LSAs.
* The next hops of `RoutingTable`, which nothing reads, and costs beyond `MaxCost`.
* LS acknowledgements (sent, read by nobody), `recvPacket` (never started), `main2`, the
  lookups by advertising router (no caller).
* The unused state machine, timer and event classes and the build files.
* More than ten voters, for which `calcDR` overruns its arrays.

## 6. Plan

Done, in this order: retransmitter, adjacency, election, their first theorems;
origination with the packets' bytes, shortest paths, the refinement of
`HeaderTransfer`, the theorems about origination and the checksums,
the theorems about the exchange, both refinements, the election, the packets that
origination sends, and the shortest paths.

Left: the contents of network LSAs, and the hypotheses that could be weakened
(`Quiet` asks for one neighbour per router; `EndsTold` for at most two LSAs at the slave).
