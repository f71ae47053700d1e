------------------------- MODULE OriginationProofs --------------------------
(***************************************************************************)
(* Theorems about Origination, for any neighbours, costs, earlier LSAs and *)
(* bounds.  The invariants about the queue and the database assume nothing *)
(* of an LSA that comes back from the LAN; what it reads back as, and that *)
(* the checksums are right, follows from the theorems of WireProofs.       *)
(***************************************************************************)
EXTENDS Origination, WireProofs, SequenceTheorems, TLAPS

\* The types of what a router computes by itself.
Typed ==
  /\ fault \in {"none", "null_lsa", "null_nbr"}
  /\ waiting \in BOOLEAN
  /\ dr \in Router \cup {Nobody}
  /\ full \in SUBSET Peers
  /\ timer \in BOOLEAN
  /\ call \in [Thread -> Call]
  /\ rlsaList \in Seq(Generated)
  /\ generator \in Generated \cup {NoLsa}
  /\ lost \in SUBSET Reasons
  /\ calls \in Nat /\ changes \in Nat

\* The database holds at most one copy, unless one was reflected.
AtMostOne ==
  \/ routerLSAList = << >>
  \/ \E links, counted : routerLSAList = <<[links |-> links, counted |-> counted]>>
  \/ "reflected" \in lost

\* The database is a list, whatever it holds.
IsList == \E S : routerLSAList \in Seq(S)

\* lsaGenerate inserts into a database without a copy, unless one was reflected.
InsertsIntoNothing == generator # NoLsa /\ "reflected" \notin lost => routerLSAList = << >>

\* The LSAs that the two threads hold have numbers of their own.
NumbersInHand ==
  /\ \A t \in Thread : HasLsa(t) => call[t].lsa.number <= calls
  /\ \A t, u \in Thread : t # u /\ HasLsa(t) /\ HasLsa(u) => call[t].lsa.number # call[u].lsa.number

\* The newest LSA in hand describes the interface, unless the other thread is
\* about to read a change of it, or FULL has changed and the other thread holds
\* no LSA that could be taken for the cure.
NewestInHand ==
  \A t, u \in Thread : t # u /\ HasLsa(t) /\ ~call[t].lsa.torn /\ call[t].lsa.number = calls =>
    \/ call[t].lsa.links = Describe
    \/ u \in Reading
    \/ "full" \in lost /\ ~HasLsa(u)

\* Before the timer's thread wakes, what the receive thread has read still holds.
AloneBeforeTimer ==
  timer =>
    /\ call["wait"] = Idle
    /\ waiting \/ dr \in Router
    /\ call["recv"].pc \in {"find", "state"} => ~waiting /\ dr \in Peers
    /\ call["recv"].pc = "state" => call["recv"].nbr = dr
    /\ call["recv"].pc = "fill" => call["recv"].transit = HasDr
    /\ HasLsa("recv") => call["recv"].lsa.number = calls /\ ~call["recv"].lsa.torn

\* The last word describes the interface, or a thread is about to change it.
LastWordDescribes ==
  lost = {} => LastWord = Describe \/ \E t \in Thread : t \in Reading \/ HasLsa(t)

IInv ==
  /\ Typed
  /\ IsList
  /\ AtMostOne
  /\ InsertsIntoNothing
  /\ AbsentOnlyBefore
  /\ NumbersInHand
  /\ NewestInHand
  /\ AloneBeforeTimer
  /\ OrderedBeforeTimer
  /\ LastWordDescribes

-----------------------------------------------------------------------------
(* Types. *)

\* NoLsa is no LSA.
LEMMA NoLsaIsNone == NoLsa \notin Generated
<1>1. NoLsa.number \notin Nat
  BY DEF NoLsa
<1>. QED
  BY <1>1 DEF Generated

\* What a call of onRouterLSAGenerate holds at each place.
LEMMA CallTypes ==
  ASSUME NEW c \in Call
  PROVE  /\ c.pc \in {"idle", "elect", "test", "find", "state", "fill", "lookup", "compare"}
         /\ c.pc = "idle" => c = Idle
         /\ c.pc = "fill" => c.transit \in BOOLEAN
         /\ c.pc \in {"lookup", "compare"} => c.lsa \in Generated
         /\ c.pc = "compare" => c = [pc |-> "compare", lsa |-> c.lsa, found |-> c.found]
  BY DEF Call, Idle

\* What describes the interface is a list of links.
LEMMA DescribeTypes ==
  ASSUME Typed
  PROVE  HasDr \in BOOLEAN /\ Describe \in Links
<1>1. HasDr \in BOOLEAN
  BY DEF HasDr
<1>. QED
  BY <1>1 DEF Describe, Links, Typed

\* The link that is filled in.
LEMMA FillTypes ==
  ASSUME Typed
  PROVE  <<Transit(dr)>> \in Links /\ <<Stub>> \in Links
  BY DEF Typed, Links

\* A stale pointer is one kind of pointer.
LEMMA DisturbedTypes ==
  ASSUME NEW t \in Thread, call[t] \in Call
  PROVE  /\ Disturbed(t) \in Call
         /\ Disturbed(t).pc = call[t].pc
         /\ HasLsa(t) => Disturbed(t).lsa = call[t].lsa
         /\ call[t].pc = "state" => Disturbed(t).nbr = call[t].nbr
         /\ call[t].pc = "fill" => Disturbed(t).transit = call[t].transit
         /\ call[t] = Idle => Disturbed(t) = Idle
<1>1. CASE call[t].pc = "compare"
  <2>1. /\ call[t].lsa \in Generated
        /\ call[t] = [pc |-> "compare", lsa |-> call[t].lsa, found |-> call[t].found]
    BY <1>1, CallTypes
  <2>2. [call[t] EXCEPT !.found = "stale"] = [pc |-> "compare", lsa |-> call[t].lsa, found |-> "stale"]
    BY <2>1
  <2>. QED
    BY <1>1, <2>1, <2>2 DEF Disturbed, Call, Idle
<1>2. CASE call[t].pc # "compare"
  BY <1>2 DEF Disturbed
<1>. QED
  BY <1>1, <1>2

\* Every step keeps the types.
LEMMA TypedStep ==
  ASSUME Typed, [Next]_vars
  PROVE  Typed'
<1> USE DEF Typed
<1>1. ASSUME NEW d \in Router, backUpSeen(d) PROVE Typed'
  BY <1>1 DEF backUpSeen, Call, Thread, counters, database
<1>2. ASSUME NEW d \in Router, nbrChange(d) PROVE Typed'
  BY <1>2 DEF nbrChange, Call, Thread, counters, database
<1>3. ASSUME NEW d \in Router, onWaitTimer(d) PROVE Typed'
  BY <1>3 DEF onWaitTimer, Call, Thread, counters, database
<1>4. CASE waitTimer
  BY <1>4 DEF waitTimer, Call, Thread, counters, database
<1>5. ASSUME NEW p \in Peers, changeFull(p) PROVE Typed'
  BY <1>5 DEF changeFull, Reasons, database
<1>6. ASSUME NEW t \in Thread, testLink(t) PROVE Typed'
  <2>1. [pc |-> "fill", transit |-> ~waiting] \in Call
    BY DEF Call
  <2>2. [pc |-> "find"] \in Call
    BY DEF Call
  <2>. QED
    BY <1>6, <2>1, <2>2 DEF testLink, counters, database, interface
<1>7. ASSUME NEW t \in Thread, fillLink(t) PROVE Typed'
  <2>1. call'[t] \in Call
    BY <1>7, FillTypes DEF fillLink, Call, Generated
  <2>. QED
    BY <1>7, <2>1 DEF fillLink, database, interface
<1>8. ASSUME NEW t \in Thread, lookup(t) PROVE Typed'
  <2>1. call[t].lsa \in Generated
    BY <1>8, CallTypes DEF lookup
  <2>2. call'[t] \in Call
    BY <1>8, <2>1 DEF lookup, Call
  <2>. QED
    BY <1>8, <2>2 DEF lookup, counters, database, interface
<1>9. ASSUME NEW t \in Thread, queueLsa(t) PROVE Typed'
  <2>1. call[t].lsa \in Generated
    BY <1>9, CallTypes DEF queueLsa
  <2>. QED
    BY <1>9, <2>1 DEF queueLsa, Queued, LostBy, Reasons, Call, counters, database, interface
<1>10. ASSUME NEW t \in Thread, dropLsa(t) PROVE Typed'
  BY <1>10 DEF dropLsa, NotQueued, Reasons, Call, counters, database, interface
<1>11. CASE lsaGenerateRemove
  <2>1. Head(rlsaList) \in Generated /\ Tail(rlsaList) \in Seq(Generated)
    BY <1>11, HeadTailProperties DEF lsaGenerateRemove
  <2>. QED
    BY <1>11, <2>1, DisturbedTypes DEF lsaGenerateRemove, counters, interface
<1>12. CASE lsaGenerateInsert
  BY <1>12, DisturbedTypes DEF lsaGenerateInsert, counters, interface
<1>13. CASE recvLSReq
  BY <1>13 DEF recvLSReq, counters, interface
<1>14. ASSUME NEW p, recvLSUpdate(p) PROVE Typed'
  BY <1>14, DisturbedTypes DEF recvLSUpdate, recvOtherLsa, Reasons, counters, interface
<1>15. CASE UNCHANGED vars
  BY <1>15 DEF vars, counters, database, interface
<1>16. ASSUME NEW t \in Thread, findNbr(t) PROVE Typed'
  <2>1. ASSUME dr \in Peers PROVE [pc |-> "state", nbr |-> dr] \in Call
    BY <2>1 DEF Call
  <2>. QED
    BY <1>16, <2>1 DEF findNbr, counters, database, interface
<1>17. ASSUME NEW t \in Thread, testFull(t) PROVE Typed'
  <2>1. [pc |-> "fill", transit |-> call[t].nbr \in full] \in Call
    BY DEF Call
  <2>. QED
    BY <1>17, <2>1 DEF testFull, counters, database, interface
<1>18. CASE recvOtherLsa
  BY <1>18, DisturbedTypes DEF recvOtherLsa, database, counters, interface
<1>. QED
  BY <1>1, <1>2, <1>3, <1>4, <1>5, <1>6, <1>7, <1>8, <1>9, <1>10, <1>11, <1>12, <1>13, <1>14, <1>15,
     <1>16, <1>17, <1>18
     DEF Next, generate, lsaGenerate

-----------------------------------------------------------------------------
(* The database. *)

Held == IsList /\ AtMostOne /\ InsertsIntoNothing /\ AbsentOnlyBefore

\* The first element of a list.
LEMMA Singleton ==
  ASSUME NEW x
  PROVE  Append(<< >>, x) = <<x>>
<1>1. << >> \in Seq({x}) /\ Len(<< >>) = 0
  OBVIOUS
<1>. QED
  BY <1>1, AppendProperties

\* What has been appended to is a list, and not empty.
LEMMA AppendedList ==
  ASSUME NEW S, NEW s \in Seq(S), NEW x
  PROVE  Append(s, x) \in Seq(S \cup {x}) /\ Append(s, x) # << >>
<1>1. s \in Seq(S \cup {x})
  OBVIOUS
<1>2. Append(s, x) \in Seq(S \cup {x}) /\ Len(Append(s, x)) = Len(s) + 1
  BY <1>1, AppendProperties
<1>3. Len(s) + 1 # Len(<< >>)
  OBVIOUS
<1>. QED
  BY <1>2, <1>3

\* A list of which an element has been written.
LEMMA WrittenList ==
  ASSUME NEW S, NEW s \in Seq(S), s # << >>, NEW x
  PROVE  [s EXCEPT ![1] = x] \in Seq(S \cup {x}) /\ [s EXCEPT ![1] = x] # << >>
         /\ (\A y : s = <<y>> => [s EXCEPT ![1] = x] = <<x>>)
<1>1. s \in Seq(S \cup {x})
  OBVIOUS
<1>2. 1 \in 1..Len(s)
  OBVIOUS
<1>3. [s EXCEPT ![1] = x] \in Seq(S \cup {x}) /\ Len([s EXCEPT ![1] = x]) = Len(s)
  BY <1>1, <1>2, ExceptSeq
<1>4. ASSUME NEW y, s = <<y>> PROVE [s EXCEPT ![1] = x] = <<x>>
  BY <1>4
<1>. QED
  BY <1>2, <1>3, <1>4

\* A copy whose links are counted.
LEMMA Counting ==
  ASSUME NEW links, NEW counted, NEW copy, copy = [links |-> links, counted |-> counted]
  PROVE  [copy EXCEPT !.counted = TRUE] = [links |-> links, counted |-> TRUE]
<1> DEFINE R == [links : {links}, counted : {counted, TRUE}]
<1>1. [copy EXCEPT !.counted = TRUE] \in R
  OBVIOUS
<1>2. [copy EXCEPT !.counted = TRUE].links = links /\ [copy EXCEPT !.counted = TRUE].counted = TRUE
  OBVIOUS
<1>3. ASSUME NEW r \in R, r.links = links, r.counted = TRUE PROVE r = [links |-> links, counted |-> TRUE]
  BY <1>3
<1>. QED
  BY <1>1, <1>2, <1>3

\* Removing the first of at most one copy leaves none.
LEMMA RemoveLeavesNone ==
  ASSUME AtMostOne, "reflected" \notin lost
  PROVE  WithoutFirst(routerLSAList) = << >>
<1>1. CASE routerLSAList = << >>
  BY <1>1 DEF WithoutFirst
<1>2. ASSUME NEW links, NEW counted, routerLSAList = <<[links |-> links, counted |-> counted]>>
      PROVE  WithoutFirst(routerLSAList) = << >>
  BY <1>2 DEF WithoutFirst
<1>. QED
  BY <1>1, <1>2 DEF AtMostOne

\* "reflected" is never taken back.
LEMMA ReflectedStays ==
  ASSUME [Next]_vars, "reflected" \in lost
  PROVE  "reflected" \in lost'
  BY DEF Next, vars, generate, lsaGenerate, backUpSeen, nbrChange, onWaitTimer, waitTimer, changeFull,
         testLink, findNbr, testFull, fillLink, lookup, queueLsa, dropLsa, lsaGenerateRemove, lsaGenerateInsert, recvLSReq,
         recvLSUpdate, recvOtherLsa

\* Only lsaGenerate and the handlers of requests and updates touch the database;
\* nobody else takes anything from the queue.
LEMMA HeldStep ==
  ASSUME Typed, Held, [Next]_vars
  PROVE  Held'
<1> DEFINE KeepsList == UNCHANGED database /\ (rlsaList # << >> => rlsaList' # << >>)
<1>1. ASSUME KeepsList PROVE Held'
  BY <1>1, ReflectedStays DEF Held, IsList, AtMostOne, InsertsIntoNothing, AbsentOnlyBefore, database
<1>2. ASSUME NEW d \in Router, backUpSeen(d) \/ nbrChange(d) \/ onWaitTimer(d) PROVE KeepsList
  BY <1>2 DEF backUpSeen, nbrChange, onWaitTimer
<1>3. ASSUME waitTimer \/ \E p \in Peers : changeFull(p) PROVE KeepsList
  BY <1>3 DEF waitTimer, changeFull
<1>4. ASSUME NEW t \in Thread, testLink(t) \/ findNbr(t) \/ testFull(t) \/ fillLink(t) \/ lookup(t) \/ dropLsa(t) PROVE KeepsList
  BY <1>4 DEF testLink, findNbr, testFull, fillLink, lookup, dropLsa
<1>5. ASSUME NEW t \in Thread, queueLsa(t) PROVE KeepsList
  <2>1. call[t].lsa \in Generated
    BY <1>5, CallTypes DEF queueLsa, Typed
  <2>2. rlsaList' = Append(rlsaList, call[t].lsa) /\ rlsaList \in Seq(Generated)
    BY <1>5 DEF queueLsa, Queued, Typed
  <2>. QED
    BY <1>5, <2>1, <2>2 DEF queueLsa
<1>6. CASE UNCHANGED vars \/ recvOtherLsa
  BY <1>1, <1>6 DEF vars, recvOtherLsa
<1>7. CASE lsaGenerateRemove
  <2>1. Head(rlsaList) \in Generated
    BY <1>7, HeadTailProperties DEF lsaGenerateRemove, Typed
  <2>2. generator' # NoLsa
    BY <1>7, <2>1, NoLsaIsNone DEF lsaGenerateRemove
  <2>3. lost' = lost
    BY <1>7 DEF lsaGenerateRemove
  <2>4. "reflected" \notin lost => routerLSAList' = << >>
    BY <1>7, RemoveLeavesNone DEF lsaGenerateRemove, Held
  <2>5. IsList'
    <3>1. PICK S : routerLSAList \in Seq(S)
      BY DEF Held, IsList
    <3>2. WithoutFirst(routerLSAList) \in Seq(S)
      BY <3>1, HeadTailProperties DEF WithoutFirst
    <3>. QED
      BY <1>7, <3>2 DEF lsaGenerateRemove, IsList
  <2>. QED
    BY <2>2, <2>3, <2>4, <2>5 DEF Held, IsList, AtMostOne, InsertsIntoNothing, AbsentOnlyBefore
<1>8. CASE lsaGenerateInsert
  <2> DEFINE copy == [links |-> generator.links, counted |-> FALSE]
  <2>1. generator' = NoLsa /\ lost' = lost /\ routerLSAList' = Append(routerLSAList, copy)
    BY <1>8 DEF lsaGenerateInsert
  <2>2. "reflected" \notin lost => routerLSAList' = <<copy>>
    BY <1>8, <2>1, Singleton DEF lsaGenerateInsert, Held, InsertsIntoNothing
  <2>3. PICK S : routerLSAList \in Seq(S)
    BY DEF Held, IsList
  <2>4. routerLSAList' \in Seq(S \cup {copy}) /\ routerLSAList' # << >>
    BY <2>1, <2>3, AppendedList
  <2>. QED
    BY <2>1, <2>2, <2>4 DEF Held, IsList, AtMostOne, InsertsIntoNothing, AbsentOnlyBefore
<1>9. CASE recvLSReq
  <2>1. CASE routerLSAList = << >>
    BY <1>1, <1>9, <2>1 DEF recvLSReq, database
  <2>2. CASE routerLSAList # << >>
    <3> DEFINE copy == [routerLSAList[1] EXCEPT !.counted = TRUE]
    <3>1. routerLSAList' = [routerLSAList EXCEPT ![1] = copy] /\ UNCHANGED <<rlsaList, generator, lost>>
      BY <1>9, <2>2 DEF recvLSReq
    <3>2. PICK S : routerLSAList \in Seq(S)
      BY DEF Held, IsList
    <3>3. /\ routerLSAList' \in Seq(S \cup {copy}) /\ routerLSAList' # << >>
          /\ \A y : routerLSAList = <<y>> => routerLSAList' = <<copy>>
      <4> HIDE DEF copy
      <4>. QED
        BY <2>2, <3>1, <3>2, WrittenList
    <3>4. ASSUME NEW links, NEW counted, routerLSAList = <<[links |-> links, counted |-> counted]>>
          PROVE  routerLSAList' = <<[links |-> links, counted |-> TRUE]>>
      <4>1. routerLSAList[1] = [links |-> links, counted |-> counted]
        BY <3>4
      <4>3. copy = [links |-> links, counted |-> TRUE]
        BY <4>1, Counting, Zenon
      <4>. QED
        BY <3>3, <3>4, <4>3, Zenon
    <3>5. AtMostOne'
      BY <2>2, <3>1, <3>4, Zenon DEF Held, AtMostOne
    <3>6. IsList' /\ routerLSAList' # << >>
      BY <3>3, Zenon DEF IsList
    <3>. QED
      BY <2>2, <3>1, <3>5, <3>6 DEF Held, InsertsIntoNothing, AbsentOnlyBefore
  <2>. QED
    BY <2>1, <2>2
<1>10. ASSUME NEW p, recvLSUpdate(p) PROVE Held'
  <2>1. routerLSAList' = <<[links |-> RouterLSA(LsaOf(p)).links, counted |-> TRUE]>>
    BY <1>10 DEF recvLSUpdate, recvOtherLsa
  <2>2. generator' = generator /\ (generator # NoLsa => "reflected" \in lost')
    BY <1>10 DEF recvLSUpdate, recvOtherLsa
  <2>3. routerLSAList' # << >> /\ routerLSAList' \in Seq({[links |-> RouterLSA(LsaOf(p)).links, counted |-> TRUE]})
    BY <2>1
  <2>. QED
    BY <2>1, <2>2, <2>3 DEF Held, IsList, AtMostOne, InsertsIntoNothing, AbsentOnlyBefore
<1>. QED
  BY <1>1, <1>2, <1>3, <1>4, <1>5, <1>6, <1>7, <1>8, <1>9, <1>10 DEF Next, generate, lsaGenerate

-----------------------------------------------------------------------------
(* The LSAs that are generated and not queued yet. *)

\* No thread takes another LSA into its hands.
HandsOnlyEmptied ==
  calls' = calls /\ \A t \in Thread : HasLsa(t)' => HasLsa(t) /\ call'[t].lsa = call[t].lsa

\* What describes the interface changes with the interface only.
LEMMA DescribeFrame ==
  ASSUME UNCHANGED <<waiting, dr, full>>
  PROVE  Describe' = Describe /\ HasDr' = HasDr
  BY DEF Describe, HasDr

\* The threads' calls when the database is changed.
LEMMA DisturbedHands ==
  ASSUME Typed, call' = [t \in Thread |-> Disturbed(t)], NEW t \in Thread
  PROVE  /\ call'[t].pc = call[t].pc
         /\ HasLsa(t) => call'[t].lsa = call[t].lsa
         /\ call[t].pc = "state" => call'[t].nbr = call[t].nbr
         /\ call[t].pc = "fill" => call'[t].transit = call[t].transit
         /\ call[t] = Idle => call'[t] = Idle
  BY DisturbedTypes DEF Typed

\* Only the end of generateRouterLSA gives a thread an LSA.
LEMMA EmptiedOrFilled ==
  ASSUME Typed, [Next]_vars
  PROVE  HandsOnlyEmptied \/ \E t \in Thread : fillLink(t)
<1> USE DEF Typed, HandsOnlyEmptied, HasLsa
<1>1. ASSUME NEW d \in Router, backUpSeen(d) \/ nbrChange(d) \/ onWaitTimer(d) PROVE HandsOnlyEmptied
  BY <1>1 DEF backUpSeen, nbrChange, onWaitTimer, counters
<1>2. ASSUME waitTimer \/ \E p \in Peers : changeFull(p) PROVE HandsOnlyEmptied
  BY <1>2 DEF waitTimer, changeFull, counters
<1>3. ASSUME NEW t \in Thread, testLink(t) \/ findNbr(t) \/ testFull(t) \/ queueLsa(t) \/ dropLsa(t)
      PROVE  HandsOnlyEmptied
  BY <1>3 DEF testLink, findNbr, testFull, queueLsa, dropLsa, counters, Idle
<1>4. ASSUME NEW t \in Thread, lookup(t) PROVE HandsOnlyEmptied
  BY <1>4 DEF lookup, counters
<1>5. ASSUME lsaGenerate \/ recvOtherLsa \/ \E p : recvLSUpdate(p) PROVE HandsOnlyEmptied
  <2>1. call' = [t \in Thread |-> Disturbed(t)] /\ calls' = calls
    BY <1>5 DEF lsaGenerate, lsaGenerateRemove, lsaGenerateInsert, recvLSUpdate, recvOtherLsa, counters
  <2>. QED
    BY <2>1, DisturbedHands
<1>6. ASSUME recvLSReq \/ UNCHANGED vars PROVE HandsOnlyEmptied
  BY <1>6 DEF recvLSReq, vars, counters
<1>. QED
  BY <1>1, <1>2, <1>3, <1>4, <1>5, <1>6 DEF Next, generate

\* Numbers are given in the order of generation.
LEMMA NumbersStep ==
  ASSUME Typed, NumbersInHand, [Next]_vars
  PROVE  NumbersInHand'
<1>1. CASE HandsOnlyEmptied
  BY <1>1 DEF HandsOnlyEmptied, NumbersInHand
<1>2. ASSUME NEW v \in Thread, fillLink(v) PROVE NumbersInHand'
  <2>1. calls \in Nat /\ calls' = calls + 1
    BY <1>2 DEF fillLink, Typed
  <2>2. call'[v].lsa.number = calls + 1
    BY <1>2 DEF fillLink, Typed
  <2>3. ASSUME NEW t \in Thread, t # v, HasLsa(t)'
        PROVE  HasLsa(t) /\ call'[t].lsa = call[t].lsa /\ call[t].lsa.number \in Nat
    <3>1. call'[t] = call[t]
      BY <1>2, <2>3 DEF fillLink, Typed
    <3>. QED
      BY <2>3, <3>1, CallTypes DEF HasLsa, Typed, Generated
  <2>4. ASSUME NEW t \in Thread, HasLsa(t)' PROVE call'[t].lsa.number <= calls'
    BY <2>1, <2>2, <2>3, <2>4 DEF NumbersInHand
  <2>5. ASSUME NEW t \in Thread, NEW u \in Thread, t # u, HasLsa(t)', HasLsa(u)'
        PROVE  call'[t].lsa.number # call'[u].lsa.number
    BY <2>1, <2>2, <2>3, <2>5 DEF NumbersInHand
  <2>. QED
    BY <2>4, <2>5 DEF NumbersInHand
<1>. QED
  BY <1>1, <1>2, EmptiedOrFilled

\* Why the newest LSA in hand may not describe the interface.
LEMMA NewestStep ==
  ASSUME Typed, NumbersInHand, NewestInHand, [Next]_vars
  PROVE  NewestInHand'
<1> SUFFICES ASSUME NEW t \in Thread, NEW u \in Thread, t # u,
                    HasLsa(t)', ~call'[t].lsa.torn, call'[t].lsa.number = calls'
             PROVE  \/ call'[t].lsa.links = Describe'
                    \/ u \in Reading'
                    \/ "full" \in lost' /\ ~HasLsa(u)'
  BY DEF NewestInHand
<1>1. CASE HandsOnlyEmptied
  <2>1. /\ HasLsa(t) /\ call'[t].lsa = call[t].lsa
        /\ ~HasLsa(u) => ~HasLsa(u)'
    BY <1>1 DEF HandsOnlyEmptied
  <2>2. \/ call[t].lsa.links = Describe
        \/ u \in Reading
        \/ "full" \in lost /\ ~HasLsa(u)
    BY <1>1, <2>1 DEF HandsOnlyEmptied, NewestInHand
  <2>3. Describe' = Describe \/ u \in Reading' \/ ("full" \in lost' /\ ~HasLsa(u)')
    <3> USE DEF Thread
    <3>1. ASSUME NEW d \in Router, backUpSeen(d) \/ nbrChange(d) \/ onWaitTimer(d) PROVE u \in Reading'
      BY <2>1, <3>1 DEF backUpSeen, nbrChange, onWaitTimer, Free, HasLsa, Reading, Typed
    <3>2. ASSUME NEW p \in Peers, changeFull(p)
          PROVE  Describe' = Describe \/ ("full" \in lost' /\ ~HasLsa(u)')
      BY <2>1, <3>2 DEF changeFull, Free, HasLsa
    <3>3. ASSUME UNCHANGED interface \/ waitTimer PROVE Describe' = Describe
      BY <3>3, DescribeFrame DEF interface, waitTimer
    <3>4. ASSUME ((\E v \in Thread : generate(v)) \/ lsaGenerate \/ recvLSReq
                   \/ recvOtherLsa \/ (\E p : recvLSUpdate(p)) \/ UNCHANGED vars)
          PROVE  UNCHANGED interface
      BY <3>4 DEF generate, testLink, findNbr, testFull, fillLink, lookup, queueLsa, dropLsa, lsaGenerate, lsaGenerateRemove,
                  lsaGenerateInsert, recvLSReq,
                  recvLSUpdate, recvOtherLsa, vars
    <3>. QED
      BY <3>1, <3>2, <3>3, <3>4 DEF Next
  <2>4. u \in Reading => u \in Reading' \/ Describe' = call'[t].lsa.links
    <3> SUFFICES ASSUME u \in Reading PROVE u \in Reading' \/ Describe' = call'[t].lsa.links
      OBVIOUS
    <3> USE DEF Thread
    <3>1. ASSUME (\E d \in Router : backUpSeen(d) \/ nbrChange(d) \/ onWaitTimer(d)) PROVE u \in Reading'
      BY <2>1, <3>1 DEF backUpSeen, nbrChange, onWaitTimer, Free, HasLsa, Reading, Typed
    <3>2. ASSUME waitTimer \/ (\E p \in Peers : changeFull(p)) PROVE u \in Reading'
      BY <2>1, <3>2 DEF waitTimer, changeFull, Free, HasLsa, Reading, Typed
    <3>3. ASSUME NEW v \in Thread, testLink(v) \/ findNbr(v) \/ testFull(v) \/ lookup(v) \/ queueLsa(v) \/ dropLsa(v)
          PROVE  u \in Reading'
      BY <2>1, <3>3 DEF testLink, findNbr, testFull, lookup, queueLsa, dropLsa, HasLsa, Reading, Typed
    <3>4. ASSUME NEW v \in Thread, fillLink(v) PROVE FALSE
      BY <1>1, <3>4 DEF fillLink, HandsOnlyEmptied, Typed
    <3>5. ASSUME lsaGenerate \/ recvOtherLsa \/ (\E p : recvLSUpdate(p)) PROVE u \in Reading'
      <4>1. call' = [v \in Thread |-> Disturbed(v)]
        BY <3>5 DEF lsaGenerate, lsaGenerateRemove, lsaGenerateInsert, recvLSUpdate, recvOtherLsa
      <4>. QED
        BY <4>1, DisturbedHands DEF Reading
    <3>6. ASSUME recvLSReq \/ UNCHANGED vars PROVE u \in Reading'
      BY <3>6 DEF recvLSReq, vars, Reading
    <3>. QED
      BY <3>1, <3>2, <3>3, <3>4, <3>5, <3>6 DEF Next, generate
  <2>5. "full" \in lost /\ ~HasLsa(u) => "full" \in lost'
    <3> SUFFICES ASSUME "full" \in lost, ~HasLsa(u) PROVE "full" \in lost'
      OBVIOUS
    <3>1. ASSUME NEW v \in Thread, queueLsa(v) PROVE FALSE
      <4>1. v = t
        BY <3>1 DEF queueLsa, HasLsa, Thread
      <4>. QED
        BY <3>1, <4>1 DEF queueLsa, HasLsa, Idle, Typed
    <3>. QED
      BY <3>1 DEF Next, generate, lsaGenerate, backUpSeen, nbrChange, onWaitTimer, waitTimer, changeFull, testLink,
                  findNbr, testFull, fillLink, lookup, dropLsa, lsaGenerateRemove, lsaGenerateInsert, recvLSReq,
                  recvLSUpdate, recvOtherLsa, vars
  <2>. QED
    BY <2>1, <2>2, <2>3, <2>4, <2>5
<1>2. ASSUME NEW v \in Thread, fillLink(v) PROVE call'[t].lsa.links = Describe'
  <2>1. calls \in Nat /\ calls' = calls + 1 /\ Describe' = Describe
    BY <1>2, DescribeFrame DEF fillLink, Typed, interface
  <2>2. CASE t = v
    BY <1>2, <2>1, <2>2 DEF fillLink, Typed
  <2>3. CASE t # v
    <3>1. call'[t] = call[t]
      BY <1>2, <2>3 DEF fillLink, Typed
    <3>2. HasLsa(t) /\ call[t].lsa.number <= calls /\ call[t].lsa.number \in Nat
      BY <3>1, CallTypes DEF HasLsa, NumbersInHand, Typed, Generated
    <3>. QED
      BY <2>1, <3>1, <3>2
  <2>. QED
    BY <2>2, <2>3
<1>. QED
  BY <1>1, <1>2, EmptiedOrFilled

-----------------------------------------------------------------------------
(* Before the timer's thread wakes. *)

\* A newly filled link is the one that describes the interface if the test
\* still holds.
LEMMA FilledDescribes ==
  ASSUME Typed, NEW t \in Thread, fillLink(t), call[t].transit = HasDr
  PROVE  ~call'[t].lsa.torn /\ call'[t].lsa.number = calls'
BY DEF fillLink, Describe, Typed

\* The receive thread has the interface to itself.
LEMMA AloneStep ==
  ASSUME Typed, NumbersInHand, AloneBeforeTimer, OrderedBeforeTimer, [Next]_vars
  PROVE  AloneBeforeTimer' /\ OrderedBeforeTimer'
<1> SUFFICES ASSUME timer' PROVE AloneBeforeTimer' /\ OrderedBeforeTimer'
  BY DEF AloneBeforeTimer, OrderedBeforeTimer
<1>1. timer
  BY DEF Next, vars, interface, generate, lsaGenerate, backUpSeen, nbrChange, onWaitTimer, waitTimer, changeFull,
         testLink, findNbr, testFull, fillLink, lookup, queueLsa, dropLsa, lsaGenerateRemove, lsaGenerateInsert, recvLSReq,
         recvLSUpdate, recvOtherLsa
<1>2. /\ call["wait"] = Idle
      /\ waiting \/ dr \in Router
      /\ call["recv"].pc \in {"find", "state"} => ~waiting /\ dr \in Peers
      /\ call["recv"].pc = "state" => call["recv"].nbr = dr
      /\ call["recv"].pc = "fill" => call["recv"].transit = HasDr
      /\ HasLsa("recv") => call["recv"].lsa.number = calls /\ ~call["recv"].lsa.torn
      /\ {"torn", "overtaken"} \cap lost = {} /\ fault # "null_nbr"
  BY <1>1 DEF AloneBeforeTimer, OrderedBeforeTimer
<1> DEFINE Alone ==
      /\ call'["wait"] = Idle
      /\ waiting' \/ dr' \in Router
      /\ call'["recv"].pc \in {"find", "state"} => ~waiting' /\ dr' \in Peers
      /\ call'["recv"].pc = "state" => call'["recv"].nbr = dr'
      /\ call'["recv"].pc = "fill" => call'["recv"].transit = HasDr'
      /\ HasLsa("recv")' => call'["recv"].lsa.number = calls' /\ ~call'["recv"].lsa.torn
<1> SUFFICES Alone /\ {"torn", "overtaken"} \cap lost' = {} /\ fault' # "null_nbr"
  BY DEF AloneBeforeTimer, OrderedBeforeTimer
<1>0. fault' # "null_nbr"
  <2>1. ASSUME NEW t \in Thread, findNbr(t) PROVE fault' = fault
    BY <1>2, <2>1 DEF findNbr, Thread, Idle
  <2>. QED
    BY <1>2, <2>1 DEF Next, vars, generate, lsaGenerate, backUpSeen, nbrChange, onWaitTimer, waitTimer, changeFull,
         testLink, testFull, fillLink, lookup, queueLsa, dropLsa, lsaGenerateRemove, lsaGenerateInsert, recvLSReq,
         recvLSUpdate, recvOtherLsa
<1> USE DEF Thread, HasLsa, Idle
<1>3. ASSUME NEW d \in Router, backUpSeen(d) \/ nbrChange(d) PROVE Alone /\ lost' = lost
  <2>1. call' = [call EXCEPT !["recv"] = [pc |-> "test"]] /\ lost' = lost /\ dr' = d
    BY <1>3 DEF backUpSeen, nbrChange
  <2>2. call'["wait"] = call["wait"] /\ call'["recv"].pc = "test"
    BY <2>1 DEF Typed
  <2>. QED
    BY <1>2, <2>1, <2>2
<1>4. ASSUME waitTimer \/ (\E d \in Router : onWaitTimer(d)) PROVE FALSE
  BY <1>1, <1>2, <1>4 DEF waitTimer, onWaitTimer
<1>5. ASSUME NEW p \in Peers, changeFull(p) PROVE Alone /\ (lost' = lost \/ lost' = lost \cup {"full"})
  BY <1>2, <1>5 DEF changeFull, Free
<1>6. ASSUME NEW t \in Thread, generate(t) PROVE t = "recv"
  BY <1>2, <1>6 DEF generate, testLink, findNbr, testFull, fillLink, lookup, queueLsa, dropLsa
<1>7. ASSUME testLink("recv") PROVE Alone /\ lost' = lost
  <2>1. HasDr' = HasDr /\ UNCHANGED interface
    BY <1>7, DescribeFrame DEF testLink, interface
  <2>2. CASE waiting \/ dr = Self
    BY <1>2, <1>7, <2>1, <2>2 DEF testLink, Typed, HasDr, interface
  <2>3. CASE ~waiting /\ dr \in Peers
    BY <1>2, <1>7, <2>1, <2>3, PeerAssumption DEF testLink, Typed, interface
  <2>. QED
    BY <1>2, <2>2, <2>3 DEF Router
<1>14. ASSUME findNbr("recv") PROVE Alone /\ lost' = lost
  <2>1. call' = [call EXCEPT !["recv"] = [pc |-> "state", nbr |-> dr]] /\ UNCHANGED interface /\ lost' = lost
    BY <1>2, <1>14 DEF findNbr
  <2>2. call["recv"].pc = "find"
    BY <1>14 DEF findNbr
  <2>. QED
    BY <1>2, <2>1, <2>2 DEF Typed, interface
<1>15. ASSUME testFull("recv") PROVE Alone /\ lost' = lost
  <2>1. HasDr' = HasDr /\ UNCHANGED interface
    BY <1>15, DescribeFrame DEF testFull, interface
  <2>2. /\ call' = [call EXCEPT !["recv"] = [pc |-> "fill", transit |-> call["recv"].nbr \in full]]
        /\ lost' = lost /\ call["recv"].pc = "state"
    BY <1>15 DEF testFull
  <2>3. HasDr = (dr \in full)
    BY <1>2, <2>2, PeerAssumption DEF HasDr
  <2>. QED
    <3>1. call'["recv"] = [pc |-> "fill", transit |-> dr \in full] /\ call'["wait"] = call["wait"]
      BY <1>2, <2>2 DEF Typed
    <3>. QED
      BY <1>2, <2>1, <2>2, <2>3, <3>1 DEF interface
<1>8. ASSUME fillLink("recv") PROVE Alone /\ lost' = lost
  <2>1. ~call'["recv"].lsa.torn /\ call'["recv"].lsa.number = calls'
    BY <1>2, <1>8, FilledDescribes DEF fillLink
  <2>. QED
    BY <1>2, <1>8, <2>1 DEF fillLink, Typed, interface
<1>9. ASSUME lookup("recv") PROVE Alone /\ lost' = lost
  BY <1>2, <1>9 DEF lookup, Typed, counters, interface
<1>10. ASSUME queueLsa("recv")
       PROVE  Alone /\ {"torn", "overtaken"} \cap lost' = {}
  <2>1. call["recv"].lsa.number = calls /\ ~call["recv"].lsa.torn /\ calls \in Nat
    BY <1>2, <1>10 DEF queueLsa, Typed
  <2>2. LostBy(call["recv"].lsa) = {}
    BY <2>1 DEF LostBy
  <2>3. lost' \subseteq lost
    BY <1>10, <2>2 DEF queueLsa
  <2>. QED
    BY <1>2, <1>10, <2>3 DEF queueLsa, Typed, interface
<1>11. ASSUME dropLsa("recv") PROVE Alone /\ lost' \subseteq lost \cup {"stale", "uncounted"}
  BY <1>2, <1>11 DEF dropLsa, NotQueued, Typed, interface
<1>12. ASSUME lsaGenerate \/ recvOtherLsa \/ (\E p : recvLSUpdate(p)) PROVE Alone /\ lost' \subseteq lost \cup {"reflected"}
  <2>1. /\ call' = [v \in Thread |-> Disturbed(v)]
        /\ UNCHANGED interface /\ UNCHANGED calls
        /\ lost' \subseteq lost \cup {"reflected"}
    BY <1>12 DEF lsaGenerate, lsaGenerateRemove, lsaGenerateInsert, recvLSUpdate, recvOtherLsa, counters
  <2>2. HasDr' = HasDr
    BY <2>1, DescribeFrame DEF interface
  <2>3. /\ call'["wait"] = Idle
        /\ call'["recv"].pc = call["recv"].pc
        /\ HasLsa("recv") => call'["recv"].lsa = call["recv"].lsa
        /\ call["recv"].pc = "state" => call'["recv"].nbr = call["recv"].nbr
        /\ call["recv"].pc = "fill" => call'["recv"].transit = call["recv"].transit
    BY <1>2, <2>1, DisturbedHands
  <2>. QED
    BY <1>2, <2>1, <2>2, <2>3 DEF interface
<1>13. ASSUME recvLSReq \/ UNCHANGED vars PROVE Alone /\ lost' = lost
  <2>1. UNCHANGED <<interface, call, lost, calls>>
    BY <1>13 DEF recvLSReq, vars, counters, interface
  <2>2. HasDr' = HasDr
    BY <2>1, DescribeFrame DEF interface
  <2>. QED
    BY <1>2, <2>1, <2>2 DEF interface
<1>. QED
  BY <1>0, <1>14, <1>15, <1>2, <1>3, <1>4, <1>5, <1>6, <1>7, <1>8, <1>9, <1>10, <1>11, <1>12, <1>13 DEF Next, generate

-----------------------------------------------------------------------------
(* The last word. *)

Busy(t) == t \in Reading \/ HasLsa(t)

\* The queue's last LSA, and what is last when one is taken from the front.
LEMMA QueueEnds ==
  ASSUME NEW s \in Seq(Generated)
  PROVE  /\ \A lsa \in Generated : Append(s, lsa) # << >> /\ Last(Append(s, lsa)) = lsa
         /\ s # << >> /\ Tail(s) = << >> => Last(s) = Head(s)
         /\ s # << >> /\ Tail(s) # << >> => Last(Tail(s)) = Last(s)
<1>1. ASSUME NEW lsa \in Generated PROVE Append(s, lsa) # << >> /\ Last(Append(s, lsa)) = lsa
  BY <1>1, AppendProperties DEF Last
<1>2. ASSUME s # << >>, Tail(s) = << >> PROVE Last(s) = Head(s)
  <2>1. Len(s) \in Nat /\ Len(Tail(s)) = Len(s) - 1
    BY <1>2, HeadTailProperties
  <2>2. Len(Tail(s)) = 0
    <3>1. Len(<< >>) = 0
      OBVIOUS
    <3>. QED
      BY <1>2, <3>1, Zenon
  <2>3. Len(s) = 1
    BY <2>1, <2>2
  <2>. QED
    BY <1>2, <2>3 DEF Last
<1>3. ASSUME s # << >>, Tail(s) # << >> PROVE Last(Tail(s)) = Last(s)
  <2>1. /\ Tail(s) \in Seq(Generated)
        /\ Len(Tail(s)) = Len(s) - 1
        /\ \A k \in 1..Len(Tail(s)) : Tail(s)[k] = s[k + 1]
    BY <1>3, HeadTailProperties
  <2>2. Len(Tail(s)) \in 1..Len(Tail(s))
    BY <1>3, <2>1
  <2>. QED
    BY <2>1, <2>2 DEF Last
<1>. QED
  BY <1>1, <1>2, <1>3

\* Moving an LSA along the queue, into the database, or counting its links, does
\* not change what is said last.
LEMMA LastWordMoves ==
  ASSUME Typed, Held, "reflected" \notin lost,
         lsaGenerate \/ recvLSReq \/ recvOtherLsa \/ \E p : recvLSUpdate(p)
  PROVE  LastWord' = LastWord
<1>1. CASE lsaGenerateRemove
  <2>1. /\ rlsaList \in Seq(Generated) /\ rlsaList # << >> /\ generator = NoLsa
        /\ rlsaList' = Tail(rlsaList) /\ generator' = Head(rlsaList)
    BY <1>1 DEF lsaGenerateRemove, Typed
  <2>2. generator' # NoLsa
    BY <2>1, NoLsaIsNone, HeadTailProperties
  <2>3. LastWord = Last(rlsaList).links
    BY <2>1 DEF LastWord
  <2>4. CASE rlsaList' = << >>
    BY <2>1, <2>2, <2>3, <2>4, QueueEnds DEF LastWord
  <2>5. CASE rlsaList' # << >>
    BY <2>1, <2>3, <2>5, QueueEnds DEF LastWord
  <2>. QED
    BY <2>4, <2>5
<1>2. CASE lsaGenerateInsert
  <2> DEFINE copy == [links |-> generator.links, counted |-> FALSE]
  <2>1. routerLSAList' = Append(<< >>, copy)
    BY <1>2 DEF lsaGenerateInsert, Held, InsertsIntoNothing
  <2>2. routerLSAList' # << >> /\ routerLSAList'[1].links = generator.links
    <3>1. routerLSAList' = <<copy>>
      BY <2>1, Singleton
    <3>. QED
      BY <3>1
  <2>. QED
    BY <1>2, <2>2 DEF lsaGenerateInsert, LastWord
<1>3. CASE recvLSReq
  <2>1. CASE routerLSAList = << >>
    BY <1>3, <2>1 DEF recvLSReq, LastWord
  <2>2. ASSUME NEW links, NEW counted, routerLSAList = <<[links |-> links, counted |-> counted]>>
        PROVE  LastWord' = LastWord
    <3> DEFINE copy == [routerLSAList[1] EXCEPT !.counted = TRUE]
    <3>1. routerLSAList[1] = [links |-> links, counted |-> counted] /\ routerLSAList # << >>
      BY <2>2
    <3>2. routerLSAList' = [routerLSAList EXCEPT ![1] = copy] /\ UNCHANGED <<rlsaList, generator>>
      BY <1>3, <3>1 DEF recvLSReq
    <3>3. copy = [links |-> links, counted |-> TRUE]
      BY <3>1, Counting, Zenon
    <3>4. routerLSAList' = <<copy>>
      <4> DEFINE S == {routerLSAList[1]}
      <4>1. routerLSAList \in Seq(S) /\ routerLSAList = <<routerLSAList[1]>>
        BY <2>2
      <4> HIDE DEF copy
      <4>. QED
        BY <3>1, <3>2, <4>1, WrittenList
    <3>5. routerLSAList' # << >> /\ routerLSAList'[1].links = links
      BY <3>3, <3>4
    <3>. QED
      BY <3>1, <3>2, <3>5 DEF LastWord
  <2>. QED
    BY <2>1, <2>2 DEF Held, AtMostOne
<1>4. ASSUME NEW p, recvLSUpdate(p) PROVE LastWord' = LastWord
  BY <1>4 DEF recvLSUpdate, Held, AbsentOnlyBefore, LastWord
<1>5. CASE recvOtherLsa
  BY <1>5 DEF recvOtherLsa, database, LastWord
<1>. QED
  BY <1>1, <1>2, <1>3, <1>4, <1>5 DEF lsaGenerate

\* Whoever changes what the interface looks like generates, or is remembered.
LEMMA LastWordStep ==
  ASSUME Typed, Held, NumbersInHand, NewestInHand, LastWordDescribes, [Next]_vars
  PROVE  LastWordDescribes'
<1> SUFFICES ASSUME lost' = {} PROVE LastWord' = Describe' \/ \E t \in Thread : Busy(t)'
  BY DEF LastWordDescribes, Busy
<1> USE DEF Busy, Reading, HasLsa
<1>1. ASSUME NEW d \in Router, backUpSeen(d) \/ nbrChange(d) \/ onWaitTimer(d)
      PROVE  \E t \in Thread : Busy(t)'
  <2>1. ASSUME NEW t \in {"recv", "wait"}, call' = [call EXCEPT ![t] = [pc |-> "test"]]
        PROVE  Busy(t)' /\ t \in Thread
    BY <2>1 DEF Typed, Thread
  <2>. QED
    BY <1>1, <2>1 DEF backUpSeen, nbrChange, onWaitTimer
<1>2. ASSUME NEW t \in Thread, queueLsa(t) PROVE LastWord' = Describe' \/ \E u \in Thread : Busy(u)'
  <2> DEFINE lsa == call[t].lsa
  <2>1. lsa \in Generated /\ lsa.number \in Nat /\ lsa.torn \in BOOLEAN /\ calls \in Nat /\ HasLsa(t)
    BY <1>2, CallTypes DEF queueLsa, Typed, Generated
  <2>2. Describe' = Describe
    BY <1>2, DescribeFrame DEF queueLsa, interface
  <2>3. LastWord' = lsa.links
    <3>1. rlsaList' = Append(rlsaList, lsa) /\ rlsaList \in Seq(Generated)
      BY <1>2 DEF queueLsa, Queued, Typed
    <3>2. rlsaList' # << >> /\ Last(rlsaList') = lsa
      BY <2>1, <3>1, QueueEnds
    <3>. QED
      BY <3>2 DEF LastWord
  <2>4. CASE lsa.links = Describe
    BY <2>2, <2>3, <2>4
  <2>5. CASE lsa.links # Describe
    <3>1. LostBy(lsa) = {} /\ lost = {}
      BY <1>2, <2>5 DEF queueLsa
    <3>2. ~lsa.torn /\ lsa.number = calls
      BY <2>1, <3>1 DEF LostBy, NumbersInHand
    <3>3. PICK u \in Thread : u # t
      BY DEF Thread
    <3>4. u \in Reading
      BY <2>1, <2>5, <3>1, <3>2, <3>3 DEF NewestInHand
    <3>5. call'[u] = call[u]
      BY <1>2, <3>3 DEF queueLsa, Typed
    <3>. QED
      BY <3>4, <3>5
  <2>. QED
    BY <2>4, <2>5
<1>3. ASSUME NEW t \in Thread, dropLsa(t) PROVE LastWord' = Describe'
  <2>1. Describe' = Describe
    BY <1>3, DescribeFrame DEF dropLsa, interface
  <2>2. LastWord' = LastWord
    BY <1>3 DEF dropLsa, LastWord, database
  <2>3. LastWord = Describe
    BY <1>3 DEF dropLsa, NotQueued, MayBeEqual
  <2>. QED
    BY <2>1, <2>2, <2>3
<1>4. ASSUME NEW p \in Peers, changeFull(p) PROVE LastWord' = Describe' \/ \E t \in Thread : Busy(t)'
  <2>1. lost = {} /\ Describe' = Describe /\ call' = call /\ LastWord' = LastWord
    BY <1>4 DEF changeFull, LastWord, database
  <2>. QED
    BY <2>1 DEF LastWordDescribes
<1>5. ASSUME NEW t \in Thread, testLink(t) \/ findNbr(t) \/ testFull(t) \/ fillLink(t) \/ lookup(t) PROVE Busy(t)'
  BY <1>5 DEF testLink, findNbr, testFull, fillLink, lookup, Typed
<1>6. CASE waitTimer
  <2>1. lost = {} /\ Describe' = Describe /\ LastWord' = LastWord
    BY <1>6, DescribeFrame DEF waitTimer, LastWord, database
  <2>2. ASSUME NEW t \in Thread, Busy(t) PROVE Busy(t)'
    BY <1>6, <2>2 DEF waitTimer, Free, Typed
  <2>. QED
    BY <2>1, <2>2 DEF LastWordDescribes
<1>7. ASSUME lsaGenerate \/ recvLSReq \/ recvOtherLsa \/ (\E p : recvLSUpdate(p))
      PROVE  LastWord' = Describe' \/ \E t \in Thread : Busy(t)'
  <2>1. lost = {} /\ UNCHANGED interface
    BY <1>7 DEF lsaGenerate, lsaGenerateRemove, lsaGenerateInsert, recvLSReq, recvLSUpdate, recvOtherLsa
  <2>2. LastWord' = LastWord /\ Describe' = Describe
    BY <1>7, <2>1, LastWordMoves, DescribeFrame DEF interface
  <2>3. ASSUME NEW t \in Thread, Busy(t) PROVE Busy(t)'
    <3>1. call' = call \/ call' = [v \in Thread |-> Disturbed(v)]
      BY <1>7 DEF lsaGenerate, lsaGenerateRemove, lsaGenerateInsert, recvLSReq, recvLSUpdate, recvOtherLsa
    <3>2. call'[t].pc = call[t].pc
      BY <3>1, DisturbedHands
    <3>. QED
      BY <2>3, <3>2
  <2>. QED
    BY <2>1, <2>2, <2>3 DEF LastWordDescribes
<1>8. CASE UNCHANGED vars
  <2>1. lost = {} /\ call' = call /\ LastWord' = LastWord /\ Describe' = Describe
    BY <1>8, DescribeFrame DEF vars, interface, database, LastWord
  <2>. QED
    BY <2>1 DEF LastWordDescribes
<1>. QED
  BY <1>1, <1>2, <1>3, <1>4, <1>5, <1>6, <1>7, <1>8 DEF Next, generate

-----------------------------------------------------------------------------
(* The theorems. *)

\* main has queued the first LSA.
LEMMA IInvInit == Init => IInv
<1> SUFFICES ASSUME Init PROVE IInv
  OBVIOUS
<1> DEFINE first == [links |-> <<Stub>>, number |-> 0, torn |-> FALSE]
<1>1. <<Stub>> \in Links
  BY DEF Links
<1>2. first \in Generated /\ rlsaList = <<first>> /\ call = [t \in Thread |-> Idle]
  BY <1>1 DEF Generated, Init
<1>3. Typed
  BY <1>2 DEF Typed, Init, Call
<1>4. IsList /\ AtMostOne /\ InsertsIntoNothing
  <2>1. routerLSAList \in Seq({})
    BY DEF Init
  <2>. QED
    BY <2>1 DEF Init, IsList, AtMostOne, InsertsIntoNothing
<1>5. AbsentOnlyBefore
  BY <1>2 DEF AbsentOnlyBefore
<1>6. \A t \in Thread : ~HasLsa(t) /\ call[t] = Idle /\ call[t].pc \notin {"find", "state", "fill"}
  BY <1>2 DEF HasLsa, Idle
<1>7. NumbersInHand /\ NewestInHand
  BY <1>6 DEF NumbersInHand, NewestInHand
<1>8. AloneBeforeTimer /\ OrderedBeforeTimer
  <2>1. waiting /\ lost = {} /\ fault = "none"
    BY DEF Init
  <2>. QED
    BY <1>6, <2>1 DEF AloneBeforeTimer, OrderedBeforeTimer, Thread
<1>9. LastWordDescribes
  <2>1. rlsaList # << >> /\ Last(rlsaList).links = <<Stub>>
    BY <1>2 DEF Last
  <2>2. Describe = <<Stub>>
    BY DEF Init, Describe, HasDr
  <2>. QED
    BY <2>1, <2>2 DEF LastWordDescribes, LastWord
<1>. QED
  BY <1>3, <1>4, <1>5, <1>7, <1>8, <1>9 DEF IInv

\* Every step keeps the invariant.
LEMMA IInvStep == IInv /\ [Next]_vars => IInv'
<1> SUFFICES ASSUME IInv, [Next]_vars PROVE IInv'
  OBVIOUS
<1>1. Typed'
  BY TypedStep DEF IInv
<1>2. Held'
  BY HeldStep DEF IInv, Held
<1>3. NumbersInHand' /\ NewestInHand'
  BY NumbersStep, NewestStep DEF IInv
<1>4. AloneBeforeTimer' /\ OrderedBeforeTimer'
  BY AloneStep DEF IInv
<1>5. LastWordDescribes'
  BY LastWordStep DEF IInv, Held
<1>. QED
  BY <1>1, <1>2, <1>3, <1>4, <1>5 DEF IInv, Held

\* The invariant holds throughout.
THEOREM InvCorrect == Spec => []IInv
  BY IInvInit, IInvStep, PTL DEF Spec

\* Once everything has been worked off, the router's own LSA describes its
\* interface, but for the reasons collected in lost (LSAManager.cpp:33-38, 62-103).
THEOREM UpToDateCorrect == Spec => []UpToDate
<1>1. IInv => UpToDate
  <2> SUFFICES ASSUME IInv, Quiet, lost = {} PROVE Current
    BY DEF UpToDate
  <2>1. routerLSAList # << >>
    BY DEF IInv, AbsentOnlyBefore, Quiet
  <2>2. \A t \in Thread : t \notin Reading /\ ~HasLsa(t)
    BY DEF Quiet, Reading, HasLsa
  <2>3. LastWord = Describe
    BY <2>2 DEF IInv, LastWordDescribes
  <2>. QED
    BY <2>1, <2>3 DEF Quiet, LastWord, Current
<1>. QED
  BY <1>1, InvCorrect, PTL

\* Until the timer's thread wakes, LSAs are queued in the order of the changes
\* they describe (Interface.cpp:189).
THEOREM OrderedBeforeTimerCorrect == Spec => []OrderedBeforeTimer
<1>1. IInv => OrderedBeforeTimer
  BY DEF IInv
<1>. QED
  BY <1>1, InvCorrect, PTL

\* The router's own LSA is missing from the database only while another one is
\* on its way (LSAManager.cpp:20-23).
THEOREM AbsentOnlyBeforeCorrect == Spec => []AbsentOnlyBefore
<1>1. IInv => AbsentOnlyBefore
  BY DEF IInv
<1>. QED
  BY <1>1, InvCorrect, PTL

\* A second copy of the router's own LSA means that one came back from the LAN
\* between the remove and the insert (LSDatabase.cpp:67-73).
THEOREM OneCopyCorrect == Spec => []OneCopy
<1>1. IInv => OneCopy
  <2>1. ASSUME NEW x, routerLSAList = <<x>> PROVE ~(Len(routerLSAList) > 1)
    BY <2>1
  <2>2. ASSUME routerLSAList = << >> PROVE ~(Len(routerLSAList) > 1)
    BY <2>2
  <2>. QED
    BY <2>1, <2>2 DEF IInv, AtMostOne, OneCopy
<1>. QED
  BY <1>1, InvCorrect, PTL

-----------------------------------------------------------------------------
(* What is sent, and what is read back from it. *)

\* The router's own LSA with these links.
OwnLsa(links) == [state_id |-> Self, ad_router |-> Self, links |-> links]

\* Every link of its LSAs fits into a packet.
LEMMA LinksOnWire ==
  ASSUME NEW k \in Links
  PROVE  k \in Seq(WireLink) /\ Len(k) = 1
<1>1. Self \in Word32 /\ Cost \in Word16 /\ \A d \in Router : d \in Word32
  BY AddressAssumption DEF Router
<1>2. 0 \in Byte /\ 255 \in Byte /\ 3 \in Byte /\ 2 \in Byte
  BY DEF Byte
<1>3. Nobody \in Word32
  <2>1. <<0, 0, 0, 0>> \in Seq(Byte) /\ Len(<<0, 0, 0, 0>>) = 4
    BY <1>2
  <2>. QED
    BY <2>1 DEF Nobody, Zero32, Word32
<1>4. Stub \in WireLink
  <2>. DEFINE a == SubSeq(Self, 1, 3)
              b == <<0>>
              mask == <<255, 255, 255, 0>>
  <2>1. a \in Seq(Byte) /\ Len(a) = 3
    <3>1. Self \in Seq(Byte) /\ Len(Self) = 4
      BY <1>1 DEF Word32
    <3>. QED
      BY <3>1
  <2>2. b \in Seq(Byte) /\ Len(b) = 1
    BY <1>2
  <2>3. mask \in Word32
    <3>1. mask \in Seq(Byte) /\ Len(mask) = 4
      BY <1>2
    <3>. QED
      BY <3>1 DEF Word32
  <2>4. Stub = [linkId |-> a \o b, linkData |-> mask, type |-> 3, metric |-> Cost]
    BY DEF Stub
  <2>. HIDE DEF a, b, mask
  <2>5. a \o b \in Word32
    <3>1. Extended(a \o b, a, 3, b)
      BY <2>1, <2>2, Appended, Zenon
    <3>. QED
      BY <2>2, <3>1 DEF Extended, Word32
  <2>. QED
    BY <1>1, <1>2, <2>3, <2>4, <2>5 DEF WireLink
<1>5. ASSUME NEW d \in Word32 PROVE Transit(d) \in WireLink
  BY <1>1, <1>2 DEF Transit, WireLink
<1>6. PICK l \in WireLink : k = <<l>>
  <2>1. k = <<Stub>> \/ \E d \in Router \cup {Nobody} : k = <<Transit(d)>>
    BY DEF Links
  <2>2. \A d \in Router \cup {Nobody} : d \in Word32
    BY <1>1, <1>3
  <2>. QED
    BY <1>4, <1>5, <2>1, <2>2
<1>. QED
  BY <1>6

\* What a packet that the router may send carries.
LEMMA SentPacket ==
  ASSUME NEW k \in Links
  PROVE  /\ RouterLSA(LsaOf(PacketOf[k])) = OwnLsa(k)
         /\ InetVerifies(PacketOf[k])
         /\ OsiVerifies(Ageless(LsaOf(PacketOf[k]))) <=> ~Slips(Ageless(LsaOf(PacketOf[k])), 14)
<1>. DEFINE lsa == OwnLsa(k)
<1>1. Self \in Word32
  BY AddressAssumption DEF Router
<1>2. k \in Seq(WireLink) /\ Len(k) = 1
  BY LinksOnWire
<1>3. LsaLen(lsa) = 36
  <2>1. lsa.links = k
    BY DEF OwnLsa
  <2>. HIDE DEF lsa
  <2>2. LsaLen(lsa) = 20 + 4 + 12 * Len(k)
    BY <2>1 DEF LsaLen, LsaHeaderLen, LinkLen
  <2>. QED
    BY <1>2, <2>2
<1>4. lsa \in WireLsa /\ LsaLen(lsa) + 28 \in Word16
  <2>1. lsa \in [state_id : Word32, ad_router : Word32, links : Seq(WireLink)]
    BY <1>1, <1>2 DEF OwnLsa
  <2>2. 36 \in Word16 /\ 36 + 28 \in Word16
    BY DEF Word16
  <2>. HIDE DEF lsa
  <2>. QED
    BY <1>3, <2>1, <2>2 DEF WireLsa
<1>5. PacketOf[k] = LSUpdatePacket(lsa, Self)
  BY DEF PacketOf, OwnLsa
<1>. HIDE DEF lsa
<1>6. LET p == LSUpdatePacket(lsa, Self) IN
        /\ RouterLSA(LsaOf(p)) = lsa
        /\ InetVerifies(p)
        /\ OsiVerifies(Ageless(LsaOf(p))) <=> ~Slips(Ageless(LsaOf(p)), 14)
  BY <1>1, <1>4, LSUpdateCarriesLsa
<1>. QED
  BY <1>5, <1>6 DEF lsa

\* A packet that has been sent gives back links of the router's own.
LEMMA ReadBackTypes ==
  ASSUME TypeOK, NEW p \in sent
  PROVE  RouterLSA(LsaOf(p)).links \in Links
<1>1. PICK k \in Links : p = PacketOf[k]
  BY DEF TypeOK
<1>2. RouterLSA(LsaOf(p)) = OwnLsa(k)
  BY <1>1, SentPacket
<1>. QED
  BY <1>2 DEF OwnLsa

\* The database and what has been sent.
LEMMA DatabaseTypesStep ==
  ASSUME TypeOK, Typed, [Next]_vars
  PROVE  routerLSAList' \in Seq(Copy) /\ sent' \subseteq {PacketOf[k] : k \in Links}
<1>. DEFINE P == {PacketOf[k] : k \in Links}
<1>. SUFFICES routerLSAList' \in Seq(Copy) /\ sent' \subseteq P
  OBVIOUS
<1>0. routerLSAList \in Seq(Copy) /\ sent \subseteq P /\ generator \in Generated \cup {NoLsa}
  BY DEF TypeOK
<1>. HIDE DEF P
<1>1. WithoutFirst(routerLSAList) \in Seq(Copy)
  BY <1>0, HeadTailProperties DEF WithoutFirst
<1>2. CASE lsaGenerateRemove
  BY <1>0, <1>1, <1>2 DEF lsaGenerateRemove
<1>3. CASE lsaGenerateInsert
  <2>1. [links |-> generator.links, counted |-> FALSE] \in Copy
    BY <1>0, <1>3 DEF lsaGenerateInsert, Generated, Copy
  <2>. QED
    BY <1>0, <1>3, <2>1 DEF lsaGenerateInsert
<1>4. CASE recvLSReq
  <2>1. CASE routerLSAList = << >>
    BY <1>0, <1>4, <2>1 DEF recvLSReq
  <2>2. CASE routerLSAList # << >>
    <3>1. 1 \in 1..Len(routerLSAList) /\ routerLSAList[1] \in Copy
      BY <1>0, <2>2
    <3>2. routerLSAList[1].links \in Links /\ [routerLSAList[1] EXCEPT !.counted = TRUE] \in Copy
      BY <3>1 DEF Copy
    <3>3. routerLSAList' = [routerLSAList EXCEPT ![1] = [routerLSAList[1] EXCEPT !.counted = TRUE]]
      BY <1>4, <2>2 DEF recvLSReq
    <3>4. sent' = sent \cup {PacketOf[routerLSAList[1].links]} /\ PacketOf[routerLSAList[1].links] \in P
      BY <1>4, <2>2, <3>2 DEF recvLSReq, P
    <3>. QED
      BY <1>0, <3>1, <3>2, <3>3, <3>4
  <2>. QED
    BY <2>1, <2>2
<1>5. ASSUME NEW p \in sent, recvLSUpdate(p) PROVE routerLSAList' \in Seq(Copy) /\ sent' \subseteq P
  <2>1. [links |-> RouterLSA(LsaOf(p)).links, counted |-> TRUE] \in Copy
    BY ReadBackTypes DEF Copy
  <2>. QED
    BY <1>0, <1>5, <2>1 DEF recvLSUpdate, recvOtherLsa
<1>6. ASSUME NEW t \in Thread, generate(t) PROVE UNCHANGED <<routerLSAList, sent>>
  BY <1>6 DEF generate, testLink, findNbr, testFull, fillLink, lookup, queueLsa, dropLsa, database
<1>7. ASSUME NEW d \in Router, backUpSeen(d) \/ nbrChange(d) \/ onWaitTimer(d)
      PROVE  UNCHANGED <<routerLSAList, sent>>
  BY <1>7 DEF backUpSeen, nbrChange, onWaitTimer, database
<1>8. CASE waitTimer
  BY <1>0, <1>8 DEF waitTimer, database
<1>9. ASSUME NEW p \in Peers, changeFull(p) PROVE UNCHANGED <<routerLSAList, sent>>
  BY <1>9 DEF changeFull, database
<1>10. CASE UNCHANGED vars \/ recvOtherLsa
  BY <1>0, <1>10 DEF vars, recvOtherLsa, database
<1>. QED
  BY <1>0, <1>2, <1>3, <1>4, <1>5, <1>6, <1>7, <1>8, <1>9, <1>10 DEF Next, lsaGenerate

\* The invariant of the types.
THEOREM TypeCorrect == Spec => []TypeOK
<1>1. Init => TypeOK
  <2> SUFFICES ASSUME Init PROVE TypeOK
    OBVIOUS
  <2>1. Typed
    BY IInvInit DEF IInv
  <2>2. routerLSAList \in Seq(Copy)
    BY DEF Init
  <2>3. sent \subseteq {PacketOf[k] : k \in Links}
    BY PeerAssumption DEF Init, Links
  <2>. QED
    BY <2>1, <2>2, <2>3 DEF Typed, TypeOK
<1>2. TypeOK /\ [Next]_vars => TypeOK'
  <2> SUFFICES ASSUME TypeOK, [Next]_vars PROVE TypeOK'
    OBVIOUS
  <2>1. Typed
    BY DEF Typed, TypeOK
  <2>2. Typed'
    BY <2>1, TypedStep
  <2>3. routerLSAList' \in Seq(Copy) /\ sent' \subseteq {PacketOf[k] : k \in Links}
    BY <2>1, DatabaseTypesStep
  <2>. QED
    BY <2>2, <2>3 DEF Typed, TypeOK
<1>. QED
  BY <1>1, <1>2, PTL DEF Spec

\* Only the answer to an LS request is sent, and it carries the copy that a lookup
\* finds.
LEMMA SentStep ==
  ASSUME TypeOK, [Next]_vars, NEW p \in sent' \ sent
  PROVE  routerLSAList[1].links \in Links /\ p = PacketOf[routerLSAList[1].links]
<1>1. CASE recvLSReq
  <2>1. routerLSAList # << >> /\ p = PacketOf[routerLSAList[1].links]
    BY <1>1 DEF recvLSReq
  <2>2. routerLSAList \in Seq(Copy)
    BY DEF TypeOK
  <2>3. routerLSAList[1] \in Copy
    BY <2>1, <2>2
  <2>. QED
    BY <2>1, <2>3 DEF Copy
<1>2. ASSUME ~recvLSReq PROVE sent' = sent
  BY <1>2 DEF Next, generate, lsaGenerate, testLink, findNbr, testFull, fillLink, lookup, queueLsa, dropLsa, backUpSeen,
              nbrChange, onWaitTimer, waitTimer, changeFull, lsaGenerateRemove, lsaGenerateInsert,
              recvLSUpdate, recvOtherLsa, vars
<1>. QED
  BY <1>1, <1>2

\* A router of this code reads from every LS update the LSA that was in the
\* database of the one that sent it (Packets.h:130-159, PacketManager.cpp:433).
THEOREM ReadsBackCorrect == Spec => ReadsBackProp
<1>1. TypeOK /\ [Next]_vars =>
        \A p \in sent' \ sent :
          RouterLSA(LsaOf(p)) = [state_id |-> Self, ad_router |-> Self, links |-> routerLSAList[1].links]
  BY SentStep, SentPacket DEF OwnLsa
<1>. QED
  BY <1>1, TypeCorrect, PTL DEF Spec, ReadsBackProp

\* Both checksums of every LS update sent are right, but for the LSAs that
\* create_osi_cksum gets wrong (PacketManager.cpp:606, Packets.h:156, Common.h:57).
THEOREM ChecksumsCorrect == Spec => ChecksumsProp
<1>1. TypeOK /\ [Next]_vars =>
        \A p \in sent' \ sent :
          LET d == Ageless(LsaOf(p)) IN
            InetVerifies(p) /\ (OsiVerifies(d) <=> ~Slips(d, 14))
  BY SentStep, SentPacket
<1>. QED
  BY <1>1, TypeCorrect, PTL DEF Spec, ChecksumsProp
=============================================================================
