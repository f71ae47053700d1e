--------------------------- MODULE ElectionProofs ---------------------------
(***************************************************************************)
(* Theorems about Election, for any routers, restarts and bounds.          *)
(***************************************************************************)
EXTENDS Election, SequenceTheorems, TLAPS

\* The routers that r may name: itself and those it has heard.
Near(r) == Known(r) \cup {r}

\* An election that is not written yet has elected a router that r knows.
ResultsNear ==
  \A r \in Local, t \in Thread :
    calc[r][t] # NoResult => calc[r][t].dr \in Near(r) /\ calc[r][t].bdr \in Near(r)

\* The strengthening of DrIsKnown that every step preserves: a result is
\* written some time after it has been elected.
IInv == TypeOK /\ ResultsNear /\ DrIsKnown

Hearing == [field : {"dr", "bdr"}, from : Local, before : Claim]
Result == [event : {"backupSeen", "nbrChange", "waitTimer"}, dr : Local, bdr : Local]

-----------------------------------------------------------------------------
(* What calcDR elects. *)

\* Only routers are heard.
LEMMA NearIsLocal == ASSUME TypeOK, NEW r \in Local PROVE Near(r) \subseteq Local
  BY DEF TypeOK, Near, Known

\* The selection loops choose one of their candidates (Interface.cpp:106-123).
LEMMA WinnerIsCandidate ==
  ASSUME NEW r, NEW C PROVE Winner(r, C) \subseteq C
  BY DEF Winner, Largest, LastOf

\* Candidates are two-way neighbours or the router itself (Interface.cpp:41-91).
LEMMA CandidatesVote ==
  ASSUME NEW r
  PROVE  /\ Voters(r) \subseteq Near(r)
         /\ BdrCandidates(r) \subseteq Voters(r)
         /\ DrCandidates(r) \subseteq Voters(r)
  BY DEF Voters, Near, BdrCandidates, DrCandidates

\* calcDR elects routers that this one has heard, or itself.
LEMMA ElectsNear ==
  ASSUME NEW r, NEW b \in Backups(r), NEW d \in DrChoices(r, b)
  PROVE  b \in Near(r) /\ d \in Near(r)
<1>1. b \in Near(r)
  BY WinnerIsCandidate, CandidatesVote DEF Backups
<1>2. d \in Near(r)
  BY <1>1, WinnerIsCandidate, CandidatesVote DEF DrChoices
<1>. QED
  BY <1>1, <1>2

\* NoHello and NoResult are told from hellos and results by their fields.
LEMMA RecordTypes ==
  /\ NoHello \notin Hearing /\ NoResult \notin Result
  /\ \A h \in Hearing \cup {NoHello} : NextField(h) \in Hearing \cup {NoHello}
<1>1. NoHello.field # "dr" /\ NoHello.field # "bdr"
  BY DEF NoHello
<1>2. NoResult.event \notin {"backupSeen", "nbrChange", "waitTimer"}
  BY DEF NoResult
<1>3. ASSUME NEW h \in Hearing \cup {NoHello} PROVE NextField(h) \in Hearing \cup {NoHello}
  <2>1. CASE h \in Hearing
    BY <2>1 DEF NextField, Hearing
  <2>2. CASE h = NoHello
    BY <2>2, <1>1 DEF NextField
  <2>. QED
    BY <2>1, <2>2
<1>. QED
  BY <1>1, <1>2, <1>3 DEF Hearing, Result

\* The first half of calcDR keeps what IInv says of calc and fault.
LEMMA ElectStep ==
  ASSUME IInv, NEW r \in Local, NEW t \in Thread,
         NEW event \in {"backupSeen", "nbrChange", "waitTimer"},
         Elect(r, t, event), UNCHANGED nbrList
  PROVE  /\ fault' \in [Local -> {"none", "off", "no_bdr"}]
         /\ calc' \in [Local -> [Thread -> Result \cup {NoResult}]]
         /\ ResultsNear'
<1>1. calc \in [Local -> [Thread -> Result \cup {NoResult}]]
  BY DEF IInv, TypeOK, Result
<1>2. fault \in [Local -> {"none", "off", "no_bdr"}]
  BY DEF IInv, TypeOK
<1>3. \A q \in Local : Near(q)' = Near(q)
  BY DEF Near, Known
<1>4. CASE UNCHANGED calc /\ fault' = [fault EXCEPT ![r] = "no_bdr"]
  BY <1>1, <1>2, <1>3, <1>4 DEF IInv, ResultsNear
<1>5. ASSUME NEW b \in Backups(r), NEW d \in DrChoices(r, b),
             calc' = [calc EXCEPT ![r][t] = [event |-> event, dr |-> d, bdr |-> b]],
             UNCHANGED fault
      PROVE  /\ fault' \in [Local -> {"none", "off", "no_bdr"}]
             /\ calc' \in [Local -> [Thread -> Result \cup {NoResult}]]
             /\ ResultsNear'
  <2>. DEFINE c == [event |-> event, dr |-> d, bdr |-> b]
  <2>1. b \in Near(r) /\ d \in Near(r)
    BY ElectsNear
  <2>2. c \in Result
    BY <2>1, NearIsLocal DEF Result, IInv
  <2>3. \A q \in Local, u \in Thread :
          calc'[q][u] = IF q = r /\ u = t THEN c ELSE calc[q][u]
    BY <1>1, <1>5
  <2>4. calc' \in [Local -> [Thread -> Result \cup {NoResult}]]
    BY <1>1, <1>5, <2>2
  <2>5. ResultsNear'
    BY <1>3, <2>1, <2>3 DEF IInv, ResultsNear
  <2>. QED
    BY <1>2, <1>5, <2>4, <2>5
<1>. QED
  BY <1>4, <1>5 DEF Elect

-----------------------------------------------------------------------------
(* The steps. *)

\* What a hello does to the list of neighbours (PacketManager.cpp:176-217).
LEMMA HelloKnown ==
  ASSUME TypeOK, NEW r \in Local, NEW s \in Local, NEW before, recvHello(r, s, before)
  PROVE  /\ nbrList' \in [Local -> Seq(Local)]
         /\ \A q \in Local : Known(q) \subseteq Known(q)'
         /\ s \in Known(r)'
<1>1. \A q \in Local : nbrList[q] \in Seq(Local)
  BY DEF TypeOK
<1>2. CASE UNCHANGED nbrList /\ s \in Known(r)
  BY <1>2 DEF TypeOK, Known
<1>3. CASE nbrList' = [nbrList EXCEPT ![r] = Append(nbrList[r], s)]
  <2>1. Append(nbrList[r], s) \in Seq(Local) /\ Len(Append(nbrList[r], s)) = Len(nbrList[r]) + 1
        /\ Append(nbrList[r], s)[Len(nbrList[r]) + 1] = s /\ Len(nbrList[r]) \in Nat
    BY <1>1
  <2>2. \A k \in 1..Len(nbrList[r]) :
          k \in 1..Len(Append(nbrList[r], s)) /\ Append(nbrList[r], s)[k] = nbrList[r][k]
    BY <1>1
  <2>3. \A q \in Local : nbrList'[q] = IF q = r THEN Append(nbrList[r], s) ELSE nbrList[q]
    BY <1>3 DEF TypeOK
  <2>4. \A q \in Local : Known(q) \subseteq Known(q)'
    BY <2>2, <2>3 DEF Known
  <2>5. s \in Known(r)'
    <3>1. nbrList'[r] = Append(nbrList[r], s)
      BY <2>3
    <3>2. Len(nbrList[r]) + 1 \in 1..(Len(nbrList[r]) + 1)
      BY <2>1
    <3>3. Len(nbrList[r]) + 1 \in 1..Len(nbrList'[r]) /\ nbrList'[r][Len(nbrList[r]) + 1] = s
      BY <2>1, <3>1, <3>2, Zenon
    <3>. QED
      BY <3>3 DEF Known
  <2>6. nbrList' \in [Local -> Seq(Local)]
    BY <1>3, <2>1 DEF TypeOK
  <2>. QED
    BY <2>4, <2>5, <2>6
<1>. QED
  BY <1>2, <1>3 DEF recvHello, TypeOK

\* A hello keeps the invariant: neighbours are added, never removed
\* (PacketManager.cpp:176-217).
LEMMA HelloStep ==
  ASSUME IInv, NEW r \in Local, NEW s \in Local, r # s, NEW before \in Before(r, s),
         recvHello(r, s, before)
  PROVE  IInv'
<1>1. <<r, s>> \in Link
  BY DEF Link
<1>2. [dr |-> dr[s], bdr |-> bdr[s]] \in Claim
  BY DEF IInv, TypeOK, Claim
<1>3. before \in Claim
  BY <1>1 DEF Before, IInv, TypeOK, Claim, Address, Nobody
<1>4. /\ nbrList' \in [Local -> Seq(Local)]
      /\ \A q \in Local : Near(q) \subseteq Near(q)'
  BY HelloKnown DEF IInv, Near
<1>5. recv' \in [Local -> Hearing \cup {NoHello}]
  BY <1>3 DEF recvHello, IInv, TypeOK, Hearing
<1>6. claim' \in [Link -> Claim] /\ twoWay' \in [Link -> BOOLEAN]
  BY <1>1, <1>2 DEF recvHello, IInv, TypeOK
<1>7. TypeOK'
  BY <1>4, <1>5, <1>6 DEF recvHello, opinion, IInv, TypeOK, Hearing
<1>8. ResultsNear' /\ DrIsKnown'
  BY <1>4 DEF recvHello, opinion, IInv, ResultsNear, DrIsKnown, Near
<1>. QED
  BY <1>7, <1>8 DEF IInv

\* A DD that makes a neighbour two-way keeps it (PacketManager.cpp:257-261).
LEMMA DDStep ==
  ASSUME IInv, NEW r \in Local, NEW s \in Local, r # s, recvDD(r, s)
  PROVE  IInv'
<1>1. UNCHANGED <<fault, itState, dr, bdr, nbrList, claim, timer, recv, calc, nlsaList, restarts>>
  BY DEF recvDD, opinion
<1>2. twoWay' \in [Link -> BOOLEAN]
  BY DEF recvDD, IInv, TypeOK
<1>3. TypeOK'
  BY <1>1, <1>2 DEF IInv, TypeOK
<1>4. ResultsNear' /\ DrIsKnown'
  BY <1>1 DEF IInv, ResultsNear, DrIsKnown, Near, Known
<1>. QED
  BY <1>3, <1>4 DEF IInv

\* The two if-statements on the claims keep it (PacketManager.cpp:219-239).
LEMMA ClaimStep ==
  ASSUME IInv, NEW r \in Local, checkClaim(r)
  PROVE  IInv'
<1>1. UNCHANGED <<itState, dr, bdr, nbrList, twoWay, claim, timer, nlsaList, restarts>>
  BY DEF checkClaim, opinion, hearing
<1>2. DrIsKnown'
  BY <1>1 DEF IInv, DrIsKnown, Known
<1>3. recv \in [Local -> Hearing \cup {NoHello}]
  BY DEF IInv, TypeOK, Hearing
<1>4. CASE Raised(r) = "none"
  <2>1. recv' \in [Local -> Hearing \cup {NoHello}]
    BY <1>3, <1>4, RecordTypes DEF checkClaim
  <2>2. UNCHANGED <<fault, calc>>
    BY <1>4 DEF checkClaim
  <2>3. TypeOK'
    BY <1>1, <2>1, <2>2 DEF IInv, TypeOK, Hearing
  <2>4. ResultsNear'
    BY <1>1, <2>2 DEF IInv, ResultsNear, Near, Known
  <2>. QED
    BY <1>2, <2>3, <2>4 DEF IInv
<1>5. CASE Raised(r) # "none"
  <2>1. Raised(r) \in {"backupSeen", "nbrChange", "waitTimer"}
    BY <1>5 DEF Raised
  <2>2. Elect(r, "recv", Raised(r)) /\ UNCHANGED recv
    BY <1>5 DEF checkClaim
  <2>3. /\ fault' \in [Local -> {"none", "off", "no_bdr"}]
        /\ calc' \in [Local -> [Thread -> Result \cup {NoResult}]]
        /\ ResultsNear'
    BY <1>1, <2>1, <2>2, ElectStep DEF Thread
  <2>. QED
    BY <1>1, <1>2, <2>2, <2>3 DEF IInv, TypeOK, Result
<1>. QED
  BY <1>4, <1>5

\* waitTimer keeps it (Timers.cpp:8-15, Interface.cpp:211-218).
LEMMA TimerStep ==
  ASSUME IInv, NEW r \in Local, waitTimer(r)
  PROVE  IInv'
<1>1. UNCHANGED <<itState, dr, bdr, nbrList, twoWay, claim, recv, nlsaList, restarts>>
  BY DEF waitTimer, opinion, hearing
<1>2. DrIsKnown'
  BY <1>1 DEF IInv, DrIsKnown, Known
<1>3. timer' \in [Local -> BOOLEAN]
  BY DEF waitTimer, IInv, TypeOK
<1>4. /\ fault' \in [Local -> {"none", "off", "no_bdr"}]
      /\ calc' \in [Local -> [Thread -> Result \cup {NoResult}]]
      /\ ResultsNear'
  <2>1. CASE Elect(r, "wait", "waitTimer")
    BY <1>1, <2>1, ElectStep DEF Thread
  <2>2. CASE UNCHANGED <<fault, calc>>
    BY <1>1, <2>2 DEF IInv, TypeOK, Result, ResultsNear, Near, Known
  <2>. QED
    BY <2>1, <2>2 DEF waitTimer
<1>. QED
  BY <1>1, <1>2, <1>3, <1>4 DEF IInv, TypeOK, Result

\* The second half of calcDR keeps it (Interface.cpp:183-245).
LEMMA WriteStep ==
  ASSUME IInv, NEW r \in Local, NEW t \in Thread, setDR(r, t)
  PROVE  IInv'
<1>. DEFINE c == calc[r][t]
<1>1. UNCHANGED <<fault, nbrList, twoWay, claim, timer, restarts>>
  BY DEF setDR, hearing
<1>2. /\ calc \in [Local -> [Thread -> Result \cup {NoResult}]]
      /\ recv \in [Local -> Hearing \cup {NoHello}]
      /\ itState \in [Local -> ItState]
      /\ dr \in [Local -> Address] /\ bdr \in [Local -> Address]
      /\ nlsaList \in [Local -> 0..MaxNlsas]
  BY DEF IInv, TypeOK, Result, Hearing
<1>3. c \in Result /\ c.dr \in Near(r)
  BY <1>2 DEF setDR, IInv, ResultsNear
<1>4. c.dr \in Address /\ c.bdr \in Address
  BY <1>3 DEF Result, Address
<1>5. dr' \in [Local -> Address] /\ bdr' \in [Local -> Address]
  BY <1>2, <1>4 DEF setDR
<1>6. itState' \in [Local -> ItState]
  BY <1>2 DEF setDR, Role, ItState
<1>7. nlsaList' \in [Local -> 0..MaxNlsas]
  BY <1>2, BoundAssumption DEF setDR
<1>8. recv' \in [Local -> Hearing \cup {NoHello}]
  BY <1>2, RecordTypes DEF setDR
<1>9. /\ calc' \in [Local -> [Thread -> Result \cup {NoResult}]]
      /\ \A q \in Local, u \in Thread : calc'[q][u] = NoResult \/ calc'[q][u] = calc[q][u]
  BY <1>2 DEF setDR
<1>10. TypeOK'
  BY <1>1, <1>5, <1>6, <1>7, <1>8, <1>9 DEF IInv, TypeOK, Result, Hearing
<1>11. ResultsNear'
  BY <1>1, <1>9 DEF IInv, ResultsNear, Near, Known
<1>12. \A q \in Local : q # r => dr'[q] = dr[q] /\ itState'[q] = itState[q]
  BY <1>2 DEF setDR
<1>13. dr'[r] \in Near(r)
  BY <1>2, <1>3 DEF setDR
<1>14. DrIsKnown'
  BY <1>1, <1>12, <1>13 DEF IInv, DrIsKnown, Near, Known
<1>. QED
  BY <1>10, <1>11, <1>14 DEF IInv

\* Starting and restarting a router keep it.
LEMMA EnvironmentStep ==
  ASSUME IInv, NEW r \in Local, Start(r) \/ Restart(r)
  PROVE  IInv'
<1>1. CASE Start(r)
  <2>1. UNCHANGED <<itState, dr, bdr, nbrList, twoWay, claim, timer, recv, calc, nlsaList, restarts>>
    BY <1>1 DEF Start, opinion, hearing
  <2>2. fault' \in [Local -> {"none", "off", "no_bdr"}]
    BY <1>1 DEF Start, IInv, TypeOK
  <2>3. TypeOK'
    BY <2>1, <2>2 DEF IInv, TypeOK
  <2>4. ResultsNear' /\ DrIsKnown'
    BY <2>1 DEF IInv, ResultsNear, DrIsKnown, Near, Known
  <2>. QED
    BY <2>3, <2>4 DEF IInv
<1>2. CASE Restart(r)
  <2>1. /\ dr' \in [Local -> Address] /\ bdr' \in [Local -> Address]
        /\ fault' \in [Local -> {"none", "off", "no_bdr"}]
        /\ itState' \in [Local -> ItState]
        /\ timer' \in [Local -> BOOLEAN]
        /\ nlsaList' \in [Local -> 0..MaxNlsas]
        /\ restarts' \in 0..MaxRestarts
    BY <1>2, BoundAssumption DEF Restart, IInv, TypeOK, Address, Nobody, ItState
  <2>2. nbrList' \in [Local -> Seq(Local)] /\ recv' \in [Local -> Hearing \cup {NoHello}]
    BY <1>2 DEF Restart, IInv, TypeOK, Hearing
  <2>3. twoWay' \in [Link -> BOOLEAN] /\ claim' \in [Link -> Claim]
    BY <1>2 DEF Restart, IInv, TypeOK, NoClaim, Claim, Address, Nobody
  <2>4. /\ calc' \in [Local -> [Thread -> Result \cup {NoResult}]]
        /\ \A q \in Local, u \in Thread :
             calc'[q][u] = IF q = r THEN NoResult ELSE calc[q][u]
    BY <1>2 DEF Restart, IInv, TypeOK, Result
  <2>5. \A q \in Local \ {r} : dr'[q] = dr[q] /\ itState'[q] = itState[q] /\ nbrList'[q] = nbrList[q]
    BY <1>2 DEF Restart, IInv, TypeOK
  <2>6. itState'[r] = "WAITING"
    BY <1>2 DEF Restart, IInv, TypeOK
  <2>7. \A q \in Local \ {r} : Near(q)' = Near(q)
    BY <2>5 DEF Near, Known
  <2>8. ResultsNear'
    BY <2>4, <2>7 DEF IInv, ResultsNear
  <2>9. \A q \in Local \ {r} : itState'[q] # "WAITING" => dr'[q] \in Near(q)'
    BY <2>5, <2>7 DEF IInv, DrIsKnown, Near
  <2>10. DrIsKnown'
    BY <2>6, <2>9 DEF DrIsKnown, Near
  <2>. QED
    BY <2>1, <2>2, <2>3, <2>4, <2>8, <2>10 DEF IInv, TypeOK, Result, Hearing
<1>. QED
  BY <1>1, <1>2

-----------------------------------------------------------------------------
(* The invariants. *)

\* The initial states satisfy the inductive invariant.
LEMMA InitIInv == Init => IInv
<1>. SUFFICES ASSUME Init PROVE IInv
  OBVIOUS
<1>1. TypeOK
  BY BoundAssumption DEF Init, TypeOK, ItState, Address, Nobody, NoClaim, Claim
<1>2. ResultsNear /\ DrIsKnown
  BY DEF Init, ResultsNear, DrIsKnown
<1>. QED
  BY <1>1, <1>2 DEF IInv

\* Every step, and every stutter, keeps the inductive invariant.
LEMMA NextIInv == IInv /\ [Next]_vars => IInv'
<1>. SUFFICES ASSUME IInv, [Next]_vars PROVE IInv'
  OBVIOUS
<1>1. ASSUME NEW l \in Link, Hello(l) \/ recvDD(l[1], l[2]) PROVE IInv'
  <2>1. l[1] \in Local /\ l[2] \in Local /\ l[1] # l[2]
    BY DEF Link
  <2>. QED
    BY <1>1, <2>1, HelloStep, DDStep DEF Hello
<1>2. ASSUME NEW r \in Local, checkClaim(r) \/ waitTimer(r) PROVE IInv'
  BY <1>2, ClaimStep, TimerStep
<1>3. ASSUME NEW r \in Local, NEW t \in Thread, setDR(r, t) PROVE IInv'
  BY <1>3, WriteStep
<1>4. ASSUME NEW r \in Local, Start(r) \/ Restart(r) PROVE IInv'
  BY <1>4, EnvironmentStep
<1>5. CASE UNCHANGED vars
  BY <1>5 DEF vars, IInv, TypeOK, ResultsNear, DrIsKnown, Near, Known
<1>. QED
  BY <1>1, <1>2, <1>3, <1>4, <1>5, RouterAssumption DEF Next

\* Every step keeps the types, and results and opinions that name only routers
\* this one has heard (Interface.cpp:39-194).
THEOREM Invariance == Spec => []IInv
  BY InitIInv, NextIInv, PTL DEF Spec

\* Every variable keeps to its set, for any number of routers, any restarts and
\* any bounds: what calcDR elects is always a router (Interface.cpp:39-194).
THEOREM TypeCorrect == Spec => []TypeOK
<1>1. IInv => TypeOK
  BY DEF IInv
<1>. QED
  BY <1>1, Invariance, PTL

\* A router that has left WAITING names itself or a router it has heard as the
\* DR, whichever of the two threads wrote last: the neighbour that
\* generateRouterLSA looks up by the DR's address exists (LSAManager.cpp:81).
THEOREM DrAlwaysKnown == Spec => []DrIsKnown
<1>1. IInv => DrIsKnown
  BY DEF IInv
<1>. QED
  BY <1>1, Invariance, PTL

-----------------------------------------------------------------------------
(* A crash in calcDR. *)

\* A neighbour of r is two-way.
Met(r) == \E s \in Local \ {r} : twoWay[<<r, s>>]

\* Of two routers, if one has the other two-way, each has heard the other.
Acquainted == \A l \in Link : twoWay[l] => l[2] \in Known(l[1]) /\ l[1] \in Known(l[2])

\* The hello in hand came from a two-way neighbour.
HelloTwoWay ==
  \A r \in Local : recv[r] # NoHello => <<r, recv[r].from>> \in Link /\ twoWay[<<r, recv[r].from>>]

\* The receive thread elects for a hello, and waitTimer once.  Nobody has been elected
\* by a router that nobody has made two-way and whose timer is still running.
OnePerCause ==
  \A r \in Local :
    /\ calc[r]["recv"] # NoResult => recv[r] # NoHello
    /\ timer[r] => calc[r]["wait"] = NoResult
    /\ timer[r] /\ dr[r] # Nobody => Met(r)

\* Who has left calcDR without candidates.
Split(r) == dr[r] = r /\ \E s \in Local \ {r} : twoWay[<<r, s>>] /\ claim[<<r, s>>].dr = s

SplitAtCrash == \A r \in Local : fault[r] = "no_bdr" => Split(r)

Meetings == Acquainted /\ HelloTwoWay /\ OnePerCause /\ SplitAtCrash

\* The links of a router.
LEMMA LinksOf ==
  ASSUME NEW r \in Local, NEW s \in Local, r # s
  PROVE  <<r, s>> \in Link /\ <<s, r>> \in Link /\ <<r, s>>[1] = r /\ <<r, s>>[2] = s
  BY DEF Link

\* calcDR has no candidate only if the router and all its two-way neighbours claim to
\* be the DR (Interface.cpp:64-91).
LEMMA NoCandidates ==
  ASSUME Acquainted, NEW r \in Local, Met(r), BdrCandidates(r) = {}
  PROVE  Split(r)
<1>1. ASSUME NEW s \in Voters(r) PROVE Claims(r, s).dr = s
  BY DEF BdrCandidates
<1>2. dr[r] = r
  <2>1. r \in Voters(r)
    BY DEF Voters
  <2>. QED
    BY <1>1, <2>1 DEF Claims
<1>3. PICK s \in Local \ {r} : twoWay[<<r, s>>]
  BY DEF Met
<1>4. claim[<<r, s>>].dr = s
  <2>1. s \in Known(r)
    <3>1. <<r, s>> \in Link /\ <<r, s>>[1] = r /\ <<r, s>>[2] = s
      BY <1>3, LinksOf
    <3>2. <<r, s>>[2] \in Known(<<r, s>>[1])
      BY <1>3, <3>1, Zenon DEF Acquainted
    <3>. QED
      BY <3>1, <3>2
  <2>2. s \in Voters(r)
    BY <1>3, <2>1 DEF Voters
  <2>. QED
    BY <1>1, <1>3, <2>2 DEF Claims
<1>. QED
  BY <1>2, <1>3, <1>4 DEF Split

\* The first half of calcDR leaves all the rest alone.
LEMMA ElectEffect ==
  ASSUME TypeOK, Acquainted, SplitAtCrash, NEW r \in Local, NEW t \in Thread, NEW event, Elect(r, t, event),
         dr[r] # Nobody => Met(r), UNCHANGED <<dr, twoWay, claim>>
  PROVE  /\ SplitAtCrash'
         /\ \A q \in Local, u \in Thread : q # r \/ u # t => calc'[q][u] = calc[q][u]
<1>1. /\ fault \in [Local -> {"none", "off", "no_bdr"}]
      /\ \A q \in Local : DOMAIN calc = Local /\ DOMAIN calc[q] = Thread
  BY DEF TypeOK
<1>2. \A q \in Local : Split(q)' <=> Split(q)
  BY DEF Split
<1>3. ASSUME UNCHANGED fault PROVE SplitAtCrash'
  BY <1>2, <1>3 DEF SplitAtCrash
<1>4. ASSUME BdrCandidates(r) = {}, fault' = [fault EXCEPT ![r] = "no_bdr"] PROVE SplitAtCrash'
  <2>1. dr[r] = r
    <3>1. r \in Voters(r) /\ Claims(r, r).dr = dr[r]
      BY DEF Voters, Claims
    <3>. QED
      BY <1>4, <3>1 DEF BdrCandidates
  <2>2. Split(r)
    BY <1>4, <2>1, NoCandidates, RouterAssumption DEF Nobody
  <2>. QED
    BY <1>1, <1>2, <1>4, <2>2 DEF SplitAtCrash
<1>5. ASSUME NEW c, calc' = [calc EXCEPT ![r][t] = c]
      PROVE  \A q \in Local, u \in Thread : q # r \/ u # t => calc'[q][u] = calc[q][u]
  BY <1>1, <1>5
<1>6. CASE \E b \in Backups(r) : \E d \in DrChoices(r, b) :
             calc' = [calc EXCEPT ![r][t] = [event |-> event, dr |-> d, bdr |-> b]] /\ UNCHANGED fault
  <2>1. PICK b, d : calc' = [calc EXCEPT ![r][t] = [event |-> event, dr |-> d, bdr |-> b]] /\ UNCHANGED fault
    BY <1>6
  <2>. QED
    BY <1>3, <1>5, <2>1
<1>7. CASE BdrCandidates(r) = {} /\ fault' = [fault EXCEPT ![r] = "no_bdr"] /\ UNCHANGED calc
  <2>1. SplitAtCrash'
    BY <1>4, <1>7
  <2>. QED
    BY <1>7, <2>1
<1>. QED
  BY <1>6, <1>7, Zenon DEF Elect

\* A hello keeps it: who has once listed a router lists it for ever.
LEMMA HelloMeets ==
  ASSUME TypeOK, Meetings, NEW r \in Local, NEW s \in Local, r # s, NEW before, recvHello(r, s, before)
  PROVE  Meetings'
<1>1. /\ UNCHANGED <<fault, dr, timer, calc>>
      /\ recv[r] = NoHello /\ Running(r)
      /\ \A l \in Link : twoWay'[l] = IF l = <<r, s>> THEN r \in Known(s) ELSE twoWay[l]
      /\ \A l \in Link : l # <<r, s>> => claim'[l] = claim[l]
      /\ \A q \in Local : q # r => recv'[q] = recv[q]
      /\ recv'[r] = NoHello \/ (r \in Known(s) /\ recv'[r].from = s)
  BY DEF recvHello, opinion, TypeOK
<1>2. (\A q \in Local : Known(q) \subseteq Known(q)') /\ s \in Known(r)'
  BY HelloKnown
<1>3. <<r, s>> \in Link /\ <<r, s>>[1] = r /\ <<r, s>>[2] = s
  BY LinksOf
<1>4. \A l \in Link : l[1] \in Local /\ l[2] \in Local
  BY DEF Link
<1>5. \A l \in Link : twoWay[l] => twoWay'[l]
  BY <1>1, <1>3 DEF Meetings, Acquainted
<1>6. Acquainted'
  <2>. SUFFICES ASSUME NEW l \in Link, twoWay'[l] PROVE l[2] \in Known(l[1])' /\ l[1] \in Known(l[2])'
    BY DEF Acquainted
  <2>1. CASE l = <<r, s>>
    BY <1>1, <1>2, <1>3, <2>1
  <2>2. CASE l # <<r, s>>
    <3>1. l[2] \in Known(l[1]) /\ l[1] \in Known(l[2])
      BY <1>1, <2>2 DEF Meetings, Acquainted
    <3>. QED
      BY <1>2, <1>4, <3>1
  <2>. QED
    BY <2>1, <2>2
<1>7. HelloTwoWay'
  BY <1>1, <1>3, <1>5 DEF Meetings, HelloTwoWay
<1>8. \A q \in Local : Met(q) => Met(q)'
  BY <1>5, LinksOf DEF Met
<1>9. OnePerCause'
  <2>1. calc[r]["recv"] = NoResult
    BY <1>1 DEF Meetings, OnePerCause
  <2>. QED
    BY <1>1, <1>8, <2>1 DEF Meetings, OnePerCause
<1>10. SplitAtCrash'
  <2>. SUFFICES ASSUME NEW q \in Local, fault[q] = "no_bdr" PROVE Split(q)'
    BY <1>1 DEF SplitAtCrash
  <2>1. q # r
    BY <1>1 DEF Running
  <2>2. dr[q] = q /\ \E p \in Local \ {q} : twoWay[<<q, p>>] /\ claim[<<q, p>>].dr = p
    BY DEF Meetings, SplitAtCrash, Split
  <2>3. \A p \in Local \ {q} : <<q, p>> \in Link /\ <<q, p>> # <<r, s>>
    BY <2>1, LinksOf
  <2>. QED
    BY <1>1, <2>2, <2>3 DEF Split
<1>. QED
  BY <1>6, <1>7, <1>9, <1>10 DEF Meetings

\* A DD that makes a neighbour two-way keeps it: the neighbour has us two-way.
LEMMA DDMeets ==
  ASSUME TypeOK, Meetings, NEW r \in Local, NEW s \in Local, r # s, recvDD(r, s)
  PROVE  Meetings'
<1>1. /\ UNCHANGED <<fault, dr, nbrList, claim, timer, recv, calc>>
      /\ \A l \in Link : twoWay'[l] = (l = <<r, s>> \/ twoWay[l])
  BY DEF recvDD, opinion, TypeOK
<1>2. <<r, s>> \in Link /\ <<s, r>> \in Link /\ <<r, s>>[1] = r /\ <<r, s>>[2] = s
      /\ <<s, r>>[1] = s /\ <<s, r>>[2] = r
  BY LinksOf
<1>3. s \in Known(r) /\ r \in Known(s)
  BY <1>2 DEF recvDD, Meetings, Acquainted
<1>4. \A q \in Local : Known(q)' = Known(q)
  BY <1>1 DEF Known
<1>5. \A l \in Link : l[1] \in Local /\ l[2] \in Local
  BY DEF Link
<1>6. Acquainted'
  BY <1>1, <1>2, <1>3, <1>4, <1>5 DEF Meetings, Acquainted
<1>7. HelloTwoWay'
  BY <1>1 DEF Meetings, HelloTwoWay
<1>8. \A q \in Local : (Met(q) => Met(q)') /\ (Split(q) => Split(q)')
  BY <1>1, LinksOf DEF Met, Split
<1>9. OnePerCause'
  BY <1>1, <1>8 DEF Meetings, OnePerCause
<1>10. SplitAtCrash'
  BY <1>1, <1>8 DEF Meetings, SplitAtCrash
<1>. QED
  BY <1>6, <1>7, <1>9, <1>10 DEF Meetings

\* A claim that is looked at keeps it: it came from a two-way neighbour.
LEMMA ClaimMeets ==
  ASSUME TypeOK, Meetings, NEW r \in Local, checkClaim(r)
  PROVE  Meetings'
<1>1. /\ UNCHANGED <<dr, nbrList, twoWay, claim, timer>> /\ recv[r] # NoHello
      /\ \A q \in Local : q # r => recv'[q] = recv[q]
      /\ recv'[r] = NoHello \/ recv'[r].from = recv[r].from
  BY DEF checkClaim, opinion, hearing, TypeOK, NextField
<1>2. Acquainted'
  BY <1>1 DEF Meetings, Acquainted, Known
<1>3. HelloTwoWay'
  BY <1>1 DEF Meetings, HelloTwoWay
<1>4. Met(r) /\ \A q \in Local : Met(q)' <=> Met(q)
  BY <1>1 DEF Meetings, HelloTwoWay, Met, Link
<1>5. CASE UNCHANGED <<fault, calc>>
  <2>1. SplitAtCrash'
    BY <1>1, <1>5 DEF Meetings, SplitAtCrash, Split
  <2>2. calc[r]["recv"] = NoResult
    BY DEF checkClaim
  <2>3. OnePerCause'
    BY <1>1, <1>4, <1>5, <2>2 DEF Meetings, OnePerCause
  <2>. QED
    BY <1>2, <1>3, <2>1, <2>3 DEF Meetings
<1>6. ASSUME NEW event, Elect(r, "recv", event), UNCHANGED recv PROVE Meetings'
  <2>1. "recv" \in Thread /\ "wait" \in Thread /\ "recv" # "wait"
    BY DEF Thread
  <2>2. /\ SplitAtCrash'
        /\ \A q \in Local, u \in Thread : q # r \/ u # "recv" => calc'[q][u] = calc[q][u]
    BY <1>1, <1>4, <1>6, <2>1, ElectEffect DEF Meetings
  <2>3. OnePerCause'
    BY <1>1, <1>4, <1>6, <2>1, <2>2 DEF Meetings, OnePerCause
  <2>. QED
    BY <1>2, <1>3, <2>2, <2>3 DEF Meetings
<1>7. CASE Raised(r) = "none"
  BY <1>5, <1>7 DEF checkClaim
<1>8. CASE Raised(r) # "none"
  BY <1>6, <1>8, Zenon DEF checkClaim
<1>. QED
  BY <1>7, <1>8

\* waitTimer keeps it: it elects once, and nobody has been elected before, unless a
\* neighbour is two-way.
LEMMA TimerMeets ==
  ASSUME TypeOK, Meetings, NEW r \in Local, waitTimer(r)
  PROVE  Meetings'
<1>1. /\ UNCHANGED <<dr, nbrList, twoWay, claim, recv>> /\ timer[r]
      /\ \A q \in Local : timer'[q] = (q # r /\ timer[q])
  BY DEF waitTimer, opinion, hearing, TypeOK
<1>2. Acquainted' /\ HelloTwoWay'
  BY <1>1 DEF Meetings, Acquainted, HelloTwoWay, Known
<1>3. (dr[r] # Nobody => Met(r)) /\ \A q \in Local : Met(q)' <=> Met(q)
  BY <1>1 DEF Meetings, OnePerCause, Met
<1>4. CASE UNCHANGED <<fault, calc>>
  <2>1. OnePerCause'
    BY <1>1, <1>3, <1>4 DEF Meetings, OnePerCause
  <2>2. SplitAtCrash'
    BY <1>1, <1>4 DEF Meetings, SplitAtCrash, Split
  <2>. QED
    BY <1>2, <2>1, <2>2 DEF Meetings
<1>5. CASE Elect(r, "wait", "waitTimer")
  <2>1. "recv" \in Thread /\ "wait" \in Thread /\ "recv" # "wait"
    BY DEF Thread
  <2>2. /\ SplitAtCrash'
        /\ \A q \in Local, u \in Thread : q # r \/ u # "wait" => calc'[q][u] = calc[q][u]
    BY <1>1, <1>3, <1>5, <2>1, ElectEffect DEF Meetings
  <2>3. OnePerCause'
    BY <1>1, <1>3, <2>1, <2>2 DEF Meetings, OnePerCause
  <2>. QED
    BY <1>2, <2>2, <2>3 DEF Meetings
<1>. QED
  BY <1>4, <1>5 DEF waitTimer

\* The second half of calcDR keeps it.
LEMMA WriteMeets ==
  ASSUME TypeOK, Meetings, NEW r \in Local, NEW t \in Thread, setDR(r, t)
  PROVE  Meetings'
<1>1. /\ UNCHANGED <<fault, nbrList, twoWay, claim, timer>> /\ Running(r) /\ calc[r][t] # NoResult
      /\ \A q \in Local : q # r => dr'[q] = dr[q] /\ recv'[q] = recv[q]
      /\ recv'[r] = recv[r] \/ (t = "recv" /\ (recv'[r] = NoHello \/ recv'[r].from = recv[r].from))
      /\ \A q \in Local, u \in Thread :
           calc'[q][u] = IF q = r /\ u = t THEN NoResult ELSE calc[q][u]
  BY DEF setDR, hearing, TypeOK, NextField
<1>2. t \in {"recv", "wait"}
  BY DEF Thread
<1>3. Acquainted'
  BY <1>1 DEF Meetings, Acquainted, Known
<1>4. t = "recv" => recv[r] # NoHello
  BY <1>1 DEF Meetings, OnePerCause
<1>5. HelloTwoWay'
  BY <1>1, <1>4 DEF Meetings, HelloTwoWay
<1>6. \A q \in Local : Met(q)' <=> Met(q)
  BY <1>1 DEF Met
<1>7. timer[r] => Met(r)
  <2>1. timer[r] => t = "recv"
    BY <1>1, <1>2 DEF Meetings, OnePerCause
  <2>2. t = "recv" => Met(r)
    BY <1>4 DEF Meetings, HelloTwoWay, Met, Link
  <2>. QED
    BY <2>1, <2>2
<1>8. OnePerCause'
  <2>1. "recv" \in Thread /\ "wait" \in Thread /\ "recv" # "wait"
    BY DEF Thread
  <2>. QED
    BY <1>1, <1>2, <1>6, <1>7, <2>1 DEF Meetings, OnePerCause
<1>9. SplitAtCrash'
  BY <1>1 DEF Meetings, SplitAtCrash, Split, Running
<1>. QED
  BY <1>3, <1>5, <1>8, <1>9 DEF Meetings

\* Every step but a restart keeps it.
LEMMA MeetingsStep ==
  ASSUME TypeOK, Meetings, [Next]_vars, restarts' = restarts
  PROVE  Meetings'
<1>1. ASSUME NEW l \in Link, Hello(l) \/ recvDD(l[1], l[2]) PROVE Meetings'
  <2>1. l[1] \in Local /\ l[2] \in Local /\ l[1] # l[2]
    BY DEF Link
  <2>. QED
    BY <1>1, <2>1, HelloMeets, DDMeets DEF Hello
<1>2. ASSUME NEW r \in Local, checkClaim(r) \/ waitTimer(r) PROVE Meetings'
  BY <1>2, ClaimMeets, TimerMeets
<1>3. ASSUME NEW r \in Local, NEW t \in Thread, setDR(r, t) PROVE Meetings'
  BY <1>3, WriteMeets
<1>4. ASSUME UNCHANGED <<dr, nbrList, twoWay, claim, timer, recv, calc>>,
             \A r \in Local : fault'[r] = "no_bdr" => fault[r] = "no_bdr"
      PROVE  Meetings'
  <2>1. Acquainted' /\ HelloTwoWay'
    BY <1>4 DEF Meetings, Acquainted, HelloTwoWay, Known
  <2>2. OnePerCause'
    BY <1>4 DEF Meetings, OnePerCause, Met
  <2>3. SplitAtCrash'
    BY <1>4 DEF Meetings, SplitAtCrash, Split
  <2>. QED
    BY <2>1, <2>2, <2>3 DEF Meetings
<1>5. ASSUME NEW r \in Late, Start(r) PROVE Meetings'
  BY <1>4, <1>5 DEF Start, opinion, hearing, TypeOK
<1>6. ASSUME NEW r \in Restarting, Restart(r) PROVE FALSE
  BY <1>6 DEF Restart, TypeOK
<1>7. CASE UNCHANGED vars
  BY <1>4, <1>7 DEF vars
<1>. QED
  BY <1>1, <1>2, <1>3, <1>5, <1>6, <1>7 DEF Next

\* Before the first restart it holds of every state.
LEMMA MeetingsAlways == Spec => [](restarts = 0 => Meetings)
<1>1. Init => Meetings
  BY DEF Init, Meetings, Acquainted, HelloTwoWay, OnePerCause, SplitAtCrash, Thread
<1>2. TypeOK /\ (restarts = 0 => Meetings) /\ [Next]_vars => (restarts = 0 => Meetings)'
  <2>. SUFFICES ASSUME TypeOK, restarts = 0 => Meetings, [Next]_vars, restarts' = 0 PROVE Meetings'
    OBVIOUS
  <2>1. restarts' = restarts
    <3>1. ASSUME NEW r \in Restarting, Restart(r) PROVE FALSE
      BY <3>1 DEF Restart, TypeOK
    <3>2. CASE UNCHANGED restarts
      BY <3>2
    <3>. QED
      BY <3>1, <3>2, Zenon DEF Next, Hello, recvHello, recvDD, checkClaim, waitTimer, setDR, Start, vars
  <2>. QED
    BY <2>1, MeetingsStep
<1>. QED
  BY <1>1, <1>2, TypeCorrect, PTL DEF Spec

\* A router leaves calcDR without candidates only when it has elected itself and so has
\* a two-way neighbour, for any routers and any delay of their hellos: one that is alone
\* on its LAN elects itself once, and never again before it has met another
\* (Interface.cpp:64-91, 123, 211-218).
THEOREM SplitBeforeCrash == Spec => []CrashMeansSplit
<1>1. (restarts = 0 => Meetings) => CrashMeansSplit
  BY DEF Meetings, SplitAtCrash, Split, CrashMeansSplit
<1>. QED
  BY <1>1, MeetingsAlways, PTL

-----------------------------------------------------------------------------
(* A router that joins the LAN of another one. *)

\* Router b is started once a has had its first election, and no hello is late.
Joining(a, b) ==
  a # b /\ Local = {a, b} /\ Late = {b} /\ Restarting = {} /\ Prompt

\* Router a has elected itself, or is about to, before b is started.
Incumbent(a, b) ==
  /\ fault[a] # "off"
  /\ timer[a] => dr[a] = Nobody
  /\ ~timer[a] => dr[a] = a \/ calc[a]["wait"] # NoResult
  /\ dr[a] = a \/ (dr[a] = Nobody /\ fault[b] = "off")
  /\ fault[b] = "off" => Known(a) = {} /\ Known(b) = {}

\* Nobody has named b, and b has not heard of a without its claim to be the DR.
OneCandidate(a, b) ==
  /\ dr[b] \in {Nobody, a}
  /\ \A r \in Local, t \in Thread : calc[r][t] # NoResult => calc[r][t].dr = a
  /\ claim[<<a, b>>].dr \in {Nobody, a}
  /\ a \in Known(b) => claim[<<b, a>>].dr = a

\* The facts about the two routers that the proofs need.
LEMMA TwoRouters ==
  ASSUME NEW a, NEW b, Joining(a, b)
  PROVE  /\ a \in Local /\ b \in Local /\ a # b /\ a # Nobody /\ b # Nobody
         /\ \A r \in Local : r = a \/ r = b
         /\ \A l \in Link : l = <<a, b>> \/ l = <<b, a>>
         /\ <<a, b>> \in Link /\ <<b, a>> \in Link /\ <<a, b>> # <<b, a>>
         /\ "recv" \in Thread /\ "wait" \in Thread /\ \A t \in Thread : t = "recv" \/ t = "wait"
<1>1. a \in Local /\ b \in Local /\ a # b /\ \A r \in Local : r = a \/ r = b
  BY DEF Joining
<1>2. a # Nobody /\ b # Nobody
  BY <1>1, RouterAssumption DEF Nobody
<1>3. \A l \in Link : l = <<a, b>> \/ l = <<b, a>>
  BY <1>1 DEF Link
<1>4. <<a, b>> \in Link /\ <<b, a>> \in Link /\ <<a, b>> # <<b, a>>
  BY <1>1 DEF Link
<1>. QED
  BY <1>1, <1>2, <1>3, <1>4 DEF Thread

\* A router that is split has a rival: the two never are, now or when no claim changes.
LEMMA NeverSplit ==
  ASSUME NEW a, NEW b, Joining(a, b), OneCandidate(a, b), NEW r \in Local
  PROVE  ~Split(r) /\ (UNCHANGED <<dr, twoWay, claim>> => ~Split(r)')
<1>1. ASSUME NEW s \in Local, r # s, dr[r] = r, claim[<<r, s>>].dr = s PROVE FALSE
  <2>1. CASE r = a
    <3>1. s = b
      BY <1>1, <2>1, TwoRouters
    <3>. QED
      BY <1>1, <2>1, <3>1, TwoRouters DEF OneCandidate
  <2>2. CASE r = b
    BY <1>1, <2>2, TwoRouters DEF OneCandidate
  <2>. QED
    BY <2>1, <2>2, TwoRouters
<1>. QED
  BY <1>1 DEF Split

\* A crash is a split; so there is none.
LEMMA NoCrashYet ==
  ASSUME NEW a, NEW b, Joining(a, b), Meetings, OneCandidate(a, b), NEW r \in Local
  PROVE  fault[r] # "no_bdr"
  BY NeverSplit DEF Meetings, SplitAtCrash

\* Either router elects a: it alone claims to be the DR, or is alone.
LEMMA ElectsIncumbent ==
  ASSUME NEW a, NEW b, Joining(a, b), TypeOK, Acquainted, Incumbent(a, b), OneCandidate(a, b),
         NEW r \in Local, r = a \/ twoWay[<<b, a>>],
         NEW x \in Backups(r), NEW d \in DrChoices(r, x)
  PROVE  d = a
<1>1. d \in Near(r)
  BY ElectsNear
<1>2. CASE r = a /\ fault[b] = "off"
  BY <1>1, <1>2 DEF Near, Incumbent
<1>3. CASE r = a /\ dr[a] = a
  <2>1. Claims(a, a).dr = a /\ Claims(a, b).dr # b
    BY <1>3, TwoRouters DEF Claims, OneCandidate
  <2>2. Voters(a) \subseteq Local /\ a \in Voters(a)
    BY TwoRouters, NearIsLocal DEF Voters, Near
  <2>3. \A s \in Voters(a) : Claims(a, s).dr = s <=> s = a
    BY <2>1, <2>2, TwoRouters
  <2>4. DrCandidates(a) = {a}
    BY <2>2, <2>3 DEF DrCandidates
  <2>. QED
    BY <1>3, <2>4, WinnerIsCandidate DEF DrChoices
<1>4. CASE r = b /\ twoWay[<<b, a>>]
  <2>1. a \in Known(b)
    <3>1. <<b, a>>[2] \in Known(<<b, a>>[1])
      BY <1>4, TwoRouters, Zenon DEF Acquainted
    <3>. QED
      BY <3>1
  <2>2. Claims(b, a).dr = a /\ Claims(b, b).dr # b
    BY <2>1, TwoRouters DEF Claims, OneCandidate
  <2>3. Voters(b) \subseteq Local /\ a \in Voters(b)
    BY <1>4, <2>1, TwoRouters, NearIsLocal DEF Voters, Near
  <2>4. \A s \in Voters(b) : Claims(b, s).dr = s <=> s = a
    BY <2>2, <2>3, TwoRouters
  <2>5. DrCandidates(b) = {a}
    BY <2>3, <2>4 DEF DrCandidates
  <2>. QED
    BY <1>4, <2>5, WinnerIsCandidate DEF DrChoices
<1>. QED
  BY <1>2, <1>3, <1>4, TwoRouters DEF Incumbent

\* The first half of calcDR has a as its result.
LEMMA JoinElects ==
  ASSUME NEW a, NEW b, Joining(a, b), TypeOK, Meetings, Meetings', Incumbent(a, b), OneCandidate(a, b),
         NEW r \in Local, NEW t \in Thread, r = a \/ twoWay[<<b, a>>],
         NEW event \in {"backupSeen", "nbrChange", "waitTimer"},
         Elect(r, t, event), UNCHANGED <<dr, twoWay, claim, nbrList>>
  PROVE  OneCandidate(a, b)' /\ UNCHANGED fault /\ calc'[r][t] # NoResult
         /\ \A q \in Local, u \in Thread : q # r \/ u # t => calc'[q][u] = calc[q][u]
<1>1. fault'[r] # "no_bdr"
  BY NeverSplit DEF Meetings, SplitAtCrash
<1>2. /\ fault \in [Local -> {"none", "off", "no_bdr"}]
      /\ calc \in [Local -> [Thread -> Result \cup {NoResult}]]
  BY DEF TypeOK, Result
<1>3. PICK x \in Backups(r) : \E d \in DrChoices(r, x) :
        calc' = [calc EXCEPT ![r][t] = [event |-> event, dr |-> d, bdr |-> x]] /\ UNCHANGED fault
  BY <1>1, <1>2 DEF Elect
<1>4. \A d \in DrChoices(r, x) : d = a
  BY ElectsIncumbent DEF Meetings
<1>5. \A q \in Local, u \in Thread :
        calc'[q][u] = IF q = r /\ u = t THEN [event |-> event, dr |-> a, bdr |-> x] ELSE calc[q][u]
  BY <1>2, <1>3, <1>4
<1>6. [event |-> event, dr |-> a, bdr |-> x].event # NoResult.event
  BY DEF NoResult
<1>7. OneCandidate(a, b)'
  BY <1>5 DEF OneCandidate, Known
<1>. QED
  BY <1>3, <1>5, <1>6, <1>7

Joined(a, b) == Incumbent(a, b) /\ OneCandidate(a, b)

\* A hello carries dr[a] = a, or what b thinks of the DR, and that is not b.
LEMMA HelloJoined ==
  ASSUME NEW a, NEW b, Joining(a, b), TypeOK, Joined(a, b),
         NEW r \in Local, NEW s \in Local, r # s, NEW before, recvHello(r, s, before)
  PROVE  Joined(a, b)'
<1>1. /\ UNCHANGED <<fault, dr, timer, calc>> /\ Running(r) /\ Running(s)
      /\ nbrList' = [nbrList EXCEPT ![r] = IF s \in Known(r) THEN @ ELSE Append(@, s)]
      /\ claim' = [claim EXCEPT ![<<r, s>>] = [dr |-> dr[s], bdr |-> bdr[s]]]
  BY DEF recvHello, opinion
<1>2. fault[b] # "off" /\ dr[a] = a
  <2>1. (r = a /\ s = b) \/ (r = b /\ s = a)
    BY TwoRouters
  <2>2. fault[b] = "none"
    BY <1>1, <2>1 DEF Running
  <2>3. fault[b] # "off"
    BY <2>2
  <2>. QED
    BY <2>3 DEF Joined, Incumbent
<1>3. Incumbent(a, b)'
  BY <1>1, <1>2 DEF Joined, Incumbent
<1>4. claim \in [Link -> Claim]
  BY DEF TypeOK
<1>5. CASE r = a /\ s = b
  <2>1. claim'[<<a, b>>].dr = dr[b] /\ claim'[<<b, a>>] = claim[<<b, a>>]
    BY <1>1, <1>4, <1>5, TwoRouters
  <2>2. Known(b)' = Known(b)
    <3>1. nbrList'[b] = nbrList[b]
      BY <1>1, <1>5, TwoRouters DEF TypeOK
    <3>. QED
      BY <3>1 DEF Known
  <2>. QED
    BY <1>1, <1>3, <2>1, <2>2 DEF Joined, OneCandidate
<1>6. CASE r = b /\ s = a
  <2>1. claim'[<<b, a>>].dr = a /\ claim'[<<a, b>>] = claim[<<a, b>>]
    BY <1>1, <1>2, <1>4, <1>6, TwoRouters
  <2>. QED
    BY <1>1, <1>3, <2>1 DEF Joined, OneCandidate
<1>. QED
  BY <1>5, <1>6, TwoRouters

\* A hello in hand is one of the other router.
LEMMA HearsTheOther ==
  ASSUME NEW a, NEW b, Joining(a, b), Meetings, NEW r \in Local, recv[r] # NoHello
  PROVE  (r = a => twoWay[<<a, b>>]) /\ (r = b => twoWay[<<b, a>>])
<1>1. PICK l \in Link : l = <<r, recv[r].from>> /\ twoWay[l]
  BY DEF Meetings, HelloTwoWay
<1>2. l[1] = r
  BY <1>1
<1>3. CASE l = <<a, b>>
  BY <1>1, <1>2, <1>3, TwoRouters
<1>4. CASE l = <<b, a>>
  BY <1>1, <1>2, <1>4, TwoRouters
<1>. QED
  BY <1>3, <1>4, TwoRouters

\* Both look at claims only of two-way neighbours, and elect a.
LEMMA ClaimJoined ==
  ASSUME NEW a, NEW b, Joining(a, b), TypeOK, Meetings, Meetings', Joined(a, b),
         NEW r \in Local, checkClaim(r)
  PROVE  Joined(a, b)'
<1>1. UNCHANGED <<dr, nbrList, twoWay, claim, timer>> /\ recv[r] # NoHello /\ calc[r]["recv"] = NoResult
  BY DEF checkClaim, opinion, hearing
<1>2. \A q \in Local : Known(q)' = Known(q)
  BY <1>1 DEF Known
<1>3. r = a \/ twoWay[<<b, a>>]
  <2>1. recv[r] # NoHello
    BY <1>1
  <2>2. r = b => twoWay[<<b, a>>]
    BY <2>1, HearsTheOther
  <2>. QED
    BY <2>2, TwoRouters
<1>4. CASE UNCHANGED <<fault, calc>>
  BY <1>1, <1>2, <1>4, TwoRouters DEF Joined, Incumbent, OneCandidate
<1>5. CASE Raised(r) # "none"
  <2>1. Raised(r) \in {"backupSeen", "nbrChange", "waitTimer"} /\ Elect(r, "recv", Raised(r))
    BY <1>5 DEF checkClaim, Raised
  <2>2. OneCandidate(a, b)' /\ UNCHANGED fault
        /\ \A q \in Local, u \in Thread : q # r \/ u # "recv" => calc'[q][u] = calc[q][u]
    <3>1. UNCHANGED <<dr, twoWay, claim, nbrList>> /\ Incumbent(a, b) /\ OneCandidate(a, b)
      BY <1>1 DEF Joined
    <3>2. "recv" \in Thread
      BY DEF Thread
    <3>. QED
      BY <1>3, <2>1, <3>1, <3>2, JoinElects
  <2>3. calc'[a]["wait"] = calc[a]["wait"]
    BY <2>2, TwoRouters
  <2>4. Incumbent(a, b)'
    BY <1>1, <1>2, <2>2, <2>3, TwoRouters DEF Joined, Incumbent
  <2>. QED
    BY <2>2, <2>4 DEF Joined
<1>. QED
  BY <1>4, <1>5 DEF checkClaim

\* The timer of a elects a, if nobody has been elected; that of b finds a two-way.
LEMMA TimerJoined ==
  ASSUME NEW a, NEW b, Joining(a, b), TypeOK, DrIsKnown, Meetings, Meetings', Joined(a, b),
         NEW r \in Local, waitTimer(r)
  PROVE  Joined(a, b)'
<1>1. UNCHANGED <<dr, nbrList, twoWay, claim>> /\ Running(r) /\ timer[r]
      /\ \A q \in Local : timer'[q] = (q # r /\ timer[q])
  BY DEF waitTimer, opinion, hearing, TypeOK
<1>2. \A q \in Local : Known(q)' = Known(q)
  BY <1>1 DEF Known
<1>3. r = a \/ twoWay[<<b, a>>]
  <2>1. Prompt /\ fault[a] # "no_bdr" /\ fault[a] # "off"
    BY NoCrashYet, TwoRouters DEF Joining, Joined, Incumbent
  <2>2. fault[a] = "none"
    <3>1. fault[a] \in {"none", "off", "no_bdr"}
      BY TwoRouters, Zenon DEF TypeOK
    <3>. QED
      BY <2>1, <3>1
  <2>3. CASE r = b
    BY <2>1, <2>2, <2>3, TwoRouters DEF waitTimer, Running
  <2>. QED
    BY <2>3, TwoRouters
<1>4. CASE itState[r] = "WAITING"
  <2>1. Elect(r, "wait", "waitTimer")
    BY <1>4 DEF waitTimer
  <2>2. OneCandidate(a, b)' /\ UNCHANGED fault /\ calc'[r]["wait"] # NoResult
        /\ \A q \in Local, u \in Thread : q # r \/ u # "wait" => calc'[q][u] = calc[q][u]
    <3>1. "waitTimer" \in {"backupSeen", "nbrChange", "waitTimer"}
      OBVIOUS
    <3>2. UNCHANGED <<dr, twoWay, claim, nbrList>> /\ Incumbent(a, b) /\ OneCandidate(a, b)
      BY <1>1 DEF Joined
    <3>3. "wait" \in Thread
      BY DEF Thread
    <3>. QED
      BY <1>3, <2>1, <3>1, <3>2, <3>3, JoinElects
  <2>3. r = a \/ calc'[a]["wait"] = calc[a]["wait"]
    BY <2>2, TwoRouters
  <2>4. Incumbent(a, b)'
    BY <1>1, <1>2, <2>2, <2>3, TwoRouters DEF Joined, Incumbent
  <2>. QED
    BY <2>2, <2>4 DEF Joined
<1>5. CASE itState[r] # "WAITING"
  <2>1. UNCHANGED <<fault, calc>>
    BY <1>5 DEF waitTimer
  <2>2. r = a => dr[a] = a
    <3>1. CASE r = a /\ dr[a] # a
      <4>1. fault[b] = "off" /\ Known(a) = {} /\ dr[a] = Nobody
        BY <3>1 DEF Joined, Incumbent
      <4>2. dr[a] \in Known(a) \cup {a}
        BY <1>5, <3>1, TwoRouters DEF DrIsKnown
      <4>. QED
        BY <3>1, <4>1, <4>2
    <3>. QED
      BY <3>1
  <2>3. r # a => timer'[a] = timer[a]
    BY <1>1, TwoRouters DEF TypeOK
  <2>4. Incumbent(a, b)'
    BY <1>1, <1>2, <2>1, <2>2, <2>3, TwoRouters DEF Joined, Incumbent
  <2>5. OneCandidate(a, b)'
    BY <1>1, <1>2, <2>1, TwoRouters DEF Joined, OneCandidate
  <2>. QED
    BY <2>4, <2>5 DEF Joined
<1>. QED
  BY <1>4, <1>5

\* What is written is a; and a has elected nobody while its timer is running.
LEMMA WriteJoined ==
  ASSUME NEW a, NEW b, Joining(a, b), TypeOK, Meetings, Joined(a, b),
         NEW r \in Local, NEW t \in Thread, setDR(r, t)
  PROVE  Joined(a, b)'
<1>1. /\ UNCHANGED <<fault, nbrList, twoWay, claim, timer>> /\ Running(r) /\ calc[r][t] # NoResult
      /\ \A q \in Local : dr'[q] = IF q = r THEN calc[r][t].dr ELSE dr[q]
      /\ \A q \in Local, u \in Thread :
           calc'[q][u] = IF q = r /\ u = t THEN NoResult ELSE calc[q][u]
  BY DEF setDR, hearing, TypeOK
<1>2. \A q \in Local : Known(q)' = Known(q)
  BY <1>1 DEF Known
<1>3. calc[r][t].dr = a
  BY <1>1 DEF Joined, OneCandidate
<1>4. OneCandidate(a, b)'
  BY <1>1, <1>2, <1>3, TwoRouters DEF Joined, OneCandidate
<1>5. CASE r = a
  <2>1. ~timer[a]
    <3>1. ASSUME timer[a] PROVE FALSE
      <4>1. fault[b] = "off" /\ Known(a) = {}
        BY <3>1, TwoRouters DEF Joined, Incumbent
      <4>2. ~twoWay[<<a, b>>]
        <5>1. twoWay[<<a, b>>] => <<a, b>>[2] \in Known(<<a, b>>[1])
          BY TwoRouters, Zenon DEF Meetings, Acquainted
        <5>. QED
          BY <4>1, <5>1
      <4>3. recv[a] = NoHello
        BY <4>2, HearsTheOther, TwoRouters
      <4>. QED
        BY <1>1, <1>5, <3>1, <4>3, TwoRouters DEF Meetings, OnePerCause
    <3>. QED
      BY <3>1
  <2>. QED
    BY <1>1, <1>2, <1>3, <1>4, <1>5, <2>1, TwoRouters DEF Joined, Incumbent
<1>6. CASE r = b
  <2>1. a # r /\ a \in Local
    BY <1>6, TwoRouters
  <2>2. calc'[a]["wait"] = calc[a]["wait"]
    BY <1>1, <2>1, TwoRouters
  <2>3. dr'[a] = dr[a]
    BY <1>1, <2>1
  <2>4. Incumbent(a, b)'
    BY <1>1, <1>2, <2>2, <2>3, TwoRouters DEF Joined, Incumbent
  <2>. QED
    BY <1>4, <2>4 DEF Joined
<1>. QED
  BY <1>5, <1>6, TwoRouters

\* Every step keeps it.
LEMMA JoinedStep ==
  ASSUME NEW a, NEW b, Joining(a, b), TypeOK, DrIsKnown, Meetings, Meetings', Joined(a, b), [Next]_vars
  PROVE  Joined(a, b)'
<1>1. ASSUME NEW l \in Link, Hello(l) PROVE Joined(a, b)'
  <2>1. l[1] \in Local /\ l[2] \in Local /\ l[1] # l[2]
    BY DEF Link
  <2>. QED
    BY <1>1, <2>1, HelloJoined DEF Hello
<1>2. ASSUME NEW r \in Local, checkClaim(r) \/ waitTimer(r) PROVE Joined(a, b)'
  BY <1>2, ClaimJoined, TimerJoined
<1>3. ASSUME NEW r \in Local, NEW t \in Thread, setDR(r, t) PROVE Joined(a, b)'
  BY <1>3, WriteJoined
<1>4. ASSUME NEW r \in Late, Start(r) PROVE Joined(a, b)'
  <2>1. /\ UNCHANGED <<dr, nbrList, twoWay, claim, timer, calc>>
        /\ fault' = [fault EXCEPT ![b] = "none"]
        /\ ~timer[a] /\ calc[a]["wait"] = NoResult
    BY <1>4, TwoRouters DEF Start, opinion, hearing, Joining
  <2>2. dr[a] = a
    BY <2>1 DEF Joined, Incumbent
  <2>3. fault'[a] = fault[a] /\ fault'[b] = "none"
    <3>1. DOMAIN fault = Local
      BY DEF TypeOK
    <3>. QED
      BY <2>1, <3>1, TwoRouters
  <2>4. \A q \in Local : Known(q)' = Known(q)
    BY <2>1 DEF Known
  <2>5. Incumbent(a, b)'
    BY <2>1, <2>2, <2>3 DEF Joined, Incumbent
  <2>6. OneCandidate(a, b)'
    BY <2>1, <2>4, TwoRouters DEF Joined, OneCandidate
  <2>. QED
    BY <2>5, <2>6 DEF Joined
<1>5. ASSUME UNCHANGED <<fault, dr, nbrList, claim, timer, calc>> PROVE Joined(a, b)'
  <2>1. \A q \in Local : Known(q)' = Known(q)
    BY <1>5 DEF Known
  <2>. QED
    BY <1>5, <2>1, TwoRouters DEF Joined, Incumbent, OneCandidate
<1>6. ASSUME NEW r, NEW s, recvDD(r, s) PROVE Joined(a, b)'
  BY <1>5, <1>6 DEF recvDD, opinion
<1>7. CASE UNCHANGED vars
  BY <1>5, <1>7 DEF vars
<1>. QED
  BY <1>1, <1>2, <1>3, <1>4, <1>6, <1>7 DEF Next, Joining

\* It holds of every state, for nothing is restarted.
LEMMA JoinedAlways ==
  ASSUME NEW a, NEW b, Joining(a, b)
  PROVE  Spec => [](Meetings /\ Joined(a, b))
<1>1. Init => restarts = 0 /\ Joined(a, b)
  <2>. SUFFICES ASSUME Init PROVE Joined(a, b)
    BY DEF Init
  <2>1. fault[a] = "none" /\ fault[b] = "off"
    BY TwoRouters DEF Init, Joining
  <2>2. fault[a] # "off"
    BY <2>1
  <2>3. dr[a] = Nobody /\ dr[b] = Nobody /\ timer[a] /\ claim[<<a, b>>].dr = Nobody
    BY TwoRouters DEF Init, NoClaim
  <2>4. Known(a) = {} /\ Known(b) = {}
    <3>1. nbrList[a] = << >> /\ nbrList[b] = << >>
      BY TwoRouters DEF Init
    <3>. QED
      BY <3>1 DEF Known
  <2>5. \A r \in Local, t \in Thread : calc[r][t] = NoResult
    BY DEF Init
  <2>. QED
    BY <2>1, <2>2, <2>3, <2>4, <2>5 DEF Joined, Incumbent, OneCandidate
<1>2. restarts = 0 /\ [Next]_vars => (restarts = 0)'
  BY Zenon DEF Next, Hello, recvHello, recvDD, checkClaim, waitTimer, setDR, Start, vars, Joining
<1>3. TypeOK /\ DrIsKnown /\ Meetings /\ Meetings' /\ Joined(a, b) /\ [Next]_vars => Joined(a, b)'
  BY JoinedStep
<1>. QED
  BY <1>1, <1>2, <1>3, TypeCorrect, DrAlwaysKnown, MeetingsAlways, PTL DEF Spec

\* A router that joins the LAN of another never leaves calcDR without candidates, and the
\* one that is there does not either, however their two threads interleave
\* (Interface.cpp:64-91, 123).
THEOREM JoinerElects ==
  ASSUME NEW a, NEW b, Joining(a, b)
  PROVE  Spec => []NoElectionCrash
<1>1. Meetings /\ Joined(a, b) => NoElectionCrash
  BY NoCrashYet DEF Joined, NoElectionCrash
<1>. QED
  BY <1>1, JoinedAlways, PTL

\* The two never both think themselves elected, whether they hear each other or not: the
\* joiner elects the router it finds (Interface.cpp:93-127).
THEOREM JoinerYields ==
  ASSUME NEW a, NEW b, Joining(a, b)
  PROVE  Spec => []OneDr
<1>1. Joined(a, b) => OneDr
  BY TwoRouters DEF Joined, OneCandidate, OneDr
<1>. QED
  BY <1>1, JoinedAlways, PTL
=============================================================================
