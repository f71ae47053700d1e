------------------------------ MODULE Election ------------------------------
(***************************************************************************)
(* How the routers of a LAN elect the designated router (DR) and its       *)
(* backup: the events of Interface.cpp, calcDR, and the hello packets that *)
(* carry every router's opinion (PacketManager.cpp, type 1).               *)
(*                                                                         *)
(* All routers run this code.  Two threads of a router call calcDR, and no *)
(* lock is held: the receive thread, for what a hello changes, and         *)
(* waitTimer, once.  calcDR is two steps here, the one that reads the      *)
(* neighbours and the interface and the one that writes dr and bdr, so     *)
(* that the threads can overtake each other.                               *)
(*                                                                         *)
(* A router's id and its address are one number (main.cpp:16, 40), and     *)
(* every priority is 1: nothing sets another one, so that the sort by      *)
(* priority in calcDR leaves its list alone.  A neighbour is "two-way"     *)
(* when its state is NBR_ST_2WAY or higher.                                *)
(***************************************************************************)
EXTENDS Integers, Sequences

CONSTANTS
  Local,       \* the routers
  Restarting,  \* those that may be restarted
  Late,        \* those that start when the others have had their first election
  Prompt,      \* whether two-way hellos of all arrive within the forty seconds
  MaxRestarts, \* bound: restarts in one behaviour
  MaxNlsas     \* bound: length of nlsaList

ASSUME RouterAssumption == Local \subseteq Nat \ {0} /\ Restarting \subseteq Local /\ Late \subseteq Local
ASSUME BoundAssumption == MaxRestarts \in Nat /\ MaxNlsas \in Nat /\ Prompt \in BOOLEAN

\* <<self, peer>>
Link == {l \in Local \X Local : l[1] # l[2]}

Thread == {"recv", "wait"}

\* Address 0: nobody.
Nobody == 0
Address == Local \cup {Nobody}

\* It_State, without DOWN: main raises INTERFACEUP before any thread runs.
ItState == {"WAITING", "DROTHER", "BACKUP", "DR"}

VARIABLES
  fault,     \* fault[r]: "none", "off" before r starts, or what ended r's process
  itState,   \* itState[r]: the interface's currentState
  dr, bdr,   \* dr[r], bdr[r]: the interface's opinion
  nbrList,   \* nbrList[r]: the neighbours, in the order they were first heard
  twoWay,    \* twoWay[l]: whether the neighbour is two-way
  claim,     \* claim[l]: ndr and nbdr, from the neighbour's last hello
  timer,     \* timer[r]: waitTimer is still asleep
  recv,      \* recv[r]: the hello in the receive thread's hands, or NoHello
  calc,      \* calc[r][t]: what thread t has elected and not written, or NoResult
  nlsaList,  \* nlsaList[r]: how many network LSAs have been queued
  restarts

vars == <<fault, itState, dr, bdr, nbrList, twoWay, claim, timer, recv, calc, nlsaList, restarts>>

opinion == <<itState, dr, bdr>>
hearing == <<nbrList, twoWay, claim>>

NoHello == [field |-> "none"]
NoResult == [event |-> "none"]

Claim == [dr : Address, bdr : Address]
NoClaim == [dr |-> Nobody, bdr |-> Nobody]

Known(r) == {nbrList[r][k] : k \in 1..Len(nbrList[r])}

Running(r) == fault[r] = "none"

Init ==
  /\ fault = [r \in Local |-> IF r \in Late THEN "off" ELSE "none"]
  /\ itState = [r \in Local |-> "WAITING"]
  /\ dr = [r \in Local |-> Nobody]
  /\ bdr = [r \in Local |-> Nobody]
  /\ nbrList = [r \in Local |-> << >>]
  /\ twoWay = [l \in Link |-> FALSE]
  /\ claim = [l \in Link |-> NoClaim]
  /\ timer = [r \in Local |-> TRUE]
  /\ recv = [r \in Local |-> NoHello]
  /\ calc = [r \in Local |-> [t \in Thread |-> NoResult]]
  /\ nlsaList = [r \in Local |-> 0]
  /\ restarts = 0

-----------------------------------------------------------------------------
(* calcDR. *)

\* What router s claims to be, as r sees it; its own opinion counts for itself.
Claims(r, s) == IF s = r THEN [dr |-> dr[r], bdr |-> bdr[r]] ELSE claim[<<r, s>>]

\* rlist: the two-way neighbours, in the order of nbrList, and r at the end.
Voters(r) == {s \in Known(r) : twoWay[<<r, s>>]} \cup {r}

Place(r, s) ==
  IF s = r THEN Len(nbrList[r]) + 1 ELSE CHOOSE k \in 1..Len(nbrList[r]) : nbrList[r][k] = s

FirstOf(r, C) == {s \in C : \A q \in C : Place(r, s) <= Place(r, q)}
LastOf(r, C) == {s \in C : \A q \in C : Place(r, q) <= Place(r, s)}
Largest(C) == {s \in C : \A q \in C : q <= s}

\* The candidate that the loops choose: the one with the largest id -- unless
\* that is the first one, when ptr still points to the last one.
Winner(r, C) == IF Largest(C) = FirstOf(r, C) THEN LastOf(r, C) ELSE Largest(C)

\* bdrDecList: those who claim to be the backup, or else all who do not claim
\* to be the DR.
BdrCandidates(r) ==
  LET eligible == {s \in Voters(r) : Claims(r, s).dr # s}
      claimants == {s \in eligible : Claims(r, s).bdr = s}
  IN  IF claimants = {} THEN eligible ELSE claimants

\* Mutant of DrCandidates: those who claim to be the backup.
DrCandidatesBackup(r) == {s \in Voters(r) : Claims(r, s).bdr = s}

\* drDecList: those who claim to be the DR.
DrCandidates(r) == {s \in Voters(r) : Claims(r, s).dr = s}

\* Without a candidate for the backup the code reads bdrDecList[-1]: some
\* router in its memory, or a pointer that ends the process.
Backups(r) == IF BdrCandidates(r) = {} THEN Voters(r) ELSE Winner(r, BdrCandidates(r))

\* Mutant of DrChoices: the else-branch is missing.
DrChoicesNone(r, b) == IF DrCandidates(r) = {} THEN {Nobody} ELSE Winner(r, DrCandidates(r))

\* Nobody claims to be the DR: the backup becomes it.
DrChoices(r, b) == IF DrCandidates(r) = {} THEN {b} ELSE Winner(r, DrCandidates(r))

\* The first half of calcDR, on thread t, for an event.
Elect(r, t, event) ==
  \/ /\ \E b \in Backups(r) : \E d \in DrChoices(r, b) :
         calc' = [calc EXCEPT ![r][t] = [event |-> event, dr |-> d, bdr |-> b]]
     /\ UNCHANGED fault
  \/ /\ BdrCandidates(r) = {}
     /\ fault' = [fault EXCEPT ![r] = "no_bdr"]
     /\ UNCHANGED calc

-----------------------------------------------------------------------------
(* The receive thread. *)

\* ndr and nbdr before the first hello: the constructor leaves them to chance.
Before(r, s) ==
  IF s \in Known(r) THEN {claim[<<r, s>>]} ELSE [dr : {Nobody, s}, bdr : {Nobody, s}]

\* Mutant of recvHello: a hello that does not list us raises events as well.
recvHelloAlways(r, s, before) ==
  /\ Running(r) /\ Running(s)
  /\ recv[r] = NoHello
  /\ nbrList' = [nbrList EXCEPT ![r] = IF s \in Known(r) THEN @ ELSE Append(@, s)]
  /\ claim' = [claim EXCEPT ![<<r, s>>] = [dr |-> dr[s], bdr |-> bdr[s]]]
  /\ twoWay' = [twoWay EXCEPT ![<<r, s>>] = r \in Known(s)]
  /\ recv' = [recv EXCEPT ![r] = [field |-> "dr", from |-> s, before |-> before]]
  /\ UNCHANGED <<fault, opinion, timer, calc, nlsaList, restarts>>

\* The hello of s, with its opinion; it lists every router that s has heard.
\* One that does not list us leaves its claims behind, but raises no event.
recvHello(r, s, before) ==
  /\ Running(r) /\ Running(s)
  /\ recv[r] = NoHello
  /\ nbrList' = [nbrList EXCEPT ![r] = IF s \in Known(r) THEN @ ELSE Append(@, s)]
  /\ claim' = [claim EXCEPT ![<<r, s>>] = [dr |-> dr[s], bdr |-> bdr[s]]]
  /\ twoWay' = [twoWay EXCEPT ![<<r, s>>] = r \in Known(s)]
  /\ recv' = [recv EXCEPT ![r] =
                IF r \in Known(s) THEN [field |-> "dr", from |-> s, before |-> before] ELSE NoHello]
  /\ UNCHANGED <<fault, opinion, timer, calc, nlsaList, restarts>>

\* The event raised for one of the two claims, if any.
Raised(r) ==
  LET s == recv[r].from
      field == recv[r].field
      now == claim[<<r, s>>]
  IN  IF now[field] = s /\ (field = "dr" => now.bdr = Nobody) /\ itState[r] = "WAITING"
      THEN "backupSeen"
      ELSE IF (now[field] = s) # (recv[r].before[field] = s) THEN "nbrChange"
      ELSE "none"

\* The claim to be the DR is looked at first, then the one to be the backup.
NextField(h) == IF h.field = "dr" THEN [h EXCEPT !.field = "bdr"] ELSE NoHello

\* One of the two if-statements: raise the event, as far as calcDR's first half.
checkClaim(r) ==
  /\ Running(r)
  /\ recv[r] # NoHello
  /\ calc[r]["recv"] = NoResult
  /\ IF Raised(r) = "none"
     THEN recv' = [recv EXCEPT ![r] = NextField(@)] /\ UNCHANGED <<fault, calc>>
     ELSE Elect(r, "recv", Raised(r)) /\ UNCHANGED recv
  /\ UNCHANGED <<opinion, hearing, timer, nlsaList, restarts>>

\* A DD from a neighbour that is not two-way makes it so; only a router that
\* has us two-way sends one.
recvDD(r, s) ==
  /\ Running(r) /\ Running(s)
  /\ recv[r] = NoHello
  /\ s \in Known(r) /\ twoWay[<<s, r>>]
  /\ twoWay' = [twoWay EXCEPT ![<<r, s>>] = TRUE]
  /\ UNCHANGED <<fault, opinion, nbrList, claim, timer, recv, calc, nlsaList, restarts>>

-----------------------------------------------------------------------------
(* The interface. *)

Role(r, d, b) == IF d = r THEN "DR" ELSE IF b = r THEN "BACKUP" ELSE "DROTHER"

\* The second half of calcDR, and the rest of the event's handler: only
\* BACKUPSEEN leaves WAITING.  A DR that is replaced queues a network LSA.
\* (The router LSA that is queued as well, and read back by lsaGenerate, is
\* the module Adjacency's.)
setDR(r, t) ==
  LET c == calc[r][t]
      st == IF c.event = "backupSeen" THEN Role(r, c.dr, c.bdr) ELSE itState[r]
  IN
    /\ Running(r)
    /\ c # NoResult
    /\ dr' = [dr EXCEPT ![r] = c.dr]
    /\ bdr' = [bdr EXCEPT ![r] = c.bdr]
    /\ itState' = [itState EXCEPT ![r] = st]
    /\ IF dr[r] = r /\ c.dr # r
       THEN nlsaList[r] < MaxNlsas /\ nlsaList' = [nlsaList EXCEPT ![r] = @ + 1]
       ELSE UNCHANGED nlsaList
    /\ calc' = [calc EXCEPT ![r][t] = NoResult]
    /\ recv' = IF t = "recv" THEN [recv EXCEPT ![r] = NextField(@)] ELSE recv
    /\ UNCHANGED <<fault, hearing, timer, restarts>>

\* Mutant of waitTimer: the timer leaves WAITING.
waitTimerLeaves(r) ==
  /\ Running(r)
  /\ timer[r]
  /\ Prompt => \A s \in Local \ {r} : Running(s) => twoWay[<<r, s>>]
  /\ timer' = [timer EXCEPT ![r] = FALSE]
  /\ itState' = [itState EXCEPT ![r] = "DROTHER"]
  /\ IF itState[r] = "WAITING" THEN Elect(r, "wait", "waitTimer") ELSE UNCHANGED <<fault, calc>>
  /\ UNCHANGED <<dr, bdr, hearing, recv, nlsaList, restarts>>

\* Forty seconds after the start; the state stays WAITING.  Hellos are sent
\* every ten seconds: unless some are lost, all neighbours are two-way by now.
waitTimer(r) ==
  /\ Running(r)
  /\ timer[r]
  /\ Prompt => \A s \in Local \ {r} : Running(s) => twoWay[<<r, s>>]
  /\ timer' = [timer EXCEPT ![r] = FALSE]
  /\ IF itState[r] = "WAITING" THEN Elect(r, "wait", "waitTimer") ELSE UNCHANGED <<fault, calc>>
  /\ UNCHANGED <<opinion, hearing, recv, nlsaList, restarts>>

\* A late router is started.
Start(r) ==
  /\ fault[r] = "off"
  /\ \A s \in Local \ Late : ~timer[s] /\ calc[s]["wait"] = NoResult
  /\ fault' = [fault EXCEPT ![r] = "none"]
  /\ UNCHANGED <<opinion, hearing, timer, recv, calc, nlsaList, restarts>>

\* The process ends, whatever it was doing, and is started again.
Restart(r) ==
  /\ restarts < MaxRestarts
  /\ restarts' = restarts + 1
  /\ fault' = [fault EXCEPT ![r] = "none"]
  /\ itState' = [itState EXCEPT ![r] = "WAITING"]
  /\ dr' = [dr EXCEPT ![r] = Nobody]
  /\ bdr' = [bdr EXCEPT ![r] = Nobody]
  /\ nbrList' = [nbrList EXCEPT ![r] = << >>]
  /\ twoWay' = [l \in Link |-> twoWay[l] /\ l[1] # r]
  /\ claim' = [l \in Link |-> IF l[1] = r THEN NoClaim ELSE claim[l]]
  /\ timer' = [timer EXCEPT ![r] = TRUE]
  /\ recv' = [recv EXCEPT ![r] = NoHello]
  /\ calc' = [calc EXCEPT ![r] = [t \in Thread |-> NoResult]]
  /\ nlsaList' = [nlsaList EXCEPT ![r] = 0]

Hello(l) == \E before \in Before(l[1], l[2]) : recvHello(l[1], l[2], before)

Next ==
  \/ \E l \in Link : Hello(l) \/ recvDD(l[1], l[2])
  \/ \E r \in Local : checkClaim(r) \/ waitTimer(r)
  \/ \E r \in Local, t \in Thread : setDR(r, t)
  \/ \E r \in Late : Start(r)
  \/ \E r \in Restarting : Restart(r)

Spec == Init /\ [][Next]_vars

\* Hellos are sent for ever and get through, and threads are scheduled.
Fairness ==
  /\ \A l \in Link : SF_vars(Hello(l))
  /\ \A r \in Local : WF_vars(checkClaim(r)) /\ WF_vars(waitTimer(r)) /\ WF_vars(Start(r))
  /\ \A r \in Local, t \in Thread : WF_vars(setDR(r, t))

FairSpec == Spec /\ Fairness

-----------------------------------------------------------------------------
(* Properties. *)

TypeOK ==
  /\ fault \in [Local -> {"none", "off", "no_bdr"}]
  /\ itState \in [Local -> ItState]
  /\ dr \in [Local -> Address] /\ bdr \in [Local -> Address]
  /\ nbrList \in [Local -> Seq(Local)]
  /\ twoWay \in [Link -> BOOLEAN]
  /\ claim \in [Link -> Claim]
  /\ timer \in [Local -> BOOLEAN]
  /\ recv \in [Local -> [field : {"dr", "bdr"}, from : Local, before : Claim] \cup {NoHello}]
  /\ calc \in [Local -> [Thread -> [event : {"backupSeen", "nbrChange", "waitTimer"},
                                    dr : Local, bdr : Local] \cup {NoResult}]]
  /\ nlsaList \in [Local -> 0..MaxNlsas]
  /\ restarts \in 0..MaxRestarts

\* The DR is the router itself or one of its neighbours, once it has left
\* WAITING: generateRouterLSA reads the state of getNbrByIp(dr) without asking
\* whether there is one (LSAManager.cpp:81), and waitTimer's half-done election
\* may be written at any time after that of the receive thread.  That line reads dr
\* twice, and also needs it not to become the router itself in between, which is
\* about the two threads of Origination.
DrIsKnown == \A r \in Local : itState[r] # "WAITING" => dr[r] \in Known(r) \cup {r}

\* calcDR runs out of candidates for the backup only when this router has
\* elected itself and a neighbour that it hears claims the same
\* (Interface.cpp:64-91, 123): a router alone on its LAN never gets there.
\* (Once a neighbour has been restarted its old claims are gone.)
CrashMeansSplit ==
  restarts = 0 => \A r \in Local : fault[r] = "no_bdr" =>
    dr[r] = r /\ \E s \in Local \ {r} : twoWay[<<r, s>>] /\ claim[<<r, s>>].dr = s

\* A router that joins a LAN which has its DR never leaves calcDR without
\* candidates (Interface.cpp:64-91, 123).
NoElectionCrash == \A r \in Local : fault[r] # "no_bdr"

\* Of two routers that hear each other at most one has elected itself.
OneDr ==
  \A l \in Link :
    twoWay[l] /\ twoWay[<<l[2], l[1]>>] => ~(dr[l[1]] = l[1] /\ dr[l[2]] = l[2])

\* In the end all routers name the same DR, for ever: the events BACKUPSEEN and
\* NEIGHBORCHANGE are enough, although a claim that came with a one-way hello
\* raises neither when the two-way hello repeats it (PacketManager.cpp:216-238).
Settles == <>[](\A r, s \in Local : dr[r] = dr[s] /\ dr[r] # Nobody)

\* "change of DR should invoke generation of Network LSA" (Interface.cpp:183):
\* whenever one elected router takes the place of another, a network LSA is
\* queued.
ChangeGenerates ==
  [][\A r \in Local :
       dr[r] # dr'[r] /\ Nobody \notin {dr[r], dr'[r]} => nlsaList'[r] # nlsaList[r]]_vars
=============================================================================
