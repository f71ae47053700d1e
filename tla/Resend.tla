------------------------------- MODULE Resend -------------------------------
(***************************************************************************)
(* What PacketRetransmitter promises its callers, without vector, mutex or *)
(* threads: a packet registered with an interval of sec passes is sent on  *)
(* every sec-th pass after its registration, and never again once it has   *)
(* been cancelled.                                                         *)
(***************************************************************************)
EXTENDS Naturals

CONSTANTS
  Intervals,   \* the intervals callers ask for, in passes
  MaxPackets,  \* bound: registrations in one behaviour
  MaxPasses    \* bound: passes in one behaviour

VARIABLES
  passes,      \* passes begun so far
  issued,      \* packet numbers handed out: 0 .. issued-1
  live,        \* packet number -> [born, sec], for the packets registered
  sent         \* packet number -> transmissions so far, for every number issued

vars == <<passes, issued, live, sent>>

Init ==
  /\ passes = 0
  /\ issued = 0
  /\ live = << >>
  /\ sent = << >>

Register(sec) ==
  /\ issued < MaxPackets
  /\ issued' = issued + 1
  /\ live' = [n \in DOMAIN live \cup {issued} |->
                IF n = issued THEN [born |-> passes, sec |-> sec] ELSE live[n]]
  /\ sent' = [n \in 0..issued |-> IF n = issued THEN 0 ELSE sent[n]]
  /\ UNCHANGED passes

Cancel(n) ==
  /\ n \in DOMAIN live
  /\ live' = [k \in DOMAIN live \ {n} |-> live[k]]
  /\ UNCHANGED <<passes, issued, sent>>

\* Packet n is due on pass number p.
Due(n, p) == n \in DOMAIN live /\ (p - live[n].born) % live[n].sec = 0

Pass ==
  /\ passes < MaxPasses
  /\ passes' = passes + 1
  /\ sent' = [n \in DOMAIN sent |-> sent[n] + (IF Due(n, passes + 1) THEN 1 ELSE 0)]
  /\ UNCHANGED <<issued, live>>

Next ==
  \/ \E sec \in Intervals : Register(sec)
  \/ \E n \in DOMAIN live : Cancel(n)
  \/ Pass

Spec == Init /\ [][Next]_vars
=============================================================================
