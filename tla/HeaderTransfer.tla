--------------------------- MODULE HeaderTransfer ---------------------------
(***************************************************************************)
(* What the DD exchange promises in one direction: a router offers the     *)
(* headers of its database, and its neighbour hears them in order, none    *)
(* left out.  There are no packets here, no numbers and no roles.  One     *)
(* thing may go wrong: once the router has sent a DD it did not mean to    *)
(* send, a header may be passed over.                                      *)
(***************************************************************************)
EXTENDS Sequences

VARIABLES
  database, \* the router's database; it changes as it likes
  offered,  \* whether the router has listed its database
  rest,     \* the headers that the neighbour has not heard yet, in order
  heard,    \* those it has heard
  stray     \* whether a DD was sent that was not meant to be

vars == <<offered, rest, heard, stray>>

Init ==
  /\ offered = FALSE
  /\ rest = << >>
  /\ heard = {}
  /\ stray = FALSE

Offer ==
  /\ ~offered
  /\ offered' = TRUE
  /\ rest' = database
  /\ UNCHANGED <<heard, stray>>

Hear ==
  /\ rest # << >>
  /\ rest' = Tail(rest)
  /\ heard' = heard \cup {Head(rest)}
  /\ UNCHANGED <<offered, stray>>

Stray ==
  /\ stray' = TRUE
  /\ UNCHANGED <<offered, rest, heard>>

PassOver ==
  /\ stray
  /\ rest # << >>
  /\ rest' = Tail(rest)
  /\ UNCHANGED <<offered, heard, stray>>

Next == Offer \/ Hear \/ Stray \/ PassOver

Spec == Init /\ [][Next]_vars
=============================================================================
