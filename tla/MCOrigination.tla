--------------------------- MODULE MCOrigination ----------------------------
(***************************************************************************)
(* Addresses for the runs of Origination: those of main.cpp and its        *)
(* neighbours.                                                             *)
(***************************************************************************)
EXTENDS Origination

Address(n) == <<192, 168, 2, n>>

\* The LSA of 103 with a link to 104 is one whose checksum is wrong.
MCSelf == Address(103)
MCPeers == {Address(104)}
MCEarlier == {MCSelf}
=============================================================================
