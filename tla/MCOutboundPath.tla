--------------------------- MODULE MCOutboundPath ---------------------------
(***************************************************************************)
(* An instance of OutboundPath for TLC: all three nodes, and packets whose *)
(* sizes decide what becomes of them.                                      *)
(***************************************************************************)
EXTENDS OutboundPath

\* Shorter than the header, a message, one that is too long for sendto and
\* whose lengths wrap.
MCPackets == {[size |-> n, port |-> 2001] : n \in {3, 104, 65541}}

\* A queue of one and one with room for every packet.
MCDepth == [dispatcher |-> 2, sender |-> 1, converter |-> 2]
=============================================================================
