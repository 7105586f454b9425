-------------------------- MODULE MCAuctionSystem --------------------------
(***************************************************************************)
(* 200 and 300 are bets the backend can decode, 100 is one it cannot.      *)
(* Two clients race for tickets and starts, looking at the tickets from    *)
(* different ends.  With a third one, two of them are rivals in an auction *)
(* of the other one's ticket; there all clients look at the tickets in the *)
(* same order, so that they can be exchanged for one another.              *)
(***************************************************************************)
EXTENDS AuctionSystem, TLC

CONSTANTS u1, u2, u3, t1, t2

MCOrder == [u \in Users |-> IF u = u1 THEN <<t1, t2>> ELSE <<t2, t1>>]
MCSameOrder == [u \in Users |-> <<t1, t2>>]
MCExchange == Permutations(Users)
=============================================================================
