--------------------------- MODULE AuctionHistory ---------------------------
(***************************************************************************)
(* The contracts keep the last bet only.  This module adds a variable the  *)
(* code does not have, the set of all bets accepted in the running         *)
(* auction, and relates the contracts to EnglishAuction with it.           *)
(***************************************************************************)
EXTENDS Auction

\* NULL can stand for the absence of a sale.
ASSUME HistoryAssumption ==
  NULL \notin [seller : Accounts, item : Tickets, floor : Int,
              bids : SUBSET [bidder : Accounts, price : Int]]

VARIABLE bids  \* [bidder, price] records, one per accepted MakeBet

HInit == Init /\ bids = {}

HStart(a, t, b) == Start(a, t, b) /\ bids' = {}

HMakeBet(a, b) ==
  MakeBet(a, b) /\ bids' = bids \cup {[bidder |-> a, price |-> b]}

HFinish(w, a) == Finish(w, a) /\ bids' = {}

HTicketCall == TicketCall /\ UNCHANGED bids

HNext ==
  \/ \E a \in Accounts, t \in Tickets, b \in Bets : HStart(a, t, b)
  \/ \E a \in Accounts, b \in Bets : HMakeBet(a, b)
  \/ \E w \in Users, a \in Accounts : HFinish(w, a)
  \/ HTicketCall

hvars == <<vars, bids>>

HSpec == HInit /\ [][HNext]_hvars
-----------------------------------------------------------------------------
\* The last bet is the highest one: what is stored as the leader and the price
\* is the maximum of all that was bid, and no bid means no leader.
LeaderIsHighest ==
  IF potentialWinner = NULL
    THEN bids = {}
    ELSE /\ [bidder |-> potentialWinner, price |-> currentBet] \in bids
         /\ \A b \in bids : b.price <= currentBet

Sale ==
  IF Running THEN [seller |-> organizer, item |-> lot,
                   floor |-> initBet, bids |-> bids]
             ELSE NULL

EA == INSTANCE EnglishAuction WITH
        Parties <- Accounts, Receivers <- Users, Agent <- House,
        Items <- Tickets, Prices <- Bets, Nobody <- NULL, NoSale <- NULL,
        holder <- owner, sale <- Sale

\* The contracts hold an English auction: one sale at a time, rising bids, and
\* the lot, if it is handed over, handed to whoever made the highest of them,
\* by nobody but its holder or the auction contract.
EnglishAuctionSpec == EA!Spec
=============================================================================
