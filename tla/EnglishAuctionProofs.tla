------------------------ MODULE EnglishAuctionProofs ------------------------
(***************************************************************************)
(* The contracts implement EnglishAuction.  The stored leader and price    *)
(* are the maximum of the bets made, so the winner Finish computes from    *)
(* them is a winner EnglishAuction accepts; every other step maps to one   *)
(* step of it or to none.                                                  *)
(***************************************************************************)
EXTENDS AuctionHistory, AuctionProofs

BidsTyped == bids \subseteq [bidder : Accounts, price : Nat]

HInv == AuctionInv /\ BidsTyped /\ LeaderIsHighest

LEMMA HInitInv == HInit => HInv
BY InitInv DEF HInit, HInv, Init, BidsTyped, LeaderIsHighest

LEMMA HNextInv == HInv /\ [HNext]_hvars => HInv'
<1>. SUFFICES ASSUME HInv, [HNext]_hvars PROVE HInv'
  OBVIOUS
<1>. USE DEF HInv
<1>1. AuctionInv'
  BY AuctionNextInv
  DEF HNext, HStart, HMakeBet, HFinish, HTicketCall, hvars, Next
<1>2. ASSUME NEW u \in Accounts, NEW t \in Tickets, NEW b \in Bets,
             HStart(u, t, b)
      PROVE  BidsTyped' /\ LeaderIsHighest'
  <2>1. potentialWinner = NULL
    BY <1>2 DEF HStart, Start, CanStart, AuctionInv, NoLeftovers, Running
  <2>. QED
    BY <1>2, <2>1 DEF HStart, Start, BidsTyped, LeaderIsHighest
<1>3. ASSUME NEW u \in Accounts, NEW b \in Bets, HMakeBet(u, b)
      PROVE  BidsTyped' /\ LeaderIsHighest'
  <2>1. b \in Nat /\ currentBet \in Nat /\ b > currentBet /\ u # NULL
    <3>1. currentBet \in Nat /\ b > currentBet
      BY <1>3
      DEF HMakeBet, MakeBet, CanMakeBet, AuctionInv, AuctionTypeOK,
          NoLeftovers, Running
    <3>. QED  BY <3>1, AuctionAssumption, NullIsNoValue
  <2>2. \A c \in bids : c.price \in Nat /\ c.price <= b
    <3>. SUFFICES ASSUME NEW c \in bids PROVE c.price \in Nat /\ c.price <= b
      OBVIOUS
    <3>1. c.price \in Nat
      BY DEF BidsTyped
    <3>2. c.price <= currentBet
      BY DEF LeaderIsHighest
    <3>. QED  BY <2>1, <3>1, <3>2
  <2>3. /\ bids' = bids \cup {[bidder |-> u, price |-> b]}
        /\ potentialWinner' = u /\ currentBet' = b
    BY <1>3 DEF HMakeBet, MakeBet
  <2>. QED  BY <2>1, <2>2, <2>3 DEF BidsTyped, LeaderIsHighest
<1>4. ASSUME NEW w, NEW a, HFinish(w, a) PROVE BidsTyped' /\ LeaderIsHighest'
  BY <1>4 DEF HFinish, Finish, clearStorage, BidsTyped, LeaderIsHighest
<1>5. CASE HTicketCall
  BY <1>1, <1>5
  DEF HTicketCall, TicketCall, auctionVars, BidsTyped, LeaderIsHighest
<1>6. CASE UNCHANGED hvars
  BY <1>1, <1>6 DEF hvars, vars, auctionVars, BidsTyped, LeaderIsHighest
<1>. QED  BY <1>1, <1>2, <1>3, <1>4, <1>5, <1>6 DEF HNext

\* Of the bets made in an auction the contract has kept the highest one.
THEOREM HighestBidLeads == HSpec => []LeaderIsHighest
<1>1. HInv => LeaderIsHighest
  BY DEF HInv
<1>. QED  BY <1>1, HInitInv, HNextInv, PTL DEF HSpec
-----------------------------------------------------------------------------
LEMMA SaleOpen ==
  ASSUME HInv, Running
  PROVE  /\ Sale # NULL
         /\ Sale = [seller |-> organizer, item |-> lot,
                    floor |-> initBet, bids |-> bids]
<1>1. organizer \in Accounts /\ lot \in Tickets /\ initBet \in Int
  BY DEF HInv, AuctionInv, AuctionTypeOK, NoLeftovers, Running
<1>2. bids \in SUBSET [bidder : Accounts, price : Int]
  BY DEF HInv, BidsTyped
<1>. QED  BY <1>1, <1>2, HistoryAssumption DEF Sale

LEMMA StartOpens ==
  ASSUME HInv, HInv', NEW u \in Accounts, NEW t \in Tickets, NEW b \in Bets,
         HStart(u, t, b)
  PROVE  EA!Open(u, t, b)
BY NullIsNoValue
DEF HStart, Start, CanStart, nftVars, Sale, Running, EA!Open

LEMMA MakeBetBids ==
  ASSUME HInv, NEW u \in Accounts, NEW b \in Bets, HMakeBet(u, b)
  PROVE  EA!Bid(u, b)
<1>1. Running /\ Running' /\ u # organizer /\ b > currentBet
  BY DEF HMakeBet, MakeBet, CanMakeBet, Running
<1>2. initBet \in Nat /\ currentBet \in Nat /\ currentBet >= initBet
  BY <1>1
  DEF HInv, AuctionInv, AuctionTypeOK, NoLeftovers, LeaderPaysMore, Running
<1>3. b \in Int /\ b > initBet
  BY <1>1, <1>2, AuctionAssumption
<1>4. \A c \in bids : b > c.price
  <2>. SUFFICES ASSUME NEW c \in bids PROVE b > c.price
    OBVIOUS
  <2>1. c.price \in Nat
    BY DEF HInv, BidsTyped
  <2>2. c.price <= currentBet
    BY DEF HInv, LeaderIsHighest
  <2>. QED  BY <1>1, <1>2, <1>3, <2>1, <2>2
<1>5. Sale' = [Sale EXCEPT !.bids = @ \cup {[bidder |-> u, price |-> b]}]
  BY <1>1 DEF HMakeBet, MakeBet, Sale
<1>6. UNCHANGED owner
  BY DEF HMakeBet, MakeBet, nftVars
<1>7. /\ Sale # NULL
      /\ Sale.seller = organizer /\ Sale.floor = initBet /\ Sale.bids = bids
  BY <1>1, SaleOpen
<1>. QED  BY <1>1, <1>3, <1>4, <1>5, <1>6, <1>7 DEF EA!Bid

LEMMA FinishCloses ==
  ASSUME HInv, NEW w \in Users, NEW a \in Accounts, HFinish(w, a)
  PROVE  EA!Close(w, Winner) /\ Winner \in Accounts
<1>1. Running /\ lot \in Tickets /\ owner[lot] # NULL
  BY NullIsNoValue
  DEF HFinish, Finish, CanFinish, CanTransfer, nftExists, HInv, AuctionInv,
      AuctionTypeOK, Running
<1>2. /\ Sale # NULL
      /\ Sale.seller = organizer /\ Sale.item = lot /\ Sale.bids = bids
  BY <1>1, SaleOpen
<1>3. Winner \in Accounts
  BY <1>1 DEF HInv, AuctionInv, AuctionTypeOK, Winner, Running
<1>4. EA!Wins(Winner)
  <2>1. CASE potentialWinner = NULL
    BY <1>2, <2>1 DEF HInv, LeaderIsHighest, Winner, EA!Wins
  <2>2. CASE potentialWinner # NULL
    <3>. DEFINE best == [bidder |-> potentialWinner, price |-> currentBet]
    <3>1. best \in bids /\ \A c \in bids : c.price <= best.price
      BY <2>2 DEF HInv, LeaderIsHighest
    <3>2. best.bidder = Winner
      BY <2>2 DEF Winner
    <3>. QED  BY <1>2, <3>1, <3>2 DEF EA!Wins
  <2>. QED  BY <2>1, <2>2
<1>5. IF owner[lot] \in {w, House}
        THEN Winner \in Users /\ owner' = [owner EXCEPT ![lot] = Winner]
        ELSE UNCHANGED owner
  <2>1. owner \in [Tickets -> Accounts \cup {NULL}]
    BY DEF HInv, AuctionInv, NFTInv, NFTTypeOK
  <2>2. owner[lot] \in {w, House} => Winner \in Users
    BY <1>3 DEF HFinish, Finish, CanFinish, CanTransfer, Witnesses, Accounts
  <2>3. CASE owner[lot] \in {w, House} /\ owner[lot] # Winner
    BY <2>2, <2>3 DEF HFinish, Finish, Transfer, Move, Witnesses
  <2>4. CASE ~(owner[lot] \in {w, House} /\ owner[lot] # Winner)
    BY <1>1, <2>1, <2>2, <2>4 DEF HFinish, Finish, Transfer, Witnesses
  <2>. QED  BY <2>3, <2>4
<1>6. Sale' = NULL
  BY DEF HFinish, Finish, clearStorage, Sale, Running
<1>. QED  BY <1>2, <1>3, <1>4, <1>5, <1>6 DEF EA!Close

LEMMA TicketCallMaps ==
  ASSUME HInv, HTicketCall
  PROVE  [EA!Next]_<<owner, Sale>>
<1>1. UNCHANGED Sale
  BY DEF HTicketCall, TicketCall, auctionVars, Sale, Running
<1>2. ASSUME NEW h \in Accounts, NEW t \in Tickets, Mint(h, t)
      PROVE  EA!Next
  <2>1. EA!Issue(h, t)
    BY <1>1, <1>2 DEF Mint, CanMint, nftExists, EA!Issue
  <2>. QED  BY <2>1 DEF EA!Next
<1>3. ASSUME NEW w, NEW to \in Accounts, NEW t \in Tickets,
             Transfer({w}, to, t)
      PROVE  EA!Next \/ UNCHANGED owner
  <2>1. CASE owner[t] = w /\ owner[t] # to
    <3>1. to \in Users
      BY <1>3, <2>1 DEF Transfer, CanTransfer, Accounts
    <3>2. EA!Give(to, t)
      BY <1>1, <1>3, <2>1
      DEF Transfer, CanTransfer, nftExists, Move, EA!Give
    <3>. QED  BY <3>1, <3>2 DEF EA!Next
  <2>2. CASE ~(owner[t] = w /\ owner[t] # to)
    BY <1>3, <2>2 DEF Transfer
  <2>. QED  BY <2>1, <2>2
<1>4. ASSUME NEW w, NEW t \in Tickets, NEW a \in Addresses,
             SetAddress({w}, t, a)
      PROVE  UNCHANGED owner
  BY <1>4 DEF SetAddress
<1>. QED
  BY <1>1, <1>2, <1>3, <1>4 DEF HTicketCall, TicketCall, NFTCall

\* The contracts hold an English auction: every behaviour of theirs is one of
\* EnglishAuction, with the items of the tickets as holders and the storage of
\* the auction, together with the bets made, as the sale.
THEOREM ImplementsEnglishAuction == HSpec => EnglishAuctionSpec
<1>1. HInit => EA!Init
  BY DEF HInit, Init, NFTInit, Sale, Running, EA!Init
<1>2. HInv /\ HInv' /\ [HNext]_hvars => [EA!Next]_<<owner, Sale>>
  <2>. SUFFICES ASSUME HInv, HInv', [HNext]_hvars
                PROVE  [EA!Next]_<<owner, Sale>>
    OBVIOUS
  <2>1. ASSUME NEW u \in Accounts, NEW t \in Tickets, NEW b \in Bets,
               HStart(u, t, b)
        PROVE  EA!Next
    BY <2>1, StartOpens, NullIsNoValue DEF EA!Next
  <2>2. ASSUME NEW u \in Accounts, NEW b \in Bets, HMakeBet(u, b)
        PROVE  EA!Next
    BY <2>2, MakeBetBids, NullIsNoValue DEF EA!Next
  <2>3. ASSUME NEW w \in Users, NEW a \in Accounts, HFinish(w, a)
        PROVE  EA!Next
    BY <2>3, FinishCloses, NullIsNoValue DEF EA!Next
  <2>4. CASE HTicketCall
    BY <2>4, TicketCallMaps
  <2>5. CASE UNCHANGED hvars
    BY <2>5 DEF hvars, vars, nftVars, auctionVars, Sale, Running
  <2>. QED  BY <2>1, <2>2, <2>3, <2>4, <2>5 DEF HNext
<1>. QED
  BY <1>1, <1>2, HInitInv, HNextInv, PTL DEF HSpec, EnglishAuctionSpec, EA!Spec
=============================================================================
