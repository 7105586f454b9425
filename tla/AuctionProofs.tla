--------------------------- MODULE AuctionProofs ---------------------------
(***************************************************************************)
(* Proofs about the auction contract.  The invariant of each module is the *)
(* one of the module below it and what its own variables add; a step of    *)
(* the ticket contract is covered by the lemmas of NFTProofs.              *)
(***************************************************************************)
EXTENDS Auction, NFTProofs

\* A lot was minted when its auction started and stays so: this is what Finish
\* needs of the ticket contract.
LotMinted == lot # NULL => nftExists(lot)

AuctionInv ==
  /\ NFTInv
  /\ AuctionTypeOK
  /\ NoLeftovers
  /\ LeaderPaysMore
  /\ LotMinted

LEMMA NullIsNoValue ==
  /\ \A h \in Accounts : h # NULL
  /\ Users \subseteq Accounts /\ House \in Accounts
  /\ \A t \in Tickets : t # NULL
  /\ \A n \in Int : n # NULL
BY NFTAssumption, AuctionAssumption DEF Accounts

LEMMA InitInv == Init => AuctionInv
BY InitNFT, NullIsNoValue
DEF Init, AuctionInv, AuctionTypeOK, NoLeftovers, LeaderPaysMore, LotMinted,
    Running

LEMMA StartInv ==
  ASSUME AuctionInv, NEW u \in Accounts, NEW t \in Tickets, NEW b \in Bets,
         Start(u, t, b)
  PROVE  AuctionInv'
<1>1. b \in Nat /\ b # NULL /\ u # NULL /\ t # NULL
  BY AuctionAssumption, NullIsNoValue DEF Start, CanStart
<1>2. potentialWinner = NULL
  BY DEF Start, CanStart, AuctionInv, NoLeftovers, Running
<1>3. NFTInv'
  BY StutterInv DEF Start, AuctionInv
<1>4. AuctionTypeOK'
  BY <1>1 DEF Start, AuctionInv, AuctionTypeOK
<1>5. NoLeftovers' /\ LeaderPaysMore'
  BY <1>1, <1>2 DEF Start, NoLeftovers, LeaderPaysMore, Running
<1>6. LotMinted'
  BY DEF Start, CanStart, LotMinted, nftExists, nftVars
<1>. QED  BY <1>3, <1>4, <1>5, <1>6 DEF AuctionInv

LEMMA MakeBetInv ==
  ASSUME AuctionInv, NEW u \in Accounts, NEW b \in Bets, MakeBet(u, b)
  PROVE  AuctionInv'
<1>. USE DEF AuctionInv
<1>1. organizer # NULL /\ u # NULL /\ u # organizer
  BY NullIsNoValue DEF MakeBet, CanMakeBet
<1>2. initBet \in Nat /\ currentBet \in Nat /\ b > currentBet
  BY <1>1 DEF MakeBet, CanMakeBet, NoLeftovers, AuctionTypeOK, Running
<1>3. currentBet >= initBet
  BY <1>1, <1>2 DEF LeaderPaysMore, Running
<1>4. b \in Nat /\ b # NULL
  BY <1>2, AuctionAssumption, NullIsNoValue
<1>5. NFTInv'
  BY StutterInv DEF MakeBet
<1>6. AuctionTypeOK'
  BY <1>4 DEF MakeBet, AuctionTypeOK
<1>7. NoLeftovers'
  BY <1>1, <1>4 DEF MakeBet, NoLeftovers, Running
<1>8. LeaderPaysMore'
  BY <1>1, <1>2, <1>3, <1>4 DEF MakeBet, LeaderPaysMore, Running
<1>9. LotMinted'
  BY DEF MakeBet, LotMinted, nftExists, nftVars
<1>. QED  BY <1>5, <1>6, <1>7, <1>8, <1>9

LEMMA FinishInv ==
  ASSUME AuctionInv, NEW w, NEW a, Finish(w, a)
  PROVE  AuctionInv'
<1>1. Winner \in Accounts /\ lot \in Tickets
  BY NullIsNoValue
  DEF Finish, CanFinish, AuctionInv, AuctionTypeOK, NoLeftovers, Running,
      Winner
<1>2. NFTInv'
  BY <1>1, TransferInv DEF Finish, AuctionInv
<1>. QED
  BY <1>2, NullIsNoValue
  DEF Finish, clearStorage, AuctionInv, AuctionTypeOK, NoLeftovers,
      LeaderPaysMore, LotMinted, Running

LEMMA TicketCallInv == AuctionInv /\ TicketCall => AuctionInv'
<1>. SUFFICES ASSUME AuctionInv, TicketCall PROVE AuctionInv'
  OBVIOUS
<1>. NFTNext
  BY DEF TicketCall, NFTNext
<1>1. NFTInv'
  BY NextInv DEF AuctionInv
<1>2. LotMinted'
  BY PersistStep
  DEF TicketCall, auctionVars, AuctionInv, NFTInv, AuctionTypeOK, LotMinted,
      Minted, nftExists
<1>. QED
  BY <1>1, <1>2
  DEF TicketCall, auctionVars, AuctionInv, AuctionTypeOK, NoLeftovers,
      LeaderPaysMore, Running

LEMMA AuctionNextInv == AuctionInv /\ [Next]_vars => AuctionInv'
<1>1. AuctionInv /\ UNCHANGED vars => AuctionInv'
  BY StutterInv
  DEF vars, auctionVars, nftVars, AuctionInv, AuctionTypeOK, NoLeftovers,
      LeaderPaysMore, LotMinted, Running, nftExists
<1>. QED
  BY <1>1, StartInv, MakeBetInv, FinishInv, TicketCallInv DEF Next

\* The lot exists, so the receiver is all that can make the transfer panic.
LEMMA InvCanBeFinished == AuctionInv => CanBeFinished
<1>. SUFFICES ASSUME AuctionInv, organizer # NULL, NEW w \in Users
              PROVE  CanFinish(w, organizer) <=>
                       ~(owner[lot] \in Witnesses(w) /\ Winner \in Contracts)
  BY DEF CanBeFinished, Running
<1>1. lot # NULL /\ nftExists(lot)
  BY DEF AuctionInv, NoLeftovers, Running, LotMinted
<1>. QED  BY <1>1 DEF CanFinish, CanTransfer

\* What is stored of an auction has its type and is stored completely or not
\* at all, its leader pays more than the initial bet, and nothing but a contract
\* that is to be given the lot keeps anybody from finishing it.
THEOREM AuctionSafety ==
  Spec => [](AuctionTypeOK /\ NoLeftovers /\ LeaderPaysMore /\ CanBeFinished)
<1>1. AuctionInv =>
        AuctionTypeOK /\ NoLeftovers /\ LeaderPaysMore /\ CanBeFinished
  BY InvCanBeFinished DEF AuctionInv
<1>. QED  BY <1>1, InitInv, AuctionNextInv, PTL DEF Spec

\* The tickets stay consistent when auctions move them.
THEOREM AuctionLedger == Spec => [](NFTTypeOK /\ LedgerAgrees)
<1>1. AuctionInv => NFTTypeOK /\ LedgerAgrees
  BY DEF AuctionInv, NFTInv
<1>. QED  BY <1>1, InitInv, AuctionNextInv, PTL DEF Spec

\* While an auction runs its price only rises and its terms are fixed.
THEOREM AuctionBidsRise == Spec => BidsRise
<1>. DEFINE Rise ==
       Running /\ Running' =>
         /\ UNCHANGED <<organizer, lot, initBet>>
         /\ \/ currentBet' > currentBet
            \/ UNCHANGED <<currentBet, potentialWinner>>
<1>1. AuctionInv /\ [Next]_vars => [Rise]_vars
  <2>. SUFFICES ASSUME AuctionInv, Next PROVE Rise
    OBVIOUS
  <2>1. ASSUME NEW u \in Accounts, NEW t \in Tickets, NEW b \in Bets,
               Start(u, t, b)
        PROVE  Rise
    BY <2>1 DEF Start, CanStart, Running
  <2>2. ASSUME NEW u \in Accounts, NEW b \in Bets, MakeBet(u, b) PROVE Rise
    BY <2>2 DEF MakeBet, CanMakeBet
  <2>3. ASSUME NEW w, NEW a, Finish(w, a) PROVE Rise
    BY <2>3 DEF Finish, clearStorage, Running
  <2>4. ASSUME TicketCall PROVE Rise
    BY <2>4 DEF TicketCall, auctionVars
  <2>. QED  BY <2>1, <2>2, <2>3, <2>4 DEF Next
<1>. QED  BY <1>1, InitInv, AuctionNextInv, PTL DEF Spec, BidsRise

\* To the ticket contract the auction is one more caller: each of its steps is
\* a call of one method, or none.  What Finish moves it moves with the consent of
\* the holder alone, be it the signer or the auction contract.
LEMMA AuctionStepIsTicketCall ==
  ASSUME AuctionInv, [Next]_vars
  PROVE  [NFTNext]_nftVars
<1>1. ASSUME NEW w \in Users, NEW a, Finish(w, a) PROVE NFTNext
  <2>1. Winner \in Accounts /\ lot \in Tickets
    BY <1>1, NullIsNoValue
    DEF Finish, CanFinish, AuctionInv, AuctionTypeOK, NoLeftovers, Running,
      Winner
  <2>2. Transfer(Witnesses(w), Winner, lot)
    BY <1>1 DEF Finish
  <2>3. PICK h \in Witnesses(w) :
          owner[lot] \in Witnesses(w) <=> owner[lot] \in {h}
    BY DEF Witnesses
  <2>4. Transfer({h}, Winner, lot)
    BY <2>2, <2>3 DEF Transfer, CanTransfer
  <2>5. h \in Accounts
    BY NullIsNoValue DEF Witnesses
  <2>. QED  BY <2>1, <2>4, <2>5 DEF NFTNext, NFTCall
<1>2. TicketCall => NFTNext
  BY DEF TicketCall, NFTNext
<1>. QED  BY <1>1, <1>2 DEF Next, Start, MakeBet, vars

\* The two contracts together implement the ticket contract alone.
THEOREM AuctionImplementsTickets == Spec => NFTSpec
<1>1. Init => NFTInit
  BY DEF Init
<1>. QED
  BY <1>1, InitInv, AuctionNextInv, AuctionStepIsTicketCall, PTL
  DEF Spec, NFTSpec

\* So no auction makes a ticket disappear or takes its address from it.
THEOREM AuctionPersistence == Spec => TicketsPersist
BY AuctionImplementsTickets, NFTPersistence, PTL
=============================================================================
