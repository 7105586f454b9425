------------------------------ MODULE Auction ------------------------------
(***************************************************************************)
(* The auction contract, auction/contract.go, on top of the ticket         *)
(* contract it calls.  At most one auction is held at a time and all of it *)
(* is in five storage keys.  A call that panics is rolled back by the Neo  *)
(* VM, the calls it made included, so an action is enabled exactly when    *)
(* the call returns.                                                       *)
(*                                                                         *)
(* Start, MakeBet and Finish take an account as an argument and ask for no *)
(* signature of it: anybody can pass any account, one at which a contract  *)
(* is deployed too.  (The client passes its own, but README.md:152 calls   *)
(* the contracts from a console.)  Only the nested transfer looks at       *)
(* witnesses, who are the signer, with scope Global, and the auction       *)
(* contract, which makes the call.  nft.auc is taken to resolve to the     *)
(* ticket contract.                                                        *)
(***************************************************************************)
EXTENDS NFT

CONSTANTS
  Bets,  \* the integers that are passed as a bet
  House  \* the account of the auction contract itself

ASSUME AuctionAssumption == Bets \subseteq Int /\ House \in Contracts

VARIABLES
  organizer,       \* organizerKey, NULL when there is no auction
  lot,             \* lotKey: the ticket on sale
  initBet,         \* initBetKey
  currentBet,      \* currentBetKey
  potentialWinner  \* potentialWinnerKey: owner of the last bet

auctionVars == <<organizer, lot, initBet, currentBet, potentialWinner>>
vars == <<nftVars, auctionVars>>

Init ==
  /\ NFTInit
  /\ organizer = NULL
  /\ lot = NULL
  /\ initBet = NULL
  /\ currentBet = NULL
  /\ potentialWinner = NULL
-----------------------------------------------------------------------------
\* Mutant of CanStart: a running auction does not stop it.
StartWhileRunning(a, t, b) == b >= 0 /\ nftExists(t) /\ owner[t] = a

\* Mutant of CanStart: the owner of the lot is not asked for.
StartUnowned(a, t, b) == organizer = NULL /\ b >= 0

\* Mutant of CanStart: any initial bet will do.
StartNegative(a, t, b) == organizer = NULL /\ nftExists(t) /\ owner[t] = a

CanStart(a, t, b) ==
  /\ organizer = NULL
  /\ b >= 0
  /\ nftExists(t)
  /\ owner[t] = a

\* Start leaves potentialWinnerKey as it finds it.
Start(a, t, b) ==
  /\ CanStart(a, t, b)
  /\ organizer' = a
  /\ lot' = t
  /\ initBet' = b
  /\ currentBet' = b
  /\ UNCHANGED <<potentialWinner, nftVars>>

\* Mutant of CanMakeBet: the current bet can be repeated.
BetMayEqual(a, b) == organizer # NULL /\ a # organizer /\ b >= currentBet

\* Mutant of CanMakeBet: compared with the wrong key.
BetAboveInitial(a, b) == organizer # NULL /\ a # organizer /\ b > initBet

\* Mutant of CanMakeBet: the organizer can bid.
BetByAnyone(a, b) == organizer # NULL /\ b > currentBet

CanMakeBet(a, b) ==
  /\ organizer # NULL
  /\ a # organizer
  /\ b > currentBet

\* Mutant of MakeBet: the new bet is not stored.
MakeBetKeepsPrice(a, b) ==
  /\ CanMakeBet(a, b)
  /\ potentialWinner' = a
  /\ UNCHANGED <<organizer, lot, initBet, currentBet, nftVars>>

MakeBet(a, b) ==
  /\ CanMakeBet(a, b)
  /\ currentBet' = b
  /\ potentialWinner' = a
  /\ UNCHANGED <<organizer, lot, initBet, nftVars>>

\* Mutant of Winner: the leader is not looked at.
WinnerIsOrganizer == organizer

\* Who Finish sends the lot to.
Winner == IF potentialWinner = NULL THEN organizer ELSE potentialWinner

\* Mutant of clearStorage: one key is forgotten.
ClearKeepsWinner ==
  /\ organizer' = NULL
  /\ lot' = NULL
  /\ initBet' = NULL
  /\ currentBet' = NULL
  /\ UNCHANGED potentialWinner

clearStorage ==
  /\ organizer' = NULL
  /\ lot' = NULL
  /\ initBet' = NULL
  /\ currentBet' = NULL
  /\ potentialWinner' = NULL

\* Whose consent the nested transfer takes for given when w has signed.
Witnesses(w) == {w, House}

\* Finish called with the account a by w, who need not be a.  A panic of the
\* nested transfer is a panic of Finish.
CanFinish(w, a) ==
  /\ lot # NULL
  /\ organizer = a
  /\ CanTransfer(Witnesses(w), Winner, lot)

\* Finish does not look at what transfer returns.
Finish(w, a) ==
  /\ CanFinish(w, a)
  /\ Transfer(Witnesses(w), Winner, lot)
  /\ clearStorage
-----------------------------------------------------------------------------
\* Calls of the ticket contract that do not come from the auction.
TicketCall ==
  /\ \E w \in (Accounts \ {House}) \cup {Admin} : NFTCall(w)
  /\ UNCHANGED auctionVars

Next ==
  \/ \E a \in Accounts, t \in Tickets, b \in Bets : Start(a, t, b)
  \/ \E a \in Accounts, b \in Bets : MakeBet(a, b)
  \/ \E w \in Users, a \in Accounts : Finish(w, a)
  \/ TicketCall

Spec == Init /\ [][Next]_vars
-----------------------------------------------------------------------------
Running == organizer # NULL

\* Every stored value has its type; a stored bet is never negative.
AuctionTypeOK ==
  /\ organizer \in Accounts \cup {NULL}
  /\ lot \in Tickets \cup {NULL}
  /\ initBet \in Nat \cup {NULL}
  /\ currentBet \in Nat \cup {NULL}
  /\ potentialWinner \in Accounts \cup {NULL}

\* The keys of an auction are written by two methods and deleted one by one
\* by a third: they are all there while an auction runs and none is left
\* after it.  Start does not reset the last winner, so it depends on this.
NoLeftovers ==
  IF Running THEN NULL \notin {lot, initBet, currentBet}
             ELSE {lot, initBet, currentBet, potentialWinner} = {NULL}

\* A leader is somebody else than the organizer and leads with a bet above the
\* initial one; without a leader the price is still the initial one.
LeaderPaysMore ==
  Running => IF potentialWinner = NULL
               THEN currentBet = initBet
               ELSE potentialWinner # organizer /\ currentBet > initBet

\* An auction that has lost its way out blocks all others.  Whatever happens to
\* the tickets meanwhile, everybody can finish it, passing the organizer's
\* account, with one exception: when transfer does not return false, because who
\* signs holds the lot or the auction contract does, and the receiver is a
\* contract.  So a bet in a contract's name takes the way out from the holder of
\* the lot, but from others only if the lot was minted to the auction contract.
CanBeFinished ==
  Running =>
    \A w \in Users :
      CanFinish(w, organizer) <=>
        ~(owner[lot] \in Witnesses(w) /\ Winner \in Contracts)

\* While an auction runs the price only goes up, the leader changes only with
\* the price, and nobody changes the lot, the organizer or the initial bet.
BidsRise ==
  [][Running /\ Running' =>
       /\ UNCHANGED <<organizer, lot, initBet>>
       /\ \/ currentBet' > currentBet
          \/ UNCHANGED <<currentBet, potentialWinner>>]_vars

\* README.md:14: the winner of an auction really gets the lot.
WinnerGetsLot ==
  [][Running /\ ~Running' /\ potentialWinner # NULL =>
       owner'[lot] = potentialWinner]_vars
=============================================================================
