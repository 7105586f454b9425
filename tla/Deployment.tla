----------------------------- MODULE Deployment -----------------------------
(***************************************************************************)
(* How the contracts are deployed under the names auc.auc and nft.auc, kept*)
(* there, and found again: _deploy of both contracts, the commands of      *)
(* nns/terminal.sh, and the auction contract, which asks the name service  *)
(* for nft.auc whenever an auction is started or finished.  Composes NNS   *)
(* with Auction: any of several ticket contracts can be the one that the   *)
(* name stands for.                                                        *)
(*                                                                         *)
(* The names belong to the wallet of the committee, NfgHww..., which both  *)
(* _deploy methods name as the owner.  Names, lease and renewal are those  *)
(* of the code: a lease lasts a year from the registration.                *)
(***************************************************************************)
EXTENDS Integers, FiniteSets, Sequences

CONSTANTS
  Users,            \* wallets
  Tickets,          \* names of tickets: the same one can exist in each contract
  Bets,             \* the bets they make
  TicketContracts,  \* successive deployments of the ticket contract
  House,            \* the auction contract
  Committee,        \* the wallet that deploys
  MaxTime, MaxLease, MaxSupply, MaxRecords,  \* the bounds of NNS
  NULL

auc == <<"auc">>
nftAuc == <<"nft", "auc">>
aucAuc == <<"auc", "auc">>

Contracts == TicketContracts \cup {House}
Accounts == Users \cup Contracts

ASSUME DeploymentAssumption ==
  /\ IsFiniteSet(Tickets)
  /\ House \notin TicketContracts
  /\ NULL \notin Accounts \cup Tickets \cup Int \cup {Committee}
  /\ NULL \notin Seq(Contracts \cup {aucAuc})
  /\ Users \cap Contracts = {}
  /\ aucAuc \notin Contracts
  /\ Bets \subseteq Int
  /\ {MaxTime, MaxLease, MaxSupply, MaxRecords} \subseteq Nat

VARIABLES
  now, nameOwner, nameAdmin, expiration, roots, subdomains, autoCreated,
  domains, domainTokens, supply, records,  \* the name service, as in NNS
  organizer, lot, initBet, currentBet, potentialWinner,  \* as in Auction
  deployed,  \* the contracts deployed so far
  tickets,   \* NFTItem.Owner in each ticket contract
  saleAt,    \* not in the code: where the running auction found its lot
  rewritten  \* not in the code: a hash was written for nft.auc since then

Dns == INSTANCE NNS WITH
  Holders <- {Committee}, Signers <- {{Committee}},
  Labels <- {"auc", "nft"}, Names <- {auc, nftAuc, aucAuc},
  Texts <- Contracts, Aliases <- {aucAuc},
  Year <- 1, Lifetimes <- {1}

HeldIn(c, h) == {t \in Tickets : tickets[c][t] = h}

\* The auction contract on the ticket contract c.  The counts and lists of the
\* ticket contract follow from its items (LedgerAgrees); addresses of objects
\* do not matter here.
Sale(c) == INSTANCE Auction WITH
  Admin <- Committee, Addresses <- {},
  owner <- tickets[c], address <- [t \in Tickets |-> NULL],
  balance <- [h \in Accounts |-> Cardinality(HeldIn(c, h))],
  accountTokens <- [h \in Accounts |-> HeldIn(c, h)],
  totalSupply <- Cardinality(Tickets \ HeldIn(c, NULL))

auctionVars == <<organizer, lot, initBet, currentBet, potentialWinner>>
nameVars == <<nameOwner, nameAdmin, expiration, roots, subdomains,
              autoCreated, domains, domainTokens, supply>>
nnsVars == <<now, nameVars, records>>
saleVars == <<saleAt, rewritten>>
vars == <<nnsVars, auctionVars, deployed, tickets, saleVars>>

\* Nothing is deployed but the name service.
Init ==
  /\ Dns!NNSInit
  /\ organizer = NULL
  /\ lot = NULL
  /\ initBet = NULL
  /\ currentBet = NULL
  /\ potentialWinner = NULL
  /\ deployed = {}
  /\ tickets = [c \in TicketContracts |-> [t \in Tickets |-> NULL]]
  /\ saleAt = NULL
  /\ rewritten = FALSE
-----------------------------------------------------------------------------
W == {Committee}
Running == organizer # NULL

\* resolve(n, TXT)[0], as the contracts and the programs use it; NULL when the
\* service panics or there is no first element.
Lookup(n) ==
  LET found == Dns!resolve("TXT")[n]
  IN IF found = NULL \/ found = << >> THEN NULL ELSE found[1]

\* Mutant of PutHash: the records that are there stay.
PutHashBehind(n, h) ==
  records' = [records EXCEPT ![<<n, n, "TXT">>] = Append(@, h)]

\* deleteRecords, then addRecord.
PutHash(n, h) == records' = [records EXCEPT ![<<n, n, "TXT">>] = <<h>>]

\* _deploy of either contract: register, whose result nobody looks at -- false
\* when the name is live --, then replace the records.
Deploy(h, n) ==
  /\ h \notin deployed
  /\ Dns!CanRegister(W, n, Committee)
  /\ IF Dns!Live(n)
       THEN Dns!IsAdmin(W, n) /\ UNCHANGED nameVars
       ELSE Dns!Enter(n, Committee, 1)
  /\ PutHash(n, h)
  /\ deployed' = deployed \cup {h}
  /\ rewritten' = (rewritten \/ (Running /\ n = nftAuc))
  /\ UNCHANGED <<now, auctionVars, tickets, saleAt>>

\* nns/terminal.sh, for nft.auc: register and deleteDomain; renewing a lease,
\* and making the name an alias of auc.auc or no alias any more.  (The owner
\* can also give a name away or appoint an admin: that is left out here.)
ManageNames ==
  /\ \/ Dns!Register(W, nftAuc, Committee, 1)
     \/ Dns!DeleteDomain(W, nftAuc)
     \/ \E n \in {auc, nftAuc} : Dns!Renew(W, n)
     \/ Dns!AddRecord(W, nftAuc, "CNAME", aucAuc)
     \/ Dns!DeleteRecords(W, nftAuc, "CNAME")
  /\ UNCHANGED <<auctionVars, deployed, tickets, saleVars>>

\* addRecord and deleteRecords of nns/terminal.sh, for nft.auc, and the other
\* methods that write its hashes.
WriteHashes ==
  /\ \/ Dns!DeleteRecords(W, nftAuc, "TXT")
     \/ \E c \in deployed \cap TicketContracts :
          \/ Dns!AddRecord(W, nftAuc, "TXT", c)
          \/ \E i \in 1..MaxRecords : Dns!SetRecord(W, nftAuc, "TXT", i, c)
          \/ Dns!DeleteRecord(W, nftAuc, "TXT", c)
  /\ rewritten' = Running
  /\ UNCHANGED <<auctionVars, deployed, tickets, saleAt>>

Tick == Dns!Tick /\ UNCHANGED <<auctionVars, deployed, tickets, saleVars>>
-----------------------------------------------------------------------------
\* nft.auc stands for c, and a ticket contract is deployed there: a call of
\* anything else panics.
NamedNow(c) == Lookup(nftAuc) = c /\ c \in deployed

\* What a call may make of the tickets of c.
Rewrite(c) ==
  \E items \in [Tickets -> Accounts \cup {NULL}] :
    tickets' = [tickets EXCEPT ![c] = items]

Start(c, a, t, b) ==
  /\ House \in deployed /\ NamedNow(c)
  /\ UNCHANGED <<nnsVars, deployed, tickets>>
  /\ Sale(c)!Start(a, t, b)
  /\ saleAt' = c
  /\ rewritten' = FALSE

\* The only call of the three that does not need the name.
MakeBet(c, a, b) ==
  /\ House \in deployed /\ saleAt = c
  /\ UNCHANGED <<nnsVars, deployed, tickets, saleVars>>
  /\ Sale(c)!MakeBet(a, b)

\* The name is looked up again: the lot is looked for where it stands for now.
Finish(c, u, a) ==
  /\ House \in deployed /\ NamedNow(c)
  /\ Rewrite(c)
  /\ Sale(c)!Finish(u, a)
  /\ saleAt' = NULL
  /\ rewritten' = FALSE
  /\ UNCHANGED <<nnsVars, deployed>>

\* Calls of a ticket contract by its users, be it the named one or not.
TicketCall(c, u) ==
  /\ c \in deployed
  /\ Rewrite(c)
  /\ Sale(c)!NFTCall(u)
  /\ UNCHANGED <<nnsVars, auctionVars, deployed, saleVars>>

Next ==
  \/ Tick
  \/ ManageNames
  \/ WriteHashes
  \/ Deploy(House, aucAuc)
  \/ \E c \in TicketContracts :
       \/ Deploy(c, nftAuc)
       \/ \E u \in Users : TicketCall(c, u)
       \/ \E a \in Accounts, t \in Tickets, b \in Bets : Start(c, a, t, b)
       \/ \E a \in Accounts, b \in Bets : MakeBet(c, a, b)
       \/ \E u \in Users, a \in Accounts : Finish(c, u, a)

Spec == Init /\ [][Next]_vars
-----------------------------------------------------------------------------
Expired(n) == Dns!Registered(n) /\ ~Dns!Unexpired(n)
Aliased(n) == records[<<n, n, "CNAME">>] # << >>

\* Every stored value has its type, the stored names too; an auction runs when
\* and only when it was started in some deployed contract.
DeploymentTypeOK ==
  /\ Dns!NNSTypeOK
  /\ \A c \in TicketContracts : Sale(c)!AuctionTypeOK
  /\ deployed \subseteq Contracts
  /\ tickets \in [TicketContracts -> [Tickets -> Accounts \cup {NULL}]]
  /\ IF Running THEN saleAt \in deployed ELSE saleAt = NULL
  /\ rewritten \in BOOLEAN /\ (rewritten => Running)

\* auction/contract.go:123 takes the lot from the contract that the name stands
\* for when the auction ends: the same ticket of another one would be given
\* away.  Only writing the hashes of nft.auc can do that.  Whatever else happens
\* to the names while the auction runs -- deleted, expired, registered again with
\* the records left from before, made an alias --, the name stands for the
\* contract of the sale or for none.
SaleStaysNamed ==
  Running /\ ~rewritten => \A c \in deployed : Lookup(nftAuc) = c => c = saleAt

\* As long as the TLD has not expired no mistake below it is final: whatever was
\* deleted or has expired, whatever hashes or aliases were recorded, both
\* contracts can be deployed under their names.  (Nobody gives a name away.)
AlwaysRedeployable ==
  ~Expired(auc) => \A n \in {nftAuc, aucAuc} :
    Dns!CanRegister(W, n, Committee) /\ (Dns!Live(n) => Dns!CanWrite(W, n))

\* _deploy registers the TLD for one year and nothing renews it.  Once it has
\* expired it stays so, under the rules of the service, for ever: no contract
\* is deployed and no auction started or finished any more.
HouseClosesWithTLD ==
  [][Expired(auc) => Expired(auc)' /\ UNCHANGED <<organizer, deployed>>]_vars

\* The first element that nft.auc resolves to counts: a deployment replaces all
\* the hashes, so that the name stands for the new contract and for no other.
\* But _deploy leaves an alias: as long as auc.auc is not live, resolving a name
\* that is its alias panics.
DeployTakesOver ==
  [][\A c \in TicketContracts \ deployed : c \in deployed' =>
       Lookup(nftAuc)' =
         IF Aliased(nftAuc)' /\ ~Dns!Usable(aucAuc)' THEN NULL ELSE c]_vars

\* deleteRecord loses none of the other hashes of nft.auc and none of its place
\* in the order, be the deleted one the first and however often it is stored.
DeleteLosesNothing == Dns!DeleteLosesNothing
=============================================================================
