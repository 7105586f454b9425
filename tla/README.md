# A ticket auction on Neo: models, checks and proofs

This directory specifies the program of this repository in TLA+: two contracts
on a Neo chain (tickets as NFTs, and an auction of them), the name service they
are found by, a client for users who have no gas, and a backend that pays for
their transactions. TLC checks the models on small instances; TLAPS proves the
properties that matter most for all instances.

## 1. The system

| Component | State | Operations | Talks to |
|---|---|---|---|
| ticket contract `nft/` | items, balances, per-account lists, total supply, admin | `mint`, `transfer`, `setAddress`, getters | called by `auction/`, clients, backend |
| auction contract `auction/` | five keys: organizer, lot, initial bet, current bet, potential winner | `start`, `makeBet`, `finish`, `update`, getters | calls `nns/` and `nft/` |
| name service `nns/` | domains, owners, records, expiration, subdomain counters | `register`, `renew`, `addRecord`, `setRecord`, `deleteRecord(s)`, `deleteDomain`, `transfer`, `resolve`, ... | called by both contracts at deployment and at each `start` and `finish`; by both programs at their start |
| client `client/main.go` | one per wallet; the command it works on | `getNFT`, `startAuction`, `makeBet`, `finishAuction` | asks the backend for a deposit (HTTP), queries the chain, sends notary requests |
| backend `backend/` | a queue of events, one goroutine, `currentOperation` | check, sign, wait, upload, set the address; HTTP `/notary-deposit`, `/balance`, `/properties` | notary requests, chain, object store |
| notary service and chain (external) | pool of notary requests, ledger | accept the main transaction or the fallback | both programs |
| object store (external) | objects by address | put | backend |
| notification listener `client/notificationListener.go` | a websocket | print | chain |

A command goes this way. The client asks the backend for a notary deposit, then
runs its call on a node against the chain as it is (`MakeTunedCall`); only if
that succeeds it signs the transaction and sends it as a notary request. The
backend hears of the request, decodes the script, adds its signature (it is the
first signer, so it pays) and sends it on. The notary service puts the completed
main transaction into a block, or the fallback when it is not complete in time.
Client and backend both wait for whichever comes. After a `mint` the backend
downloads the ticket's file, puts it into the object store and calls
`setAddress`.

### What is hard

- **Check and use are far apart.** A call is checked on one chain, signed later
  and executed later still; requests of several clients are in flight and are
  executed in any order. Only the contracts' own guards protect the state.
- **Two outcomes look alike.** An accepted fallback halts like an accepted main
  transaction. The backend looks at neither.
- **A contract call inside a contract call.** `finish` calls `transfer`, whose
  panic is a panic of `finish` and whose `false` is nothing at all. `start`
  refuses a second auction, so if `finish` can never succeed, no auction can ever
  be held again.
- **Accounts are arguments.** The auction contract never asks for the signature of
  the account it is given: anybody can bid in any name, that of a contract too, and
  finish with the organizer's. Only the nested `transfer` looks at who signed.
- **Redundant storage.** The ticket contract keeps three indexes beside its
  items; the auction spreads one auction over five keys that two methods write
  and a third one deletes.
- **One goroutine, no persistence.** The backend serves all clients one by one.
  When it dies its queue is gone; the sequence mint - upload - setAddress is
  never resumed. Clients exit on any error while their request lives on. The
  download has no timeout.
- **Bytecode.** The backend reads arguments out of a Neo VM script, where they
  stand in reverse order and a number is part of an opcode, one byte or several.
- **Names expire.** A name is usable while it and all domains it lies in are
  live, each with a lease of its own. The auction looks the ticket contract up
  when it starts and again when it finishes; in between, names can expire, be
  deleted, be registered again, become aliases or stand for another contract.
- **Counters instead of facts.** The name service deletes a TLD by a counter that
  a second registration raises too far and deletion lowers whatever was deleted,
  and it does not take a deleted name out of its owner's balance.

### What correctness means

- tickets: the indexes agree with the items; a ticket neither disappears nor
  loses its address; each mint request makes one ticket, which belongs to who is
  told so.
- auction: one auction at a time, nothing of an auction left after it; bids
  rise; the leader is who made the highest bid; terms do not change; the lot, if it
  moves, goes to the leader; a running auction can be finished, but for one case
  that is stated exactly.
- system: of racing requests the executed ones account for what the contracts
  hold; waiting for the chain ends; a minted ticket gets its address when nothing
  fails; the backend signs the call that the client meant.
- name service: no name outlives its TLD; a live name changes only with the
  signature of its owner or admin; an expired domain freezes what lies in it;
  nobody is counted for fewer names than he holds; deletion leaves no records.
- deployment: what happens to the names during an auction never makes it give away
  the ticket of another contract, unless somebody writes the contract's hash; a
  deployment takes the name over; deleting one hash loses no other; mistakes with
  names can be repaired while the TLD is live, and not after.

PROJECT.json lists every hazard found in the code with its line, the properties
that would catch it, and for the five without one the reason.

## 2. The modules

```
EnglishAuction            what an auction promises (abstract)
      ^  implements
NFT <- Auction <- AuctionHistory        the two contracts; ghost: all bids
         ^  ^
         |  +--- AuctionSystem -> RequestScript   clients, requests, backend
         |
         +------ Deployment -> NNS                names of the contracts

NFTProofs <- AuctionProofs <- EnglishAuctionProofs
                    ^------- AuctionSystemProofs <- RequestProofs
                                     ^------------- DecodingProofs
NNSProofs <- DeploymentProofs (an instance of it)
```

**NFT** is `nft/contract.go`. `owner` and `address` are the fields of the stored
item (`NULL`: no item, no address), `balance`, `accountTokens` and `totalSupply`
the keys under the other prefixes. One action per method; a method that panics is
rolled back by the VM, so an action is enabled exactly when its method returns.
`Transfer(witnesses, to, t)` is also what `finish` calls, therefore it takes the
set of accounts for which `CheckWitness` is true: without the holder's it changes
nothing and returns, as the code does. `NFTCall(w)` is any call for which `w`
signed, or which the contract `w` makes. A receiver at which a contract is
deployed makes `postTransfer` panic, because no contract of the repository
implements `onNEP11Payment`; `mint` calls no receiver, so a contract can hold
tickets. A token ID is a hash of the name and is represented by the name.

**Auction** adds the five keys of `auction/contract.go`. Its methods take an
account and ask for no signature of it (lines 52, 78 and 101), and README.md:152
tells how to call them from a console. So `Start(a, t, b)`, `MakeBet(a, b)` and
`Finish(w, a)` are for any account `a`, a contract's too; `w` is who signs the
call of `finish`. `Finish` contains `clearStorage` and the nested `Transfer`,
which finds the witnesses `{w, House}`: the signer, whose scope is Global, and
the calling contract itself. `TicketCall` is any call of the ticket contract
beside it, so the lot can change hands during its auction. That `nft.auc`
resolves to the ticket contract is assumed here and dropped in Deployment.

`CanBeFinished` says exactly when `Finish` returns: always, except when the
transfer does not return false, because the signer or the auction contract holds
the lot, and the leader (the organizer, without one) is a contract, at which
`postTransfer` panics. A bet in a contract's name thus keeps the holder of the
lot from finishing; anybody else can still finish, and then nothing is
delivered. Only a lot that was minted to the auction contract is stuck for all.

**EnglishAuction** knows no keys: a sale has a seller, an item, a floor and the
*set* of accepted bids, and whoever made the highest of them may be given the
item. `Close(c, p)` is by anybody: the item is handed over only when `c` or the
agent (the auction contract) holds it, and to a receiver that can take it;
otherwise the sale just ends. That is what the code does, and the run
`find_winner` shows how it differs from the repository's README.
**AuctionHistory** adds a ghost variable `bids` to `Auction` and maps it:
`holder <- owner`, `sale <- Sale`.

**AuctionSystem** puts the programs around the contracts. Clients pass their own
accounts, and the contracts get no other calls of the auction here: direct calls
are in Auction.

| Model | Code |
|---|---|
| `phase[u]` idle / chosen / waiting / dead | the command loop, `client/main.go:119-159`; `chosen` is between `getFreeTicket` and the request of `getNFT` |
| `Send`, guarded by `Accepts` | `MakeTunedCall` (test invocation) and `Notarize` |
| `Die`, `MintRefused`, `AuctionCallRefused`, `NoDeposit`, `WaitFails` | `die(...)` on each error |
| `Outcome`, `LooksOk` | `makeNotaryRequestPostProcessing` and the stack checks of `getNFT` and `finishAuction` |
| `requests[i].status` | what becomes of a request: sent, signed, then halt or fault (main transaction), fallback, or expired |
| `events`, `Listening`, `IgnoreOwn`, `Sign`, `SignFails`, `Panic` | `runNotaryValidator`; the backend's own requests come back to it |
| `WaitReturns`, `WaitExpires`, `WaitBreaks` | `Wait` in `proceedMainTx...` |
| `Upload`, `UploadFails` | download and upload in `proceedMainTxGetNft`, before an object exists |
| `Publish`, `PublishFails` | its call of `setAddress`; a panic of it in the test invocation is an error that is logged |
| `ChannelCloses` | the goroutine returns at `backend/main.go:333` and the HTTP server goes on |
| `Kill`, `StartServer`, `Restart` | processes end and are started again |
| `IncludeMain`, `IncludeFallback`, `Expire` | the notary service and the chain (external) |

**RequestScript** is what stands between the two programs: the opcodes a client's
call is compiled to (`emit` of neo-go, external) and how the backend reads the
call back, function by function: the method is the third operation from the end,
the arguments are checked and stripped of their packing, each method counts its
own. An operand is the bytes of a number, or the one datum it pushes. The
backend's `Panic` comes from `Uint16` on an operand of fewer than two bytes.
`Readable` and `Fatal` are the requests that are read and those at which it
panics; any other would be dropped by `IgnoreOwn`, and `DecodedAsSent` says that
there is none, and that what is read is what was sent, so that `Publish` may
speak of the request's ticket.

`FreeTicket` is the loop of `getFreeTicket`: it stops at the first ticket for
which `ownerOf` fails, for whatever reason, or at the end of the list.
`Unreliable` says whether processes are killed and queries fail.

**NNS** is `nns/nns_contract.go`. A name is the sequence of its labels.
`nameOwner`, `nameAdmin` and `expiration` are the stored `NameState`, the other
variables the keys under the other prefixes, `now` the time of the block. One
action per method that writes, enabled when the method returns; W is the set of
accounts that signed the transaction.

| Model | Code |
|---|---|
| `ParentsLive`, `Longest(Parents(n))` | `checkParent`: it panics at an expired domain, skips a missing one, returns the longest |
| `Live`, `Usable` | `getNameStateWithKey` (also used alone, by `Transfer`) and `getNameState` |
| `tokenIDFromName` | the domain under which a name's records are kept: the first live one of two or more labels, or the name itself |
| `CanRegister`, `Enter` | `register` with its nested call for a missing TLD (`Entered`) |
| `Count`, `Credit`, `Relist` | `updateSubdDomainCounter`, `updateBalance` |
| `Without` | the loop of `deleteRecord`, which moves records up in place |
| `Removed`, `CanDelete`, `Strike`, `RootsWithout` | `deleteDomain` with its nested call for an automatically created TLD |
| `resolve`, `Follow`, `InvalidRedirect` | `resolve`: the recursion is unfolded, `Follow` is one call of it, and the call after two redirects panics; `NULL` is a panic |

**Deployment** composes NNS, for the names `auc`, `nft.auc` and `auc.auc`, with
Auction on whichever of several ticket contracts is meant (`Sale(c)`, an
instance per contract). `Deploy` is `_deploy` of either contract, all its calls
of the name service in one step, since they are one transaction. `ManageNames`
and `WriteHashes` are the commands of `nns/terminal.sh` for `nft.auc` and what
else the owner may do with it: renew it, set or delete single records, make it
an alias (CNAME) of `auc.auc`. Giving the name away and appointing an admin are
in NNS only. `_deploy` deletes TXT records and leaves an alias, which `resolve`
follows after the records of the name itself; it panics when `auc.auc` is not
live. `Start` and `Finish` look `nft.auc` up (`NamedNow`), `MakeBet` does not.
Two ghosts: `saleAt`, the contract in which the running auction was started, and
`rewritten`, whether a hash of `nft.auc` has been written or deleted since.

Definitions introduced by "Mutant of ..." are wrong versions of the definition
they precede: for each property there is one with which TLC finds it violated.
They show that the property depends on the code.

## 3. The runs

| Run | Module and cfg | Checks | Instance | States |
|---|---|---|---|---|
| `auction` | MCAuctionHistory, MCAuction.cfg | `NFTTypeOK`, `LedgerAgrees`, `TicketsPersist`, `AuctionTypeOK`, `NoLeftovers`, `LeaderPaysMore`, `CanBeFinished`, `LeaderIsHighest`, `BidsRise`, `EnglishAuctionSpec` | 2 users, the auction contract and another, 2 tickets, 2 addresses, bets -1..2 | 13 k |
| `nns` | MCNNS | `NNSTypeOK`, `ZonesConsistent`, `BalanceNeverShort`, `DeletedLeavesNothing`, `ExpiredZoneFrozen`, `OnlyWithConsent` | 2 accounts that sign alone or together, names of 1, 2 and 3 labels, 2 instants, 1 record | 70 k |
| `deployment` | MCDeployment | `DeploymentTypeOK`, `SaleStaysNamed`, `AlwaysRedeployable`, `HouseClosesWithTLD`, `DeployTakesOver`, `DeleteLosesNothing` | 2 symmetric ticket contracts and the auction, 1 user, 1 ticket, bets -1..1, 2 instants, 3 records | 73 k |
| `system_faults` | MCAuctionSystem, MCSystemFaults.cfg | `SystemTypeOK`, `TicketsMatchRequests`, `NewTokenIsOwned` | 2 clients, 2 tickets, 3 requests, faults | 745 k |
| `system_races` | MCSystemRaces.cfg | `StartsAlternate`, `TermsFromRequests` | 3 clients, 2 tickets, 4 requests, no faults, symmetric clients | 1.2 M |
| `system_progress` | MCSystemProgress.cfg | `WaitingEnds`, `ServerReturns` | 2 clients, 2 requests, faults, one bet that panics | 21 k |
| `system_addresses` | MCSystemAddresses.cfg | `DecodedAsSent`, `MintedGetsAddress` | 2 clients, 3 requests, no faults, bets of one, two and more bytes | 35 k |

**Bounds.** The contracts' state is finite for finite constants. Two users and
two contracts, all of which can be passed as an account, give an organizer
rivals of both kinds, an outsider who finishes, and a lot that a user, the
auction contract or another contract holds; two tickets let a holder have
another one than the lot; the bets hold the boundaries -1, 0 and 1 and leave
room for a bet to be overtaken. In the system `MaxRequests` is the only bound on
behaviour: 3 requests are two mints and a third call, or mint, start and another
call of a restarted client; 4 requests are mint, start and two rival bets, or
two mints and two rival starts, or mint, start, finish and a second start.
Killing, restarting and finding tickets are not bounded. In `system_races` all
clients look at the tickets in the same order, so that `Permutations(Users)` is
a symmetry; no liveness is checked with it.

In `nns` a lease is one time unit, a name can be renewed once, and three names
can be registered at most three times in all: each name is live, expired or free
under each state of those above it, and one of them can be registered again
after it expired or was deleted. `MaxRecords` is 1 there because what depends on
several records is in `deployment`, where three let a contract be stored twice
beside the other one. There a lease is one time unit, the clock ticks once and
each of `auc` and `nft.auc` can be renewed once: a name can expire and be
registered again while the TLD has been renewed or not. With one user the rivals
are contracts, and what matters there, which ticket contract is meant, does not
depend on it. Nothing tells the two ticket contracts apart, so exchanging them
is a symmetry; no liveness is checked with it. Both runs stop at their bounds
(the clock, the leases, the number of registrations), so deadlock is not checked
in them; it is in all others, and there is none.

The bets of `system_addresses` are 100, 300 and 70000: an operand of one byte, of
two that differ, and of four, of which two are read.

**Fairness** (`FairSysSpec`): weak fairness of the steps a running client takes
by itself (not of typing a command), of the validator's steps except the
download, and of the chain: each request ends in one of the ways the notary
service has for it. Nothing is assumed of kills, restarts, lost channels, or of
which of main transaction and fallback wins. That is what the Go scheduler and a
chain with a producer of blocks give: `Wait` ends at the height until which the
transactions are valid at the latest. The download is `http.Get` on the default
client, which has no timeout (backend/getNft.go:59): it is fair only where
nothing fails (`system_addresses`). Elsewhere the one goroutine may stay in it
for ever, so `ServerReturns` is about the two waits for the chain and not about
the download, and `WaitingEnds` holds for the clients all the same: their
fallbacks are accepted.

### What contradicts the repository's documents

| Run | Property | What TLC finds |
|---|---|---|
| `find_winner` | `WinnerGetsLot` | somebody else than the holder of the lot signs `finish`: the organizer, who has given it away, or anybody who passes the organizer's account; `finish` ignores that `transfer` returned false and announces a winner who gets nothing (README.md:14) |
| `find_panic` | `BackendNeverPanics` | a start with the initial bet 100, which the contract accepts, makes `Uint16` panic on a one-byte operand (README.md:133) |
| `find_ticket` | `TicketIsFree` | with all tickets taken, `getFreeTicket` returns the last one instead of its error (client/main.go:430, 462) |
| `find_fallback` | `OkMeansDone` | a start or bet that was replaced by its fallback is reported as done (client/main.go:306) |
| `find_admin` | `MintedGetsAddress` | deployed as README.md:96 says, with the node's account as admin, the backend's `setAddress` always panics in its test invocation, the error is only logged, and tickets have no address (README.md:16) |

`MintedGetsAddress` is checked twice: it holds when the admin is the backend's
account (`system_addresses`) and fails with the documented deployment. One more
divergence has no run: README.md:139 lists a command `exit`, which the client
answers with "Unknown commandName". Nor has that a client works all the time, as
README.md:133 says: it ends when a command is refused (client/main.go:152).

Of the name service, these follow from the code and contradict its comments or
what one would expect; the properties are stated so as to hold beside them:

- `BalanceOf` "returns the overall number of domains owned"
  (nns/nns_contract.go:156): after `deleteDomain` it is too high, and `TokensOf`
  still lists the name. `BalanceNeverShort` is the side that holds.
- The counter of a zone is "the number of domains in the zone"
  (nns/nns_contract.go:50): registering an expired name again raises it (line
  409), so such a zone is never deleted automatically. It is never too low.
- `DeleteRecord` is to "delete a record" (nns/nns_contract.go:534), but data that
  `setRecord` has stored twice is matched twice, while the gap closes by one: of n1, n2, n1 without n1 remains
  n2, n2. `DeleteLosesNothing` says what holds for every list: no other record is
  lost or changes its place among the others.
- `deleteDomain` leaves the SOA record (lines 633-636), which the next registration
  overwrites; SOA is not modelled.
- `_deploy` is meant to make the name stand for the contract, but an alias of the
  name survives it (nft/contract.go:59-62): `DeployTakesOver` has this exception.
- Records of a name of three labels are kept under the domain above it while that
  one is live; deleting the name after the domain has expired leaves them.
  `DeletedLeavesNothing` is about one and two labels.
- A name that has itself expired below an expired domain can still be deleted
  through a live domain above both (four labels or more): `ExpiredZoneFrozen`
  makes this one exception. The proof found it; no instance of three labels has it.

## 4. The proofs

All are by TLAPS, for every value of the constants under the ASSUMEs of the
modules: finitely many tickets or names, users and contracts apart, the auction
contract one of the contracts, `NULL` no value of theirs, bets integers, for the
system that every client has tickets to look at, for the name service that a
name's domains are names and lifetimes natural numbers, and for the deployment
that the auction contract is none of the ticket contracts, that `NULL` is no
list of contracts and names, that the name `auc.auc` is no contract, and that
the bounds are natural numbers. TLC evaluates these assumptions in the runs.
Every safety invariant and every action property of the passing runs is a
theorem.

| Theorem | Says |
|---|---|
| `NFTSafety` | `NFTSpec => [](NFTTypeOK /\ LedgerAgrees)` |
| `NFTPersistence` | `NFTSpec => TicketsPersist` |
| `AuctionSafety` | `Spec => [](AuctionTypeOK /\ NoLeftovers /\ LeaderPaysMore /\ CanBeFinished)` |
| `AuctionLedger` | the ledger invariants for the two contracts together |
| `AuctionBidsRise` | `Spec => BidsRise` |
| `AuctionImplementsTickets` | `Spec => NFTSpec`: the auction is one more caller of the ticket contract |
| `AuctionPersistence` | so `Spec => TicketsPersist` |
| `HighestBidLeads` | `HSpec => []LeaderIsHighest` |
| `ImplementsEnglishAuction` | `HSpec => EnglishAuctionSpec` |
| `SystemTyped` | `SysSpec => []SystemTypeOK` |
| `SystemSafety` | all invariants of the contracts hold in the system |
| `SystemPersistence` | and `SysSpec => TicketsPersist /\ BidsRise` |
| `Decoding` | `SysSpec => []DecodedAsSent` |
| `TicketsAreRequested` | `SysSpec => []TicketsMatchRequests` |
| `OneAuctionAtATime` | `SysSpec => []StartsAlternate` |
| `AuctionIsRequested` | `SysSpec => []TermsFromRequests` |
| `TokenOwned` | `SysSpec => NewTokenIsOwned` |
| `NNSSafety` | `NNSSpec => [](NNSTypeOK /\ ZonesConsistent /\ BalanceNeverShort /\ DeletedLeavesNothing)` |
| `NNSConsent` | `NNSSpec => OnlyWithConsent` |
| `NNSExpiry` | `NNSSpec => ExpiredZoneFrozen` |
| `NNSDelete` | `NNSSpec => DeleteLosesNothing`, for all lists, repetitions included |
| `DeploymentTyped` | `Spec => []DeploymentTypeOK` |
| `SaleKeepsName` | `Spec => []SaleStaysNamed` |
| `Redeployable` | `Spec => []AlwaysRedeployable` |
| `HouseCloses` | `Spec => HouseClosesWithTLD` |
| `DeploymentWins` | `Spec => DeployTakesOver` |
| `HashesSurvive` | `Spec => DeleteLosesNothing`, for the names of the deployment |

The last six are about the `Spec` of Deployment.

The arguments:

- *Ledger.* Types and ledger are inductive only together: that a count stays a
  natural number when a transfer takes one away needs that it counts a set that
  holds the ticket. Each action moves one ticket; `Cardinality` of the two sets
  it changes follows from `FS_AddElement` and `FS_RemoveElement`, stated once as
  lemmas about a ticket that joins or leaves a set.
- *Auction.* `CanBeFinished` says when the nested `transfer` panics, as an
  equivalence: so it needs that a started lot exists (the ticket contract never
  deletes an item), that organizer and lot are stored whenever an auction runs, and
  for the rest the guard of `Transfer` for every signer and every holder. The
  strengthening is the conjunction of types, `NoLeftovers`, `LeaderPaysMore` and
  the existence of the lot, on top of the ticket contract's invariant, whose lemmas
  cover the ticket calls and the transfer inside `finish`.
- *English auction.* `LeaderIsHighest` is inductive with the auction's invariant;
  with it, a bet above the current one is above all bets, and the stored leader
  is one who `Wins`. Each step then maps to a step or a stutter; `Finish(w, a)` maps
  to `Close(w, Winner)`, whose two cases are whether `{w, House}` holds the lot.
- *System.* The invariant says where a number of a request is used there is such
  a request, and that the validator uploads for mints only. From it, an included
  main transaction executes one contract method with values of the right types,
  `Publish` is a `SetAddress` signed by the admin, and every other step leaves
  the contracts alone (the lemma `SystemRunsContracts`); so the contracts'
  invariants and action properties carry over.
- *Requests.* What the contracts hold is compared with the set of executed
  requests. Every step of the system executes one request, or sets one address,
  or leaves both sides alone; for each of the four methods a lemma says how the
  executed requests grow and what the contract becomes. The four invariants are
  proved together, because a count of starts and finishes needs finite sets of
  requests and the terms need that a request never changes once executed.
  `TokenOwned` needs one more invariant: a ticket whose mint was executed is
  still its client's while that client waits. The ticket could only be lost in an
  auction, an auction of it only be started by its owner, and a start is sent
  only for a ticket that exists, by a client that does not wait.
- *Name service.* `NNSInv` is the conjunction of the four invariants. The heart is
  the counter: `register` adds as many as it enters, `deleteDomain` takes one or
  drops the counter with its TLD, so it stays at or above the number of names;
  a TLD that is deleted by hand has a counter of at most 1, which is itself, and
  one that is deleted automatically has exactly itself left. Cardinalities of the
  changed sets come from `FS_AddElement` and `FS_RemoveElement`. `NNSConsent` and
  `NNSExpiry` are case splits over the methods, with lemmas on suffixes: a domain
  of a domain of a name is a domain of the name, and what `tokenIDFromName`
  returns for a name is live or the name itself.
  `NNSDelete` needs that `Without` writes each record that is not asked for one
  place ahead, in any list, from the first match on (`WithoutKeepsOthers`).
- *Decoding.* Nothing of the system matters but that requests are calls of
  clients. `PushedAs` turns the ranges of `emit.Int` into comparisons; from it a
  number's operand has fewer than two bytes only below 128, and otherwise its
  first two bytes are the number modulo 2^16, negative numbers included
  (`BetPushed`). `CallLaid` says where in the script each operand stands for any
  list of arguments, `CallRead` that the checks accept the script of one to three
  arguments and that what is left after stripping them is the arguments reversed.
  One lemma per method then reads the call back.
- *Deployment.* `DeploymentInv` is the invariant of the name service, for the
  three names, with four conjuncts: only `nft.auc` can have an alias, and only
  `auc.auc` as that (so `resolve` ends after one more call, which adds nothing in
  front: `LookupIs`), the stored values of the contracts have their types, a
  running auction was started in `saleAt`, a deployed contract, and, until a hash
  is written, the first hash of `nft.auc` is `saleAt` or there is none (`HeadKept`). TLC finds no violation of the conjunction on the run's instance.
  `SaleKeepsName` follows from the last conjunct: a `Lookup` that answers answers
  the first hash.
  `DP` instantiates NNSProofs with the substitution of `Dns`; `SameState` and
  `SameCalls` say that the two are the same predicates and actions, so its
  lemmas apply to what `Deploy`, `ManageNames` and `WriteHashes` do. `_deploy` is
  no step of the name service, as it registers the name and rewrites its records in
  one transaction: the lemma `EnterInv` of NNSProofs is about a registration with
  whatever records are written beside it, and `Register` and `Deploy` are both
  cases of it. `Redeployable` needs that all three names belong to the committee
  and lie below a live TLD; `HouseCloses` that a `Lookup` that answers finds the
  TLD live (`LookupNeedsUsable`), and that an expired TLD is neither renewed nor
  registered again; `DeploymentWins` that a deployment leaves one hash, the new
  one, and the alias as it was.

Only model-checked, and why:

- `WaitingEnds`, `ServerReturns`, `MintedGetsAddress`: liveness under fairness, out
  of the prover's reach.
- The five violations: they are single behaviours, which TLC prints.

## 5. What is not modelled

- `update` of a contract, which replaces the code.
- Of the name service: global domains (TXT records `cnametgt=...`, which create a
  second name without a registration), SOA records, A and AAAA records, prices,
  the syntax of names, and the FrostfsID permission, which nothing in the
  repository grants. The contracts use TXT records of names of two labels only.
- Of the scripts: arrays and booleans as arguments, which `validateNestedArgs`
  admits and no method takes, and scripts no client builds. The `proceedFbTx`
  branch is unreachable for the four calls: every check returns `true`.
- The resolution of the contract names by the two programs at their start, and
  that they keep a hash when the contract is deployed again: AuctionSystem has
  one ticket contract. A model with both the requests in flight and the names is
  beyond the state spaces that can be explored.
- In Deployment, giving a name away and appointing an admin (both are in NNS): a
  deployment under a name of somebody else is refused, and `AlwaysRedeployable`
  does not speak of it.
- In AuctionSystem, calls of the auction that no client of the repository makes
  (they are in Auction).
- Deposits: what they cost the backend, and the wallet that runs empty. The money
  is on the GAS contract, which is not in the repository, and no code reads it.
- The notification listener, which prints, and the read-only endpoints.
- The object store and the storage pool, external: an object's address is any
  address.
- Commands that are typed wrongly: some end the client, as dying does.

## 6. Plan

Done: the contracts and their refinement; the system around them with its faults;
the name service; the deployment; the scripts of requests; theorems for every
safety property of the passing runs.

Left, in this order, each with a larger state space than the runs have now:

1. Global domains in NNS: a name that enters the service without `register`, and
   so without a counter, a supply or a consent of its own; the invariants of
   `NNSInv` have to be weakened for it.
2. Two ticket contracts in AuctionSystem, with the hashes that each program holds
   and a redeployment between them, for one client and two requests.
3. Each ticket contract of Deployment as an instance of NFT, with its balances and
   lists, and `AuctionImplementsTickets` for each of them.
