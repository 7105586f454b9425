-------------------------------- MODULE NFT --------------------------------
(***************************************************************************)
(* The ticket contract, nft/contract.go.  Its storage holds, under four    *)
(* prefixes, one NFTItem per token, the number of tokens of each account,  *)
(* the tokens of each account and the total supply.  A call that panics    *)
(* is rolled back by the Neo VM, so an action is enabled exactly when the  *)
(* call returns; what it wrote is then all there is.                       *)
(*                                                                         *)
(* A token ID is sha256(name): the name stands for the ID.                 *)
(***************************************************************************)
EXTENDS Integers, FiniteSets

CONSTANTS
  Users,      \* wallet accounts: they run no code
  Contracts,  \* accounts at which a contract is deployed
  Tickets,    \* the names a token can be minted with
  Admin,      \* the account stored under ownerKey by _deploy
  Addresses,  \* object addresses in the storage network
  NULL        \* what storage.Get returns for a missing key

Accounts == Users \cup Contracts

ASSUME NFTAssumption ==
  /\ IsFiniteSet(Tickets)
  /\ Users \cap Contracts = {}
  /\ NULL \notin Accounts
  /\ NULL \notin Tickets
  /\ NULL \notin Addresses
  /\ NULL \notin Int

VARIABLES
  owner,          \* NFTItem.Owner of each token, NULL when it is not minted
  address,        \* NFTItem.Address of each token, NULL when it is empty
  balance,        \* tokens counted per account (balancePrefix), 0 when absent
  accountTokens,  \* tokens listed per account (accountPrefix)
  totalSupply     \* totalSupplyKey

nftVars == <<owner, address, balance, accountTokens, totalSupply>>

\* _deploy on the first deployment: an admin, a zero supply and nothing else.
NFTInit ==
  /\ owner = [t \in Tickets |-> NULL]
  /\ address = [t \in Tickets |-> NULL]
  /\ balance = [h \in Accounts |-> 0]
  /\ accountTokens = [h \in Accounts |-> {}]
  /\ totalSupply = 0
-----------------------------------------------------------------------------
\* nftExists: a token has an item in the storage.
nftExists(t) == owner[t] # NULL

\* Mutant of addToBalance: the amount is subtracted.
BalanceWrongSign(b, h, n) == [b EXCEPT ![h] = @ - n]

\* addToBalance: a count that is no longer positive is deleted.
addToBalance(b, h, n) == [b EXCEPT ![h] = IF @ + n > 0 THEN @ + n ELSE 0]

addToken(a, h, t) == [a EXCEPT ![h] = @ \cup {t}]

removeToken(a, h, t) == [a EXCEPT ![h] = @ \ {t}]

\* Mutant of CanMint: an ID that is taken does not stop it.
CanMintAgain(t) == TRUE

\* Mint panics when the ID is taken.  No signature is asked for, and the
\* receiver is not called: a ticket can be minted to any account, a contract's
\* too.
CanMint(t) == ~nftExists(t)

\* Mutant of Mint: the total supply is not raised.
MintMissesSupply(h, t) ==
  /\ CanMint(t)
  /\ owner' = [owner EXCEPT ![t] = h]
  /\ address' = [address EXCEPT ![t] = NULL]
  /\ balance' = addToBalance(balance, h, 1)
  /\ accountTokens' = addToken(accountTokens, h, t)
  /\ UNCHANGED totalSupply

\* The new item has no address yet.
Mint(h, t) ==
  /\ CanMint(t)
  /\ owner' = [owner EXCEPT ![t] = h]
  /\ address' = [address EXCEPT ![t] = NULL]
  /\ balance' = addToBalance(balance, h, 1)
  /\ accountTokens' = addToken(accountTokens, h, t)
  /\ totalSupply' = totalSupply + 1

\* Transfer panics when there is no token, and in postTransfer when the
\* receiver is a contract: none of those in the repository has onNEP11Payment.
CanTransfer(witnesses, to, t) ==
  /\ nftExists(t)
  /\ owner[t] \in witnesses => to \notin Contracts

\* The storage writes of Transfer when the holder has signed.
Move(from, to, t) ==
  /\ owner' = [owner EXCEPT ![t] = to]
  /\ balance' = addToBalance(addToBalance(balance, from, -1), to, 1)
  /\ accountTokens' = addToken(removeToken(accountTokens, from, t), to, t)

\* Transfer, where runtime.CheckWitness is true for witnesses: those who signed
\* the transaction and the contract that makes the call.  Without the holder's
\* consent it returns false, looks at nothing else, and its caller goes on; to
\* the holder itself it writes nothing.
Transfer(witnesses, to, t) ==
  /\ CanTransfer(witnesses, to, t)
  /\ IF owner[t] \in witnesses /\ owner[t] # to
       THEN Move(owner[t], to, t)
       ELSE UNCHANGED <<owner, balance, accountTokens>>
  /\ UNCHANGED <<address, totalSupply>>

\* SetAddress panics unless the admin has signed and the token exists.
CanSetAddress(witnesses, t) == Admin \in witnesses /\ nftExists(t)

SetAddress(witnesses, t, a) ==
  /\ CanSetAddress(witnesses, t)
  /\ address' = [address EXCEPT ![t] = a]
  /\ UNCHANGED <<owner, balance, accountTokens, totalSupply>>
-----------------------------------------------------------------------------
\* A call for which w has signed, or which w makes, being a contract.
NFTCall(w) ==
  \/ \E h \in Accounts, t \in Tickets : Mint(h, t)
  \/ \E to \in Accounts, t \in Tickets : Transfer({w}, to, t)
  \/ \E t \in Tickets, a \in Addresses : SetAddress({w}, t, a)

NFTNext == \E w \in Accounts \cup {Admin} : NFTCall(w)

NFTSpec == NFTInit /\ [][NFTNext]_nftVars
-----------------------------------------------------------------------------
TokensOf(h) == {t \in Tickets : owner[t] = h}

Minted == {t \in Tickets : nftExists(t)}

\* Every stored value has its type.
NFTTypeOK ==
  /\ owner \in [Tickets -> Accounts \cup {NULL}]
  /\ address \in [Tickets -> Addresses \cup {NULL}]
  /\ balance \in [Accounts -> Nat]
  /\ accountTokens \in [Accounts -> SUBSET Tickets]
  /\ totalSupply \in Nat

BalanceCounts == \A h \in Accounts : balance[h] = Cardinality(TokensOf(h))

IndexLists == \A h \in Accounts : accountTokens[h] = TokensOf(h)

SupplyCounts == totalSupply = Cardinality(Minted)

\* The three indexes that Mint and Transfer update one write at a time --
\* balances, per-account lists, total supply -- always agree with the items:
\* BalanceOf, TokensOf, OwnerOf and TotalSupply answer about the same tokens.
LedgerAgrees == BalanceCounts /\ IndexLists /\ SupplyCounts

\* Items are overwritten whole, by three methods: a ticket that was minted
\* never goes away, and no step takes its address from it or gives it another
\* address and another owner at once.
TicketsPersist ==
  [][\A t \in Minted :
       /\ t \in Minted'
       /\ address[t] # NULL => address'[t] # NULL
       /\ address'[t] = address[t] \/ owner'[t] = owner[t]]_nftVars
=============================================================================
