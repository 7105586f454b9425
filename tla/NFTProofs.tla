----------------------------- MODULE NFTProofs -----------------------------
(***************************************************************************)
(* Proofs about the ticket contract.  Each action is shown to preserve the *)
(* types and the ledger on its own, so that Auction, whose Finish is a     *)
(* Transfer, can use the same lemmas.                                      *)
(***************************************************************************)
EXTENDS NFT, FiniteSetTheorems, TLAPS

NFTInv == NFTTypeOK /\ LedgerAgrees

\* One more or one less token at one account, none at the others.
LEMMA TokensAdded ==
  ASSUME NFTTypeOK, NEW h, NEW t \in Tickets, NEW S, t \notin TokensOf(h),
         S = TokensOf(h) \cup {t}
  PROVE  Cardinality(S) = Cardinality(TokensOf(h)) + 1
<1>1. IsFiniteSet(TokensOf(h))
  BY NFTAssumption, FS_Subset DEF TokensOf
<1>. QED  BY <1>1, FS_AddElement

LEMMA TokensRemoved ==
  ASSUME NFTTypeOK, NEW h, NEW t \in TokensOf(h), NEW S, S = TokensOf(h) \ {t}
  PROVE  /\ Cardinality(S) = Cardinality(TokensOf(h)) - 1
         /\ Cardinality(S) \in Nat
<1>1. IsFiniteSet(TokensOf(h))
  BY NFTAssumption, FS_Subset DEF TokensOf
<1>. QED  BY <1>1, FS_RemoveElement, FS_CardinalityType

LEMMA InitNFT == NFTInit => NFTInv
<1>. SUFFICES ASSUME NFTInit PROVE NFTInv
  OBVIOUS
<1>1. NFTTypeOK
  BY NFTAssumption DEF NFTInit, NFTTypeOK
<1>2. \A h \in Accounts : TokensOf(h) = {}
  BY NFTAssumption DEF NFTInit, TokensOf, Accounts
<1>3. Minted = {}
  BY DEF NFTInit, Minted, nftExists
<1>4. Cardinality({}) = 0
  BY FS_EmptySet
<1>. QED
  BY <1>1, <1>2, <1>3, <1>4
  DEF NFTInit, NFTInv, LedgerAgrees, BalanceCounts, IndexLists, SupplyCounts

LEMMA MintInv ==
  ASSUME NFTInv, NEW u \in Accounts, NEW t \in Tickets, Mint(u, t)
  PROVE  NFTInv'
<1>. USE DEF NFTInv
<1>1. u \in Accounts /\ u # NULL
  BY NFTAssumption
<1>2. NFTTypeOK'
  BY <1>1 DEF Mint, NFTTypeOK, addToBalance, addToken
<1>3. /\ TokensOf(u)' = TokensOf(u) \cup {t}
      /\ t \notin TokensOf(u)
      /\ \A h \in Accounts \ {u} : TokensOf(h)' = TokensOf(h)
  BY <1>1, NFTAssumption
  DEF Mint, CanMint, nftExists, NFTTypeOK, TokensOf, Accounts
<1>4. BalanceCounts'
  <2>1. balance'[u] = balance[u] + 1
    BY <1>1 DEF Mint, NFTTypeOK, addToBalance
  <2>2. \A h \in Accounts \ {u} : balance'[h] = balance[h]
    BY DEF Mint, NFTTypeOK, addToBalance
  <2>3. Cardinality(TokensOf(u)') = Cardinality(TokensOf(u)) + 1
    BY <1>3, TokensAdded
  <2>. QED
    BY <1>1, <1>3, <2>1, <2>2, <2>3 DEF LedgerAgrees, BalanceCounts
<1>5. IndexLists'
  BY <1>1, <1>3
  DEF Mint, NFTTypeOK, addToken, LedgerAgrees, IndexLists
<1>6. SupplyCounts'
  <2>1. Minted' = Minted \cup {t} /\ t \notin Minted
    BY <1>1 DEF Mint, CanMint, nftExists, NFTTypeOK, Minted
  <2>2. IsFiniteSet(Minted)
    BY NFTAssumption, FS_Subset DEF Minted
  <2>3. Cardinality(Minted \cup {t}) = Cardinality(Minted) + 1
    BY <2>1, <2>2, FS_AddElement
  <2>. QED  BY <2>1, <2>3 DEF Mint, LedgerAgrees, SupplyCounts
<1>. QED  BY <1>2, <1>4, <1>5, <1>6 DEF LedgerAgrees

LEMMA MoveInv ==
  ASSUME NFTInv, NEW from \in Accounts, NEW to \in Accounts, NEW t \in Tickets,
         owner[t] = from, from # to, Move(from, to, t),
         UNCHANGED <<address, totalSupply>>
  PROVE  NFTInv'
<1>. USE DEF NFTInv
<1>1. to # NULL /\ from # NULL
  BY NFTAssumption
<1>2. t \in TokensOf(from) /\ t \notin TokensOf(to)
  BY DEF TokensOf
<1>3. /\ TokensOf(from)' = TokensOf(from) \ {t}
      /\ TokensOf(to)' = TokensOf(to) \cup {t}
      /\ \A h \in Accounts \ {from, to} : TokensOf(h)' = TokensOf(h)
  BY DEF Move, NFTTypeOK, TokensOf
<1>4. NFTTypeOK' /\ BalanceCounts'
  <2>1. /\ Cardinality(TokensOf(from)') = balance[from] - 1
        /\ Cardinality(TokensOf(from)') \in Nat
        /\ Cardinality(TokensOf(to)') = balance[to] + 1
    BY <1>2, <1>3, TokensAdded, TokensRemoved DEF LedgerAgrees, BalanceCounts
  <2>2. /\ balance'[from] =
               IF balance[from] - 1 > 0 THEN balance[from] - 1 ELSE 0
        /\ balance'[to] = balance[to] + 1
        /\ \A h \in Accounts \ {from, to} : balance'[h] = balance[h]
        /\ balance' \in [Accounts -> Nat]
    BY DEF Move, NFTTypeOK, addToBalance
  <2>3. balance'[from] = balance[from] - 1
    BY <2>1, <2>2 DEF NFTTypeOK
  <2>4. NFTTypeOK'
    BY <2>2 DEF Move, NFTTypeOK, addToken, removeToken
  <2>. QED
    BY <1>3, <2>1, <2>2, <2>3, <2>4 DEF LedgerAgrees, BalanceCounts
<1>5. IndexLists'
  BY <1>3 DEF Move, NFTTypeOK, addToken, removeToken, LedgerAgrees, IndexLists
<1>6. Minted' = Minted
  BY <1>1 DEF Move, NFTTypeOK, Minted, nftExists
<1>. QED  BY <1>4, <1>5, <1>6 DEF LedgerAgrees, SupplyCounts

LEMMA StutterInv == NFTInv /\ UNCHANGED nftVars => NFTInv'
BY DEF NFTInv, nftVars, NFTTypeOK, LedgerAgrees, BalanceCounts, IndexLists,
       SupplyCounts, TokensOf, Minted, nftExists

LEMMA TransferInv ==
  ASSUME NFTInv, NEW W, NEW to \in Accounts, NEW t \in Tickets,
         Transfer(W, to, t)
  PROVE  NFTInv'
<1>1. CASE owner[t] \in W /\ owner[t] # to
  <2>1. owner[t] \in Accounts
    BY DEF Transfer, CanTransfer, nftExists, NFTInv, NFTTypeOK
  <2>. QED  BY <1>1, <2>1, MoveInv DEF Transfer
<1>2. CASE ~(owner[t] \in W /\ owner[t] # to)
  BY <1>2, StutterInv DEF Transfer, nftVars
<1>. QED  BY <1>1, <1>2

LEMMA SetAddressInv ==
  ASSUME NFTInv, NEW W, NEW t \in Tickets, NEW a \in Addresses,
         SetAddress(W, t, a)
  PROVE  NFTInv'
BY DEF SetAddress, NFTInv, NFTTypeOK, LedgerAgrees, BalanceCounts, IndexLists,
       SupplyCounts, TokensOf, Minted, nftExists

LEMMA NextInv == NFTInv /\ [NFTNext]_nftVars => NFTInv'
<1>. SUFFICES ASSUME NFTInv, [NFTNext]_nftVars PROVE NFTInv'
  OBVIOUS
<1>1. ASSUME NEW h \in Accounts, NEW t \in Tickets, Mint(h, t) PROVE NFTInv'
  BY <1>1, MintInv
<1>2. ASSUME NEW W, NEW to \in Accounts, NEW t \in Tickets, Transfer(W, to, t)
      PROVE  NFTInv'
  BY <1>2, TransferInv
<1>3. ASSUME NEW W, NEW t \in Tickets, NEW a \in Addresses, SetAddress(W, t, a)
      PROVE  NFTInv'
  BY <1>3, SetAddressInv
<1>4. CASE UNCHANGED nftVars
  BY <1>4, StutterInv
<1>. QED  BY <1>1, <1>2, <1>3, <1>4 DEF NFTNext, NFTCall

\* The three indexes of the ticket contract agree with its items, and every
\* stored value has its type, in every state it reaches.
THEOREM NFTSafety == NFTSpec => [](NFTTypeOK /\ LedgerAgrees)
<1>. QED  BY InitNFT, NextInv, PTL DEF NFTSpec, NFTInv

LEMMA PersistStep ==
  ASSUME NFTTypeOK, NFTNext, NEW t \in Minted
  PROVE  /\ t \in Minted'
         /\ address[t] # NULL => address'[t] # NULL
         /\ address'[t] = address[t] \/ owner'[t] = owner[t]
<1>1. \A h \in Accounts : h # NULL
  BY NFTAssumption
<1>2. ASSUME NEW h \in Accounts, NEW s \in Tickets, Mint(h, s)
      PROVE  UNCHANGED <<owner[t], address[t]>>
  BY <1>2 DEF Mint, CanMint, Minted, nftExists, NFTTypeOK
<1>3. ASSUME NEW W, NEW to \in Accounts, NEW s \in Tickets, Transfer(W, to, s)
      PROVE  UNCHANGED address /\ t \in Minted'
  BY <1>1, <1>3 DEF Transfer, Move, Minted, nftExists, NFTTypeOK
<1>4. ASSUME NEW W, NEW s \in Tickets, NEW a \in Addresses, SetAddress(W, s, a)
      PROVE  UNCHANGED owner /\ (address[t] # NULL => address'[t] # NULL)
  BY <1>4, NFTAssumption DEF SetAddress, NFTTypeOK, Minted
<1>. QED  BY <1>2, <1>3, <1>4 DEF NFTNext, NFTCall, Minted, nftExists

\* No call of the ticket contract makes a minted ticket disappear or takes its
\* address from it.
THEOREM NFTPersistence == NFTSpec => TicketsPersist
<1>1. NFTTypeOK /\ [NFTNext]_nftVars =>
        [\A t \in Minted :
           /\ t \in Minted'
           /\ address[t] # NULL => address'[t] # NULL
           /\ address'[t] = address[t] \/ owner'[t] = owner[t]]_nftVars
  BY PersistStep
<1>. QED  BY <1>1, NFTSafety, PTL DEF NFTSpec, TicketsPersist
=============================================================================
