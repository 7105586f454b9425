-------------------------- MODULE DeploymentProofs --------------------------
(***************************************************************************)
(* Proofs about the deployment under the names auc.auc and nft.auc.  The   *)
(* name service keeps what NNSProofs proves of it, whose lemmas are taken  *)
(* over as DP!...: DP and Dns are the same instance.  The module adds that *)
(* only nft.auc can be an alias, and what the first of its hashes says of  *)
(* a running auction.                                                      *)
(***************************************************************************)
EXTENDS Deployment, FiniteSetTheorems, SequenceTheorems, TLAPS

AllNames == {auc, nftAuc, aucAuc}

DP == INSTANCE NNSProofs WITH
  Holders <- {Committee}, Signers <- {{Committee}},
  Labels <- {"auc", "nft"}, Names <- {auc, nftAuc, aucAuc},
  Texts <- Contracts, Aliases <- {aucAuc},
  Year <- 1, Lifetimes <- {1}

-----------------------------------------------------------------------------
\* The three names.

LEMMA Spelled ==
  /\ \A n \in AllNames : n \in Seq({"auc", "nft"}) /\ n # << >> /\ Len(n) <= 2
  /\ Len(auc) = 1 /\ Len(nftAuc) = 2 /\ Len(aucAuc) = 2
  /\ auc # nftAuc /\ auc # aucAuc /\ nftAuc # aucAuc
  /\ SubSeq(auc, 1, 1) = auc
  /\ SubSeq(nftAuc, 1, 2) = nftAuc /\ SubSeq(nftAuc, 2, 2) = auc
  /\ SubSeq(aucAuc, 1, 2) = aucAuc /\ SubSeq(aucAuc, 2, 2) = auc
<1>1. /\ \A n \in AllNames : n \in Seq({"auc", "nft"}) /\ n # << >> /\ Len(n) <= 2
      /\ Len(auc) = 1 /\ Len(nftAuc) = 2 /\ Len(aucAuc) = 2
      /\ auc # nftAuc /\ auc # aucAuc /\ nftAuc # aucAuc
  BY DEF AllNames, auc, nftAuc, aucAuc
<1>2. /\ SubSeq(auc, 1, 1) = auc
      /\ SubSeq(nftAuc, 1, 2) = nftAuc
      /\ SubSeq(aucAuc, 1, 2) = aucAuc
  BY <1>1, SubSeqFull DEF AllNames
<1>3. ASSUME NEW n \in {nftAuc, aucAuc}
      PROVE  SubSeq(n, 2, 2) = auc
  <2>1. /\ n[2] = "auc" /\ n[2] \in {"auc", "nft"}
        /\ auc \in Seq({"auc", "nft"}) /\ auc[1] = "auc"
    BY DEF auc, nftAuc, aucAuc
  <2>2. /\ SubSeq(n, 2, 2) \in Seq({"auc", "nft"})
        /\ Len(SubSeq(n, 2, 2)) = 1
        /\ SubSeq(n, 2, 2)[1] = n[2]
    BY <2>1, SubSeqProperties
  <2>. QED  BY <1>1, <2>1, <2>2, SeqEqual
<1>. QED  BY <1>1, <1>2, <1>3

LEMMA Below ==
  /\ DP!Suffixes(auc) = {auc}
  /\ DP!Suffixes(nftAuc) = {nftAuc, auc}
  /\ DP!Suffixes(aucAuc) = {aucAuc, auc}
  /\ DP!Ancestors(auc) = {}
  /\ \A n \in {nftAuc, aucAuc} : DP!Ancestors(n) = {auc}
  /\ DP!TLDs = {auc}
  /\ \A n \in AllNames : DP!TLD(n) = auc
<1>1. 1..1 = {1} /\ 1..2 = {1, 2}
  OBVIOUS
<1>. QED
  BY <1>1, Spelled DEF AllNames, DP!Suffixes, DP!Ancestors, DP!TLDs, DP!TLD

LEMMA NamesAssumed == DP!NNSAssumption
<1>1. DP!IsFiniteSet(AllNames)
  <2>1. IsFiniteSet({auc}) /\ AllNames = ({auc} \cup {nftAuc}) \cup {aucAuc}
    BY FS_Singleton DEF AllNames
  <2>2. IsFiniteSet(AllNames)
    BY <2>1, FS_AddElement
  <2>. QED  BY <2>2 DEF IsFiniteSet, DP!IsFiniteSet
<1>. QED
  BY <1>1, Spelled, Below, DeploymentAssumption DEF DP!NNSAssumption, AllNames
-----------------------------------------------------------------------------
\* Dns and DP name the same operators: both are expanded down to the variables.

LEMMA SameState ==
  ASSUME NEW n, NEW o
  PROVE  /\ Dns!NNSInit <=> DP!NNSInit
         /\ Dns!NNSTypeOK <=> DP!NNSTypeOK
         /\ Dns!Tick <=> DP!Tick
         /\ Dns!Registered(n) <=> DP!Registered(n)
         /\ Dns!Unexpired(n) <=> DP!Unexpired(n)
         /\ Dns!Live(n) <=> DP!Live(n)
         /\ Dns!IsAdmin(W, n) <=> DP!IsAdmin(W, n)
         /\ Dns!tokenIDFromName(n) = DP!tokenIDFromName(n)
         /\ Dns!Usable(n) <=> DP!Usable(n)
         /\ Dns!CanWrite(W, n) <=> DP!CanWrite(W, n)
         /\ Dns!CanRegister(W, n, o) <=> DP!CanRegister(W, n, o)
         /\ Dns!nnsVars = DP!nnsVars
BY DEF Dns!Suffixes, DP!Suffixes,
   Dns!Ancestors, DP!Ancestors, Dns!TLD, DP!TLD, Dns!TLDs, DP!TLDs,
   Dns!Types, DP!Types, Dns!Data, DP!Data,
   Dns!RecordKeys, DP!RecordKeys, Dns!nameVars, DP!nameVars, Dns!nnsVars,
   DP!nnsVars, Dns!NNSInit, DP!NNSInit, Dns!Registered, DP!Registered,
   Dns!Unexpired, DP!Unexpired, Dns!Live, DP!Live, Dns!IsAdmin, DP!IsAdmin,
   Dns!Longest, DP!Longest, Dns!Parents, DP!Parents, Dns!ParentsLive,
   DP!ParentsLive, Dns!Usable, DP!Usable, Dns!tokenIDFromName,
   DP!tokenIDFromName, Dns!CanWrite, DP!CanWrite, Dns!Key, DP!Key,
   Dns!Tick, DP!Tick, Dns!Conflict, DP!Conflict, Dns!CanRegister,
   DP!CanRegister, Dns!Entered, DP!Entered, Dns!Count, DP!Count,
   Dns!Credit, DP!Credit, Dns!Relist, DP!Relist, Dns!Enter, DP!Enter,
   Dns!Register, DP!Register, Dns!Renew, DP!Renew, Dns!Stored, DP!Stored,
   Dns!AddRecord, DP!AddRecord, Dns!SetRecord, DP!SetRecord,
   Dns!DeleteRecords, DP!DeleteRecords, Dns!Without, DP!Without,
   Dns!DeleteRecord, DP!DeleteRecord, Dns!Subdomains, DP!Subdomains,
   Dns!RegisteredNames, DP!RegisteredNames, Dns!Removed, DP!Removed,
   Dns!CanDelete, DP!CanDelete, Dns!Strike,
   DP!Strike, Dns!RootsWithout, DP!RootsWithout, Dns!DeleteDomain,
   DP!DeleteDomain, Dns!NNSTypeOK, DP!NNSTypeOK

\* The calls of the service are the same in both instances.
LEMMA SameCalls ==
  ASSUME NEW n, NEW o, NEW t, NEW d, NEW i
  PROVE  /\ Dns!Enter(n, o, 1) <=> DP!Enter(n, o, 1)
         /\ Dns!Register(W, n, o, 1) <=> DP!Register(W, n, o, 1)
         /\ Dns!DeleteDomain(W, n) <=> DP!DeleteDomain(W, n)
         /\ Dns!Renew(W, n) <=> DP!Renew(W, n)
         /\ Dns!DeleteRecords(W, n, t) <=> DP!DeleteRecords(W, n, t)
         /\ Dns!AddRecord(W, n, t, d) <=> DP!AddRecord(W, n, t, d)
         /\ Dns!SetRecord(W, n, t, i, d) <=> DP!SetRecord(W, n, t, i, d)
         /\ Dns!DeleteRecord(W, n, t, d) <=> DP!DeleteRecord(W, n, t, d)
<1>. USE DEF Dns!Cardinality, DP!Cardinality, Dns!Suffixes, DP!Suffixes,
   Dns!Ancestors, DP!Ancestors, Dns!TLD, DP!TLD, Dns!TLDs, DP!TLDs,
   Dns!Types, DP!Types, Dns!Data, DP!Data,
   Dns!RecordKeys, DP!RecordKeys, Dns!nameVars, DP!nameVars, Dns!nnsVars,
   DP!nnsVars, Dns!NNSInit, DP!NNSInit, Dns!Registered, DP!Registered,
   Dns!Unexpired, DP!Unexpired, Dns!Live, DP!Live, Dns!IsAdmin, DP!IsAdmin,
   Dns!Longest, DP!Longest, Dns!Parents, DP!Parents, Dns!ParentsLive,
   DP!ParentsLive, Dns!Usable, DP!Usable, Dns!tokenIDFromName,
   DP!tokenIDFromName, Dns!CanWrite, DP!CanWrite, Dns!Key, DP!Key,
   Dns!Tick, DP!Tick, Dns!Conflict, DP!Conflict, Dns!CanRegister,
   DP!CanRegister, Dns!Entered, DP!Entered, Dns!Count, DP!Count,
   Dns!Credit, DP!Credit, Dns!Relist, DP!Relist, Dns!Enter, DP!Enter,
   Dns!Register, DP!Register, Dns!Renew, DP!Renew, Dns!Stored, DP!Stored,
   Dns!AddRecord, DP!AddRecord, Dns!SetRecord, DP!SetRecord,
   Dns!DeleteRecords, DP!DeleteRecords, Dns!Without, DP!Without,
   Dns!DeleteRecord, DP!DeleteRecord, Dns!Subdomains, DP!Subdomains,
   Dns!RegisteredNames, DP!RegisteredNames, Dns!Removed, DP!Removed,
   Dns!CanDelete, DP!CanDelete, Dns!Strike,
   DP!Strike, Dns!RootsWithout, DP!RootsWithout, Dns!DeleteDomain,
   DP!DeleteDomain, Dns!NNSTypeOK, DP!NNSTypeOK
<1>1. Dns!Enter(n, o, 1) <=> DP!Enter(n, o, 1)
  OBVIOUS
<1>2. Dns!Register(W, n, o, 1) <=> DP!Register(W, n, o, 1)
  OBVIOUS
<1>3. Dns!DeleteDomain(W, n) <=> DP!DeleteDomain(W, n)
  OBVIOUS
<1>4. Dns!Renew(W, n) <=> DP!Renew(W, n)
  OBVIOUS
<1>5. Dns!DeleteRecords(W, n, t) <=> DP!DeleteRecords(W, n, t)
  OBVIOUS
<1>6. Dns!AddRecord(W, n, t, d) <=> DP!AddRecord(W, n, t, d)
  OBVIOUS
<1>7. Dns!SetRecord(W, n, t, i, d) <=> DP!SetRecord(W, n, t, i, d)
  OBVIOUS
<1>8. Dns!DeleteRecord(W, n, t, d) <=> DP!DeleteRecord(W, n, t, d)
  OBVIOUS
<1>. QED  BY <1>1, <1>2, <1>3, <1>4, <1>5, <1>6, <1>7, <1>8, Zenon
-----------------------------------------------------------------------------
Hashes == records[<<nftAuc, nftAuc, "TXT">>]
Alias == records[<<nftAuc, nftAuc, "CNAME">>]

\* Only nft.auc is made an alias, of auc.auc.
AliasesKnown ==
  /\ Alias \in {<< >>, <<aucAuc>>}
  /\ \A n \in {auc, aucAuc} : records[<<n, n, "CNAME">>] = << >>

\* What is stored of the contracts.
ContractsTyped ==
  /\ deployed \subseteq Contracts
  /\ tickets \in [TicketContracts -> [Tickets -> Accounts \cup {NULL}]]

\* A running auction was started in a deployed ticket contract; all is deleted
\* when there is none.
SaleStands ==
  /\ organizer \in Accounts \cup {NULL}
  /\ potentialWinner \in Accounts \cup {NULL}
  /\ rewritten \in BOOLEAN /\ (rewritten => Running)
  /\ IF Running
       THEN /\ saleAt \in deployed \cap TicketContracts
            /\ lot \in Tickets /\ initBet \in Nat /\ currentBet \in Nat
       ELSE saleAt = NULL /\ {lot, initBet, currentBet} = {NULL}

\* As long as no hash is written the first one is the contract of the sale, or
\* they are gone with the name.
HeadKept ==
  Running /\ ~rewritten => Hashes = << >> \/ Hashes[1] = saleAt

DeploymentInv ==
  DP!NNSInv /\ AliasesKnown /\ ContractsTyped /\ SaleStands /\ HeadKept
-----------------------------------------------------------------------------
\* The records of a name lie under the name itself.
LEMMA Tokens ==
  ASSUME NEW n \in AllNames
  PROVE  DP!tokenIDFromName(n) = n
BY NamesAssumed, Spelled, DP!ShortToken DEF AllNames

LEMMA Keys ==
  ASSUME NEW n \in AllNames, NEW t \in {"TXT", "CNAME"}
  PROVE  /\ <<n, n, t>> \in DP!RecordKeys
         /\ DP!Key(n, t) = <<n, n, t>>
<1>1. <<n, n, t>> \in DP!RecordKeys
  BY NamesAssumed, DP!SelfKey DEF AllNames, DP!Types
<1>2. DP!Key(n, t) = <<n, n, t>>
  BY Tokens DEF DP!Key
<1>. QED  BY <1>1, <1>2

\* All names belong to the committee, so its signature is enough.
LEMMA CommitteeOwns ==
  ASSUME DP!NNSTypeOK, NEW n \in AllNames, DP!Registered(n)
  PROVE  nameOwner[n] = Committee /\ DP!IsAdmin(W, n)
BY DEF DP!NNSTypeOK, DP!Registered, DP!IsAdmin, AllNames, W

LEMMA BelowTLD ==
  ASSUME NEW n \in {nftAuc, aucAuc}
  PROVE  /\ DP!Parents(n) = IF DP!Registered(auc) THEN {auc} ELSE {}
         /\ DP!ParentsLive(n) <=> (DP!Registered(auc) => DP!Unexpired(auc))
         /\ DP!Entered(n) = IF DP!Registered(auc) THEN {n} ELSE {n, auc}
<1>1. DP!Parents(n) = IF DP!Registered(auc) THEN {auc} ELSE {}
  BY Below DEF DP!Parents
<1>. QED
  BY <1>1, Below DEF DP!ParentsLive, DP!Entered, AllNames
-----------------------------------------------------------------------------
\* What nft.auc resolves to: the first hash, or the name it is an alias of.
LookupValue ==
  Lookup(nftAuc) =
    IF ~DP!Usable(nftAuc) \/ (Alias # << >> /\ ~DP!Usable(aucAuc)) THEN NULL
    ELSE IF Hashes # << >> THEN Hashes[1]
    ELSE IF Alias # << >> THEN aucAuc ELSE NULL

LEMMA ResolveOnce ==
  ASSUME NEW next, NEW n \in AllNames
  PROVE  LET own == records[<<n, n, "TXT">>]
             alias == records[<<n, n, "CNAME">>]
             found == Dns!Follow("TXT", next)[n]
         IN /\ ~DP!Usable(n) => found = NULL
            /\ DP!Usable(n) /\ alias = << >> => found = own
            /\ DP!Usable(n) /\ alias # << >> =>
                 found = IF next[alias[1]] = NULL THEN NULL
                         ELSE (own \o alias) \o next[alias[1]]
<1>1. /\ Dns!tokenIDFromName(n) = n
      /\ Dns!Usable(n) <=> DP!Usable(n)
  BY SameState, Tokens
<1>. QED  BY <1>1 DEF Dns!Follow, Dns!Key, AllNames

LEMMA LookupIs == DP!NNSInv /\ AliasesKnown => LookupValue
<1>. SUFFICES ASSUME DP!NNSInv, AliasesKnown PROVE LookupValue
  OBVIOUS
<1>. DEFINE D == Contracts \cup {aucAuc}
            later == Dns!Follow("TXT", Dns!InvalidRedirect)
            next == Dns!Follow("TXT", later)
            found == Dns!resolve("TXT")[nftAuc]
            rest == records[<<aucAuc, aucAuc, "TXT">>]
<1>1. Hashes \in Seq(D) /\ rest \in Seq(D)
  <2>1. records \in [DP!RecordKeys -> Seq(D)]
    BY DEF DP!NNSInv, DP!NNSTypeOK
  <2>. HIDE DEF D
  <2>. QED  BY <2>1, Keys DEF Hashes, AllNames
<1>2. \A s \in Seq(D) : s # NULL
  BY DeploymentAssumption
<1>3. found = Dns!Follow("TXT", next)[nftAuc]
  BY DEF Dns!resolve
<1>4. next[aucAuc] = IF DP!Usable(aucAuc) THEN rest ELSE NULL
  <2>. HIDE DEF later
  <2>. QED  BY ResolveOnce DEF AliasesKnown, AllNames
<1>. HIDE DEF next, found, rest
<1>5. CASE ~DP!Usable(nftAuc)
  <2>1. found = NULL
    BY <1>3, <1>5, ResolveOnce DEF AllNames
  <2>. QED  BY <1>5, <2>1 DEF Lookup, LookupValue, found
<1>6. CASE DP!Usable(nftAuc) /\ Alias = << >>
  <2>1. found = Hashes
    BY <1>3, <1>6, ResolveOnce DEF AllNames, Alias, Hashes
  <2>2. Hashes # NULL
    BY <1>1, <1>2
  <2>. QED  BY <1>6, <2>1, <2>2 DEF Lookup, LookupValue, found
<1>7. CASE DP!Usable(nftAuc) /\ Alias # << >>
  <2>1. Alias = <<aucAuc>> /\ Alias[1] = aucAuc /\ Alias # << >>
    BY <1>7 DEF AliasesKnown
  <2>2. found = IF next[aucAuc] = NULL THEN NULL
                ELSE (Hashes \o Alias) \o next[aucAuc]
    BY <1>3, <1>7, <2>1, ResolveOnce DEF AllNames, Alias, Hashes
  <2>3. CASE ~DP!Usable(aucAuc)
    <3>1. found = NULL
      BY <1>4, <2>2, <2>3
    <3>. QED  BY <1>7, <2>3, <3>1 DEF Lookup, LookupValue, found
  <2>4. CASE DP!Usable(aucAuc)
    <3>1. found = (Hashes \o <<aucAuc>>) \o rest
      BY <1>1, <1>2, <1>4, <2>1, <2>2, <2>4
    <3>2. /\ found \in Seq(D) /\ found # << >>
          /\ found[1] = IF Hashes # << >> THEN Hashes[1] ELSE aucAuc
      <4>1. aucAuc \in D
        OBVIOUS
      <4>. HIDE DEF D
      <4>2. <<aucAuc>> \in Seq(D) /\ Len(<<aucAuc>>) = 1 /\ <<aucAuc>>[1] = aucAuc
        BY <4>1
      <4>. DEFINE first == Hashes \o <<aucAuc>>
      <4>3. /\ first \in Seq(D) /\ Len(first) = Len(Hashes) + 1
            /\ first[1] = IF 1 <= Len(Hashes) THEN Hashes[1] ELSE aucAuc
        BY <1>1, <4>2
      <4>4. Len(Hashes) \in Nat /\ (Hashes # << >> <=> 1 <= Len(Hashes))
        BY <1>1
      <4>5. found = first \o rest
        BY <3>1
      <4>. HIDE DEF first
      <4>6. /\ found \in Seq(D) /\ Len(found) = Len(first) + Len(rest)
            /\ 1 <= Len(first) => found[1] = first[1]
        <5>1. /\ first \o rest \in Seq(D)
              /\ Len(first \o rest) = Len(first) + Len(rest)
              /\ \A i \in 1..Len(first) + Len(rest) :
                   (first \o rest)[i] = IF i <= Len(first) THEN first[i]
                                        ELSE rest[i - Len(first)]
          BY <1>1, <4>3, ConcatProperties, Zenon
        <5>2. Len(first) \in Nat /\ Len(rest) \in Nat
          BY <1>1, <4>3
        <5>3. 1 <= Len(first) => 1 \in 1..Len(first) + Len(rest)
          BY <5>2
        <5>. QED  BY <4>5, <5>1, <5>3
      <4>7. Len(rest) \in Nat
        BY <1>1
      <4>. QED  BY <4>3, <4>4, <4>6, <4>7
    <3>3. found # NULL
      BY <1>2, <3>2
    <3>. QED  BY <1>7, <2>4, <3>2, <3>3 DEF Lookup, LookupValue, found
  <2>. QED  BY <2>3, <2>4
<1>. QED  BY <1>5, <1>6, <1>7

LEMMA LookupIsNext == (DP!NNSInv /\ AliasesKnown)' => LookupValue'
BY LookupIs, PTL

\* A contract that the name stands for is its first hash.
LEMMA LookupIsHead ==
  ASSUME DP!NNSInv, AliasesKnown, NEW c \in Contracts, Lookup(nftAuc) = c
  PROVE  DP!Usable(nftAuc) /\ Hashes # << >> /\ Hashes[1] = c
<1>1. c # NULL /\ c # aucAuc
  BY DeploymentAssumption DEF Accounts
<1>. QED  BY <1>1, LookupIs DEF LookupValue
-----------------------------------------------------------------------------
LEMMA InitDeployment == Init => DeploymentInv
<1>. SUFFICES ASSUME Init PROVE DeploymentInv
  OBVIOUS
<1>1. DP!NNSInit
  BY SameState DEF Init
<1>2. DP!NNSInv
  BY <1>1, NamesAssumed, DP!InitNNS
<1>3. AliasesKnown
  BY <1>1, Keys DEF AliasesKnown, Alias, DP!NNSInit, AllNames
<1>4. ContractsTyped /\ SaleStands /\ HeadKept
  BY DEF Init, ContractsTyped, SaleStands, HeadKept, Running
<1>. QED  BY <1>2, <1>3, <1>4 DEF DeploymentInv

\* What the calls of the name service leave alone.
LEMMA SaleStays ==
  ASSUME ContractsTyped, SaleStands, UNCHANGED <<auctionVars, tickets, saleAt>>,
         rewritten' \in {rewritten, Running},
         NEW new \in SUBSET Contracts, deployed' = deployed \cup new
  PROVE  ContractsTyped' /\ SaleStands'
BY DEF ContractsTyped, SaleStands, Running, auctionVars

\* A step that writes one list of records at most, and no hash of nft.auc unless
\* that is noted.
LEMMA ListWritten ==
  ASSUME DeploymentInv, UNCHANGED <<organizer, saleAt>>,
         NEW n \in AllNames, NEW type \in {"TXT", "CNAME"}, NEW s,
         records' = [records EXCEPT ![<<n, n, type>>] = s],
         type = "CNAME" => n = nftAuc /\ s \in {<< >>, <<aucAuc>>},
         IF n = nftAuc /\ type = "TXT" THEN rewritten' = Running
                                      ELSE rewritten' = rewritten
  PROVE  AliasesKnown' /\ HeadKept'
<1>1. DOMAIN records = DP!RecordKeys
  BY DEF DeploymentInv, DP!NNSInv, DP!NNSTypeOK
<1>2. \A m \in AllNames, t \in {"TXT", "CNAME"} :
        records'[<<m, m, t>>] = IF m = n /\ t = type THEN s
                                ELSE records[<<m, m, t>>]
  BY <1>1, Keys
<1>3. AliasesKnown'
  BY <1>2, Spelled DEF DeploymentInv, AliasesKnown, Alias, AllNames
<1>4. HeadKept'
  BY <1>2 DEF DeploymentInv, HeadKept, Hashes, Running, AllNames
<1>. QED  BY <1>3, <1>4

LEMMA NoneWritten ==
  ASSUME DeploymentInv, UNCHANGED <<organizer, saleAt, rewritten, records>>
  PROVE  AliasesKnown' /\ HeadKept'
BY DEF DeploymentInv, AliasesKnown, Alias, HeadKept, Hashes, Running

LEMMA TickKeeps == DeploymentInv /\ Tick => DeploymentInv'
<1>. SUFFICES ASSUME DeploymentInv, Tick PROVE DeploymentInv'
  OBVIOUS
<1>1. DP!Tick
  BY SameState DEF Tick
<1>2. DP!NNSInv'
  BY <1>1, NamesAssumed, DP!TickInv DEF DeploymentInv
<1>3. AliasesKnown' /\ HeadKept'
  BY <1>1, NoneWritten DEF Tick, DP!Tick, auctionVars, saleVars
<1>4. ContractsTyped' /\ SaleStands'
  <2>1. {} \in SUBSET Contracts /\ deployed' = deployed \cup {}
    BY DEF Tick
  <2>. QED  BY <2>1, SaleStays DEF Tick, DeploymentInv, saleVars
<1>. QED  BY <1>2, <1>3, <1>4 DEF DeploymentInv

LEMMA ManageIsCall == ManageNames \/ WriteHashes => DP!NNSCall(W)
<1>1. /\ nftAuc \in AllNames /\ auc \in AllNames
      /\ Committee \in {Committee} /\ 1 \in {1}
      /\ "TXT" \in DP!Types /\ "CNAME" \in DP!Types
      /\ \A c \in deployed \cap TicketContracts : c \in DP!Data("TXT")
      /\ aucAuc \in DP!Data("CNAME")
  BY DEF AllNames, DP!Types, DP!Data, Contracts
<1>2. CASE ManageNames
  BY <1>1, <1>2, SameCalls DEF ManageNames, DP!NNSCall, AllNames
<1>3. CASE WriteHashes
  BY <1>1, <1>3, SameCalls DEF WriteHashes, DP!NNSCall, AllNames
<1>. QED  BY <1>2, <1>3

LEMMA CallKeepsNames ==
  ASSUME DeploymentInv, ManageNames \/ WriteHashes
  PROVE  DP!NNSInv' /\ ContractsTyped' /\ SaleStands'
<1>1. DP!NNSInv'
  <2>1. DP!NNSCall(W) /\ W \in {{Committee}}
    BY ManageIsCall DEF W
  <2>. QED  BY <2>1, NamesAssumed, DP!CallInv DEF DeploymentInv
<1>2. ContractsTyped' /\ SaleStands'
  <2>1. {} \in SUBSET Contracts /\ deployed' = deployed \cup {}
    BY DEF ManageNames, WriteHashes
  <2>2. /\ UNCHANGED <<auctionVars, tickets, saleAt>>
        /\ rewritten' \in {rewritten, Running}
    BY DEF ManageNames, WriteHashes, saleVars
  <2>. QED  BY <2>1, <2>2, SaleStays DEF DeploymentInv
<1>. QED  BY <1>1, <1>2

LEMMA ManageKeeps == DeploymentInv /\ ManageNames => DeploymentInv'
<1>. SUFFICES ASSUME DeploymentInv, ManageNames PROVE DeploymentInv'
  OBVIOUS
<1>1. UNCHANGED <<organizer, saleAt, rewritten>>
  BY DEF ManageNames, auctionVars, saleVars
<1>2. CASE \/ DP!Register(W, nftAuc, Committee, 1)
           \/ \E n \in {auc, nftAuc} : DP!Renew(W, n)
  <2>1. records' = records
    BY <1>2 DEF DP!Register, DP!Renew
  <2>. QED  BY <1>1, <2>1, NoneWritten, CallKeepsNames DEF DeploymentInv
<1>3. CASE DP!DeleteDomain(W, nftAuc)
  <2>1. records' = DP!Strike(DP!Removed(nftAuc))
    BY <1>3 DEF DP!DeleteDomain
  <2>2. \A n \in AllNames, t \in {"TXT", "CNAME"} :
          records'[<<n, n, t>>] \in {<< >>, records[<<n, n, t>>]}
    BY <2>1, Keys DEF DP!Strike
  <2>3. AliasesKnown' /\ HeadKept'
    BY <1>1, <2>2
    DEF DeploymentInv, AliasesKnown, Alias, HeadKept, Hashes, Running, AllNames
  <2>. QED  BY <2>3, CallKeepsNames DEF DeploymentInv
<1>4. CASE \/ DP!AddRecord(W, nftAuc, "CNAME", aucAuc)
           \/ DP!DeleteRecords(W, nftAuc, "CNAME")
  <2>1. DP!Key(nftAuc, "CNAME") = <<nftAuc, nftAuc, "CNAME">> /\ nftAuc \in AllNames
    BY Keys DEF AllNames
  <2>2. Append(<< >>, aucAuc) = <<aucAuc>>
    OBVIOUS
  <2>3. \E s \in {<< >>, <<aucAuc>>} :
          records' = [records EXCEPT ![<<nftAuc, nftAuc, "CNAME">>] = s]
    <3>1. CASE DP!DeleteRecords(W, nftAuc, "CNAME")
      BY <2>1, <3>1 DEF DP!DeleteRecords
    <3>2. CASE DP!AddRecord(W, nftAuc, "CNAME", aucAuc)
      <4>1. /\ Alias = << >>
            /\ records' = [records EXCEPT ![<<nftAuc, nftAuc, "CNAME">>] =
                                             Append(Alias, aucAuc)]
        BY <2>1, <3>2 DEF DP!AddRecord, Alias
      <4>. QED  BY <2>2, <4>1
    <3>. QED  BY <1>4, <3>1, <3>2
  <2>. QED  BY <1>1, <2>1, <2>3, ListWritten, CallKeepsNames DEF DeploymentInv
<1>. QED  BY <1>2, <1>3, <1>4, SameCalls DEF ManageNames

LEMMA WriteKeeps == DeploymentInv /\ WriteHashes => DeploymentInv'
<1>. SUFFICES ASSUME DeploymentInv, WriteHashes PROVE DeploymentInv'
  OBVIOUS
<1>1. DP!Key(nftAuc, "TXT") = <<nftAuc, nftAuc, "TXT">> /\ nftAuc \in AllNames
  BY Keys DEF AllNames
<1>2. \E s : records' = [records EXCEPT ![<<nftAuc, nftAuc, "TXT">>] = s]
  <2>1. \/ DP!DeleteRecords(W, nftAuc, "TXT")
        \/ \E c \in deployed \cap TicketContracts :
             \/ DP!AddRecord(W, nftAuc, "TXT", c)
             \/ \E i \in 1..MaxRecords : DP!SetRecord(W, nftAuc, "TXT", i, c)
             \/ DP!DeleteRecord(W, nftAuc, "TXT", c)
    BY SameCalls DEF WriteHashes
  <2>. QED
    BY <1>1, <2>1
    DEF DP!AddRecord, DP!SetRecord, DP!DeleteRecord, DP!DeleteRecords
<1>3. UNCHANGED <<organizer, saleAt>> /\ rewritten' = Running
  BY DEF WriteHashes, auctionVars
<1>. QED  BY <1>1, <1>2, <1>3, ListWritten, CallKeepsNames DEF DeploymentInv

LEMMA DeployKeeps ==
  ASSUME DeploymentInv, NEW h \in Contracts,
         NEW n \in {nftAuc, aucAuc}, Deploy(h, n)
  PROVE  DeploymentInv'
<1>1. DP!NNSInv
  BY DEF DeploymentInv
<1>2. /\ DP!CanRegister(W, n, Committee)
      /\ IF DP!Live(n) THEN UNCHANGED nameVars ELSE DP!Enter(n, Committee, 1)
      /\ records' = [records EXCEPT ![<<n, n, "TXT">>] = <<h>>]
      /\ now' = now
  BY SameState, SameCalls DEF Deploy, PutHash
<1>3. n \in AllNames /\ Committee \in {Committee} /\ 1 \in {1}
  BY DEF AllNames
<1>4. records' \in [DP!RecordKeys -> Seq(Contracts \cup {aucAuc})]
  <2>1. <<h>> \in Seq(Contracts \cup {aucAuc})
    OBVIOUS
  <2>. QED  BY <1>1, <1>2, <2>1 DEF DP!NNSInv, DP!NNSTypeOK
<1>5. \A m, t : m # n => records'[<<m, m, t>>] = records[<<m, m, t>>]
  BY <1>2
<1>6. DP!NNSInv'
  <2>1. CASE DP!Live(n)
    <3>1. DP!Registered(n) /\ UNCHANGED nameVars
      BY <1>2, <2>1 DEF DP!Live
    <3>. QED
      BY <1>1, <1>2, <1>4, <1>5, <3>1, NamesAssumed, DP!OwnersStay
      DEF nameVars, DP!NNSInv, DP!NNSTypeOK
  <2>2. CASE ~DP!Live(n)
    <3>1. n \in DP!Entered(n)
      BY DEF DP!Entered
    <3>. QED
      BY <1>1, <1>2, <1>3, <1>4, <1>5, <2>2, <3>1, NamesAssumed, DP!EnterInv
      DEF AllNames
  <2>. QED  BY <2>1, <2>2
<1>7. AliasesKnown' /\ HeadKept'
  <2>1. /\ UNCHANGED <<organizer, saleAt>>
        /\ rewritten' = (rewritten \/ (Running /\ n = nftAuc))
        /\ rewritten \in BOOLEAN /\ (rewritten => Running)
    BY DEF Deploy, auctionVars, DeploymentInv, SaleStands
  <2>2. IF n = nftAuc THEN rewritten' = Running ELSE rewritten' = rewritten
    BY <2>1 DEF Running
  <2>. QED  BY <1>2, <1>3, <2>1, <2>2, ListWritten
<1>8. ContractsTyped' /\ SaleStands'
  <2>1. {h} \in SUBSET Contracts /\ deployed' = deployed \cup {h}
    BY DEF Deploy
  <2>2. rewritten' \in {rewritten, Running}
    BY DEF Deploy, DeploymentInv, SaleStands, Running
  <2>. QED  BY <2>1, <2>2, SaleStays DEF Deploy, DeploymentInv
<1>. QED  BY <1>6, <1>7, <1>8 DEF DeploymentInv
-----------------------------------------------------------------------------
\* Calls that write no names.
LEMMA NamesStay ==
  ASSUME DeploymentInv, UNCHANGED nnsVars
  PROVE  DP!NNSInv' /\ AliasesKnown' /\ Hashes' = Hashes
<1>1. DP!NNSInv'
  BY NamesAssumed, DP!OwnersStay
  DEF DeploymentInv, nnsVars, nameVars, DP!NNSInv, DP!NNSTypeOK
<1>. QED
  BY <1>1 DEF DeploymentInv, AliasesKnown, Alias, Hashes, nnsVars

LEMMA StartKeeps ==
  ASSUME DeploymentInv, NEW c \in TicketContracts, NEW u \in Accounts,
         NEW t \in Tickets, NEW b \in Bets, Start(c, u, t, b)
  PROVE  DeploymentInv'
<1>1. /\ Sale(c)!CanStart(u, t, b) /\ c \in deployed
      /\ organizer' = u /\ lot' = t /\ initBet' = b /\ currentBet' = b
      /\ saleAt' = c /\ rewritten' = FALSE
      /\ UNCHANGED <<potentialWinner, nnsVars, deployed, tickets>>
  BY DEF Start, Sale!Start, NamedNow
<1>2. b \in Nat /\ u # NULL
  BY <1>1, DeploymentAssumption DEF Sale!CanStart
<1>3. ContractsTyped' /\ SaleStands'
  BY <1>1, <1>2 DEF DeploymentInv, ContractsTyped, SaleStands, Running
<1>4. Hashes[1] = c
  BY LookupIsHead DEF DeploymentInv, Start, NamedNow, Contracts
<1>5. HeadKept'
  BY <1>1, <1>4, NamesStay DEF HeadKept
<1>. QED  BY <1>1, <1>3, <1>5, NamesStay DEF DeploymentInv

LEMMA MakeBetKeeps ==
  ASSUME DeploymentInv, NEW c \in TicketContracts, NEW u \in Accounts,
         NEW b \in Bets, MakeBet(c, u, b)
  PROVE  DeploymentInv'
<1>1. /\ organizer # NULL /\ b > currentBet
      /\ currentBet' = b /\ potentialWinner' = u
      /\ UNCHANGED <<organizer, lot, initBet, nnsVars, deployed, tickets,
                     saleAt, rewritten>>
  BY DEF MakeBet, saleVars, Sale!MakeBet, Sale!CanMakeBet
<1>2. b \in Nat
  BY <1>1, DeploymentAssumption DEF DeploymentInv, SaleStands, Running
<1>3. ContractsTyped' /\ SaleStands'
  BY <1>1, <1>2 DEF DeploymentInv, ContractsTyped, SaleStands, Running
<1>4. HeadKept'
  BY <1>1, NamesStay DEF DeploymentInv, HeadKept, Running
<1>. QED  BY <1>1, <1>3, <1>4, NamesStay DEF DeploymentInv

LEMMA RewriteTyped ==
  ASSUME ContractsTyped, NEW c \in TicketContracts, Rewrite(c)
  PROVE  tickets' \in [TicketContracts -> [Tickets -> Accounts \cup {NULL}]]
BY DEF ContractsTyped, Rewrite

LEMMA FinishKeeps ==
  ASSUME DeploymentInv, NEW c \in TicketContracts, NEW u, NEW a,
         Finish(c, u, a)
  PROVE  DeploymentInv'
<1>1. /\ Sale(c)!clearStorage /\ Rewrite(c)
      /\ saleAt' = NULL /\ rewritten' = FALSE
      /\ UNCHANGED <<nnsVars, deployed>>
  BY DEF Finish, Sale!Finish
<1>2. ContractsTyped' /\ SaleStands' /\ HeadKept'
  BY <1>1, RewriteTyped
  DEF DeploymentInv, ContractsTyped, SaleStands, HeadKept, Running,
      Sale!clearStorage
<1>. QED  BY <1>1, <1>2, NamesStay DEF DeploymentInv

LEMMA TicketCallKeeps ==
  ASSUME DeploymentInv, NEW c \in TicketContracts, NEW u, TicketCall(c, u)
  PROVE  DeploymentInv'
<1>1. Rewrite(c) /\ UNCHANGED <<auctionVars, nnsVars, deployed, saleVars>>
  BY DEF TicketCall
<1>2. ContractsTyped' /\ SaleStands'
  BY <1>1, RewriteTyped
  DEF DeploymentInv, ContractsTyped, SaleStands, Running, auctionVars, saleVars
<1>3. HeadKept'
  BY <1>1, NamesStay DEF DeploymentInv, HeadKept, Running, auctionVars, saleVars
<1>. QED  BY <1>1, <1>2, <1>3, NamesStay DEF DeploymentInv

LEMMA StepKeeps == DeploymentInv /\ [Next]_vars => DeploymentInv'
<1>. SUFFICES ASSUME DeploymentInv, [Next]_vars PROVE DeploymentInv'
  OBVIOUS
<1>1. CASE Tick
  BY <1>1, TickKeeps
<1>2. CASE ManageNames \/ WriteHashes
  BY <1>2, ManageKeeps, WriteKeeps
<1>3. CASE Deploy(House, aucAuc)
  BY <1>3, DeployKeeps DEF Contracts
<1>4. ASSUME NEW c \in TicketContracts,
             \/ Deploy(c, nftAuc)
             \/ \E u \in Users : TicketCall(c, u)
             \/ \E a \in Accounts, t \in Tickets, b \in Bets : Start(c, a, t, b)
             \/ \E a \in Accounts, b \in Bets : MakeBet(c, a, b)
             \/ \E u \in Users, a \in Accounts : Finish(c, u, a)
      PROVE  DeploymentInv'
  BY <1>4, DeployKeeps, TicketCallKeeps, StartKeeps, MakeBetKeeps, FinishKeeps
  DEF Contracts
<1>5. CASE UNCHANGED vars
  <2>1. ContractsTyped' /\ SaleStands'
    BY <1>5
    DEF vars, auctionVars, saleVars, DeploymentInv, ContractsTyped, SaleStands,
        Running
  <2>2. AliasesKnown' /\ HeadKept'
    BY <1>5, NoneWritten DEF vars, nnsVars, auctionVars, saleVars
  <2>. QED  BY <1>5, <2>1, <2>2, NamesStay DEF vars, DeploymentInv
<1>. QED  BY <1>1, <1>2, <1>3, <1>4, <1>5 DEF Next
-----------------------------------------------------------------------------
\* Every reachable value has its type, for any wallets, tickets and contracts,
\* and an auction runs when and only when it was started in a deployed contract.
THEOREM DeploymentTyped == Spec => []DeploymentTypeOK
<1>1. DeploymentInv => DeploymentTypeOK
  <2>. SUFFICES ASSUME DeploymentInv PROVE DeploymentTypeOK
    OBVIOUS
  <2>1. Dns!NNSTypeOK
    BY SameState DEF DeploymentInv, DP!NNSInv
  <2>2. \A c \in TicketContracts : Sale(c)!AuctionTypeOK
    BY DEF DeploymentInv, SaleStands, Sale!AuctionTypeOK, Sale!Accounts, Accounts
  <2>. QED
    BY <2>1, <2>2
    DEF DeploymentInv, ContractsTyped, SaleStands, DeploymentTypeOK
<1>. QED  BY <1>1, InitDeployment, StepKeeps, PTL DEF Spec

\* While an auction runs and no hash of nft.auc is written, the name stands for
\* the contract of the sale or for none: no lease that ends, no deletion, new
\* registration or alias gives the same ticket of another contract away.
THEOREM SaleKeepsName == Spec => []SaleStaysNamed
<1>1. DeploymentInv => SaleStaysNamed
  <2>. SUFFICES ASSUME DeploymentInv, Running, ~rewritten, NEW c \in deployed,
                       Lookup(nftAuc) = c
                PROVE  c = saleAt
    BY DEF SaleStaysNamed
  <2>1. c \in Contracts
    BY DEF DeploymentInv, ContractsTyped
  <2>. QED  BY <2>1, LookupIsHead DEF DeploymentInv, HeadKept
<1>. QED  BY <1>1, InitDeployment, StepKeeps, PTL DEF Spec

\* Both contracts can be deployed under their names in every reachable state in
\* which the TLD has not expired: no mistake below it is final.
THEOREM Redeployable == Spec => []AlwaysRedeployable
<1>1. DeploymentInv => AlwaysRedeployable
  <2>. SUFFICES ASSUME DeploymentInv, ~Expired(auc), NEW n \in {nftAuc, aucAuc}
                PROVE  /\ DP!CanRegister(W, n, Committee)
                       /\ DP!Live(n) => DP!CanWrite(W, n)
    BY SameState DEF AlwaysRedeployable
  <2>1. /\ DP!NNSTypeOK /\ n \in AllNames /\ auc \in AllNames
        /\ DP!ParentsLive(n)
    BY SameState, BelowTLD DEF Expired, DeploymentInv, DP!NNSInv, AllNames
  <2>2. DP!CanRegister(W, n, Committee)
    <3>1. CASE DP!Registered(auc)
      <4>1. DP!Longest({auc}) = auc
        BY Spelled DEF DP!Longest
      <4>2. DP!Longest(DP!Parents(n)) = auc /\ DP!Parents(n) # {}
        BY <3>1, <4>1, BelowTLD
      <4>3. \A m \in AllNames : n \notin DP!Ancestors(m)
        BY Below, Spelled DEF AllNames
      <4>4. ~DP!Conflict(auc, n)
        BY <4>3 DEF DP!Conflict, DP!RecordKeys, AllNames
      <4>. QED  BY <2>1, <3>1, <4>2, <4>4, CommitteeOwns DEF DP!CanRegister, W
    <3>2. CASE ~DP!Registered(auc)
      <4>1. DP!Parents(n) = {} /\ DP!TLD(n) = auc
        BY <2>1, <3>2, BelowTLD, Below
      <4>2. auc \notin roots
        BY <3>2 DEF DeploymentInv, DP!NNSInv, DP!ZonesConsistent, DP!RegisteredNames
      <4>. QED  BY <2>1, <4>1, <4>2 DEF DP!CanRegister, W
    <3>. QED  BY <3>1, <3>2
  <2>3. DP!Live(n) => DP!CanWrite(W, n)
    BY <2>1, Tokens, CommitteeOwns DEF DP!CanWrite, DP!Usable, DP!Live
  <2>. QED  BY <2>2, <2>3
<1>. QED  BY <1>1, InitDeployment, StepKeeps, PTL DEF Spec
-----------------------------------------------------------------------------
LEMMA StaleTLD ==
  ASSUME Expired(auc)
  PROVE  /\ DP!Stale(auc)
         /\ ~DP!Usable(nftAuc)
         /\ \A n \in {nftAuc, aucAuc} : ~DP!CanRegister(W, n, Committee)
<1>1. DP!Registered(auc) /\ ~DP!Unexpired(auc)
  BY SameState DEF Expired
<1>. QED
  BY <1>1, BelowTLD
  DEF DP!Stale, DP!RegisteredNames, DP!Usable, DP!CanRegister

\* With the TLD the auction house closes for ever: it stays expired, nothing is
\* deployed and no auction started or finished, in any number of steps.
THEOREM HouseCloses == Spec => HouseClosesWithTLD
<1>. DEFINE Closed == Expired(auc)' /\ UNCHANGED <<organizer, deployed>>
<1>1. ASSUME DeploymentInv, [Next]_vars, Expired(auc) PROVE Closed
  <2>1. DP!NNSInv /\ DP!Stale(auc) /\ auc \in DP!TLDs
    BY <1>1, StaleTLD, Below DEF DeploymentInv
  <2>2. DP!Frozen(auc) => Expired(auc)'
    BY <2>1
    DEF DP!Frozen, Expired, Dns!Registered, Dns!Unexpired, DP!Registered,
        DP!Unexpired
  <2>3. UNCHANGED nnsVars => Expired(auc)'
    BY <1>1 DEF nnsVars, nameVars, Expired, Dns!Registered, Dns!Unexpired
  <2>4. CASE Tick
    <3>1. DP!Tick
      BY <2>4, SameState DEF Tick
    <3>. QED
      BY <2>1, <2>2, <2>4, <3>1, NamesAssumed, DP!TickFrozen DEF Tick, auctionVars
  <2>5. CASE ManageNames \/ WriteHashes
    <3>1. DP!NNSCall(W) /\ W \in {{Committee}}
      BY <2>5, ManageIsCall DEF W
    <3>. QED
      BY <2>1, <2>2, <2>5, <3>1, NamesAssumed, DP!CallFrozen
      DEF ManageNames, WriteHashes, auctionVars
  <2>6. ASSUME NEW h, NEW n \in {nftAuc, aucAuc}, Deploy(h, n) PROVE Closed
    BY <1>1, <2>6, StaleTLD, SameState DEF Deploy
  <2>7. ASSUME NEW c \in TicketContracts, NamedNow(c) PROVE FALSE
    BY <1>1, <2>7, StaleTLD, LookupIsHead DEF NamedNow, DeploymentInv, Contracts
  <2>8. ASSUME NEW c \in TicketContracts,
               \/ \E u \in Users : TicketCall(c, u)
               \/ \E a \in Accounts, b \in Bets : MakeBet(c, a, b)
        PROVE  Closed
    BY <2>3, <2>8 DEF TicketCall, auctionVars, MakeBet, Sale!MakeBet
  <2>9. CASE UNCHANGED vars
    BY <2>3, <2>9 DEF vars, auctionVars
  <2>. QED
    BY <1>1, <2>4, <2>5, <2>6, <2>7, <2>8, <2>9 DEF Next, Start, Finish
<1>2. DeploymentInv /\ [Next]_vars => [Expired(auc) => Closed]_vars
  BY <1>1
<1>. QED
  BY <1>2, InitDeployment, StepKeeps, PTL DEF Spec, HouseClosesWithTLD

LEMMA SameUsableNext == Dns!Usable(aucAuc)' <=> DP!Usable(aucAuc)'
<1>1. Dns!Usable(aucAuc) <=> DP!Usable(aucAuc)
  BY SameState
<1>. QED  BY <1>1, PTL

\* The name that a contract is deployed under stands for that contract, whatever
\* was stored there before, unless it is the alias of a name that is not live:
\* then it stands for nothing.
THEOREM DeploymentWins == Spec => DeployTakesOver
<1>. DEFINE Stands(c) ==
              Lookup(nftAuc)' =
                IF Aliased(nftAuc)' /\ ~Dns!Usable(aucAuc)' THEN NULL ELSE c
            Wins == \A c \in TicketContracts \ deployed :
                      c \in deployed' => Stands(c)
<1>1. ASSUME DeploymentInv, NEW c \in TicketContracts, Deploy(c, nftAuc)
      PROVE  Stands(c)
  <2>1. /\ DP!CanRegister(W, nftAuc, Committee)
        /\ IF DP!Live(nftAuc) THEN UNCHANGED nameVars
                              ELSE DP!Enter(nftAuc, Committee, 1)
        /\ records' = [records EXCEPT ![<<nftAuc, nftAuc, "TXT">>] = <<c>>]
        /\ now' = now
    BY <1>1, SameState, SameCalls DEF Deploy, PutHash
  <2>2. now \in Nat /\ Committee # NULL
    BY <1>1, DeploymentAssumption DEF DeploymentInv, DP!NNSInv, DP!NNSTypeOK
  <2>3. DP!ParentsLive(nftAuc) /\ nftAuc \in AllNames /\ auc \in AllNames
    BY <2>1 DEF DP!CanRegister, AllNames
  <2>4. DP!Live(nftAuc)' /\ (DP!Registered(auc) => DP!Unexpired(auc))'
    <3>1. CASE DP!Live(nftAuc)
      BY <2>1, <2>3, <3>1, BelowTLD
      DEF nameVars, DP!Live, DP!Registered, DP!Unexpired
    <3>2. CASE ~DP!Live(nftAuc)
      <4>1. \A m \in AllNames :
              /\ nameOwner'[m] = IF m \in DP!Entered(nftAuc) THEN Committee
                                 ELSE nameOwner[m]
              /\ expiration'[m] = IF m \in DP!Entered(nftAuc) THEN now + 1
                                  ELSE expiration[m]
        BY <2>1, <3>2 DEF DP!Enter, AllNames
      <4>2. nftAuc \in DP!Entered(nftAuc)
        BY DEF DP!Entered
      <4>3. auc \notin DP!Entered(nftAuc) => DP!Registered(auc) /\ DP!Unexpired(auc)
        BY <2>3, BelowTLD
      <4>. QED
        BY <2>1, <2>2, <2>3, <4>1, <4>2, <4>3
        DEF DP!Live, DP!Registered, DP!Unexpired
    <3>. QED  BY <3>1, <3>2
  <2>5. DP!Usable(nftAuc)'
    BY <2>4, Below DEF DP!Usable, DP!ParentsLive, DP!Parents
  <2>6. LookupValue'
    BY <1>1, DeployKeeps, LookupIsNext DEF DeploymentInv, Contracts
  <2>7. Hashes' = <<c>>
    BY <1>1, <2>1, <2>3, Keys DEF DeploymentInv, DP!NNSInv, DP!NNSTypeOK, Hashes
  <2>8. Aliased(nftAuc)' <=> Alias' # << >>
    BY DEF Aliased, Alias
  <2>9. <<c>> # << >> /\ <<c>>[1] = c
    OBVIOUS
  <2>. QED
    BY <2>5, <2>6, <2>7, <2>8, <2>9, SameUsableNext DEF LookupValue
<1>2. ASSUME DeploymentInv, [Next]_vars, NEW c \in TicketContracts \ deployed,
             c \in deployed'
      PROVE  Stands(c)
  <2>1. Deploy(c, nftAuc)
    BY <1>2, DeploymentAssumption
    DEF Next, vars, Tick, ManageNames, WriteHashes, Deploy, TicketCall, Start,
        MakeBet, Finish
  <2>. QED  BY <1>1, <1>2, <2>1
<1>3. DeploymentInv /\ [Next]_vars => [Wins]_vars
  BY <1>2
<1>. QED
  BY <1>3, InitDeployment, StepKeeps, PTL DEF Spec, DeployTakesOver

\* Deleting a hash of nft.auc loses none of the others, however often it is
\* stored: a name whose first hash stays keeps standing for what it did.
THEOREM HashesSurvive == Spec => DeleteLosesNothing
<1>1. ASSUME DeploymentInv, records' # records PROVE Dns!LosesNothing
  <2>1. DP!LosesNothing
    BY <1>1, NamesAssumed, DP!DeleteKeepsOthers DEF DeploymentInv
  <2>. SUFFICES ASSUME NEW V \in {{Committee}}, NEW n \in {auc, nftAuc, aucAuc},
                       NEW type \in Dns!Types,
                       NEW d \in Contracts \cup {aucAuc},
                       Dns!DeleteRecord(V, n, type, d)
                PROVE  Dns!OthersKept(records[Dns!Key(n, type)], d,
                                      records'[Dns!Key(n, type)])
    BY DEF Dns!LosesNothing
  <2>2. /\ V = W /\ type \in DP!Types
        /\ DP!Key(n, type) = Dns!Key(n, type)
    BY SameState DEF W, Dns!Key, DP!Key, Dns!Types, DP!Types
  <2>3. DP!DeleteRecord(V, n, type, d)
    BY <2>2, SameCalls
  <2>4. DP!OthersKept(records[DP!Key(n, type)], d, records'[DP!Key(n, type)])
    BY <2>1, <2>2, <2>3 DEF DP!LosesNothing
  <2>. QED  BY <2>2, <2>4 DEF Dns!OthersKept, DP!OthersKept
<1>2. DeploymentInv /\ [Next]_vars =>
        [records' # records => Dns!LosesNothing]_(Dns!nnsVars)
  BY <1>1
<1>. QED
  BY <1>2, InitDeployment, StepKeeps, PTL
  DEF Spec, DeleteLosesNothing, Dns!DeleteLosesNothing

=============================================================================
