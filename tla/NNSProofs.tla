----------------------------- MODULE NNSProofs -----------------------------
(***************************************************************************)
(* Proofs about the name service.  The inductive invariant NNSInv joins    *)
(* the types, the agreement of roots, counters and names, and the one-sided*)
(* ledger: a counter may be decremented because it is at least the number  *)
(* of names of its zone, and a balance because its owner holds a name.     *)
(***************************************************************************)
EXTENDS NNS, SequenceTheorems, FiniteSetTheorems, TLAPS

NNSInv ==
  NNSTypeOK /\ ZonesConsistent /\ BalanceNeverShort /\ DeletedLeavesNothing

-----------------------------------------------------------------------------
\* Names, suffixes and top-level domains.

LEMMA SuffixFacts ==
  ASSUME NEW n \in Names, NEW i \in 1..Len(n), NEW s, s = SubSeq(n, i, Len(n))
  PROVE  /\ s \in Names
         /\ Len(n) \in Nat \ {0}
         /\ Len(s) = Len(n) - i + 1
         /\ s[Len(s)] = n[Len(n)]
         /\ i = 1 => s = n
<1>1. n \in Seq(Labels) /\ Len(n) \in Nat \ {0}
  BY NNSAssumption
<1>2. s \in Names
  <2>1. s \in Suffixes(n)
    BY DEF Suffixes
  <2>. QED  BY <2>1, NNSAssumption
<1>3. \A j \in i..Len(n) : n[j] \in Labels
  BY <1>1
<1>4. /\ Len(s) = Len(n) - i + 1
      /\ \A j \in 1..Len(n) - i + 1 : s[j] = n[i + j - 1]
  BY <1>1, <1>3, SubSeqProperties
<1>5. s[Len(s)] = n[Len(n)]
  BY <1>1, <1>4
<1>6. i = 1 => s = n
  BY <1>1, SubSeqFull
<1>. QED
  BY <1>1, <1>2, <1>4, <1>5, <1>6

LEMMA TLDFacts ==
  ASSUME NEW n \in Names
  PROVE  /\ TLD(n) = <<n[Len(n)]>>
         /\ TLD(n) \in TLDs
         /\ TLD(n) \in Suffixes(n)
<1>1. Len(n) \in 1..Len(n) /\ Len(n) \in Nat \ {0}
  BY NNSAssumption
<1>2. /\ TLD(n) \in Names
      /\ Len(TLD(n)) = 1
      /\ TLD(n)[1] = n[Len(n)]
  <2>1. TLD(n) = SubSeq(n, Len(n), Len(n))
    BY DEF TLD
  <2>2. /\ TLD(n) \in Names
        /\ Len(TLD(n)) = Len(n) - Len(n) + 1
        /\ TLD(n)[Len(TLD(n))] = n[Len(n)]
    BY <1>1, <2>1, SuffixFacts, Zenon
  <2>. QED  BY <1>1, <2>2
<1>3. TLD(n) \in Seq(Labels)
  BY <1>2, NNSAssumption
<1>4. TLD(n) = <<n[Len(n)]>>
  BY <1>2, <1>3
<1>. QED
  BY <1>1, <1>2, <1>4 DEF TLDs, Suffixes, TLD

LEMMA SuffixTLD ==
  ASSUME NEW n \in Names, NEW p \in Suffixes(n)
  PROVE  p \in Names /\ TLD(p) = TLD(n) /\ Len(p) <= Len(n)
<1>1. PICK i \in 1..Len(n) : p = SubSeq(n, i, Len(n))
  BY DEF Suffixes
<1>2. /\ p \in Names
      /\ p[Len(p)] = n[Len(n)]
      /\ Len(p) <= Len(n)
  <2>1. /\ p \in Names
        /\ p[Len(p)] = n[Len(n)]
        /\ Len(p) = Len(n) - i + 1
        /\ Len(n) \in Nat
    BY <1>1, SuffixFacts, Zenon
  <2>. QED  BY <2>1
<1>3. TLD(p) = TLD(n)
  BY <1>2, TLDFacts
<1>. QED
  BY <1>2, <1>3

LEMMA OfTLD ==
  ASSUME NEW z \in TLDs
  PROVE  z \in Names /\ TLD(z) = z /\ Suffixes(z) = {z} /\ Ancestors(z) = {}
<1>1. z \in Names /\ Len(z) = 1 /\ z \in Seq(Labels)
  BY NNSAssumption DEF TLDs
<1>2. SubSeq(z, 1, Len(z)) = z
  BY <1>1, SubSeqFull
<1>3. 1..Len(z) = {1}
  BY <1>1
<1>4. Suffixes(z) = {z}
  BY <1>2, <1>3 DEF Suffixes
<1>. QED
  BY <1>1, <1>2, <1>4 DEF TLD, Ancestors

LEMMA DeeperName ==
  ASSUME NEW n \in Names \ TLDs
  PROVE  TLD(n) \in Ancestors(n) /\ TLD(n) # n
<1>1. TLD(n) \in TLDs /\ TLD(n) \in Suffixes(n)
  BY TLDFacts
<1>. QED
  BY <1>1 DEF Ancestors

LEMMA SelfKey ==
  ASSUME NEW n \in Names, NEW t \in Types
  PROVE  <<n, n, t>> \in RecordKeys
<1>1. n \in Seq(Labels) /\ Len(n) \in Nat \ {0}
  BY NNSAssumption
<1>2. SubSeq(n, 1, Len(n)) = n /\ 1 \in 1..Len(n)
  BY <1>1, SubSeqFull
<1>3. n \in Suffixes(n)
  BY <1>2 DEF Suffixes
<1>. QED  BY <1>3 DEF RecordKeys
-----------------------------------------------------------------------------
\* Sets of names and their sizes.

LEMMA FiniteNames ==
  ASSUME NEW S \in SUBSET Names
  PROVE  IsFiniteSet(S) /\ Cardinality(S) \in Nat
BY NNSAssumption, FS_Subset, FS_CardinalityType

LEMMA SmallerSet ==
  ASSUME NEW T \in SUBSET Names, NEW S \in SUBSET T
  PROVE  Cardinality(S) <= Cardinality(T)
<1>1. IsFiniteSet(T)
  BY FiniteNames
<1>. QED  BY <1>1, FS_Subset

LEMMA OneLess ==
  ASSUME NEW S \in SUBSET Names, NEW n \in S
  PROVE  Cardinality(S \ {n}) = Cardinality(S) - 1
<1>1. IsFiniteSet(S)
  BY FiniteNames
<1>. QED  BY <1>1, FS_RemoveElement

LEMMA UnionSize ==
  ASSUME NEW S \in SUBSET Names, NEW T \in SUBSET Names
  PROVE  Cardinality(S \cup T) <= Cardinality(S) + Cardinality(T)
<1>1. IsFiniteSet(S) /\ IsFiniteSet(T)
  BY FiniteNames
<1>2. /\ Cardinality(S) \in Nat /\ Cardinality(T) \in Nat
      /\ Cardinality(S \cap T) \in Nat /\ Cardinality(S \cup T) \in Nat
  BY FiniteNames
<1>3. Cardinality(S \cup T) =
        Cardinality(S) + Cardinality(T) - Cardinality(S \cap T)
  BY <1>1, FS_Union
<1>. QED  BY <1>2, <1>3

LEMMA OneName ==
  ASSUME NEW n
  PROVE  Cardinality({n}) = 1
BY FS_Singleton
-----------------------------------------------------------------------------
\* What register enters: the name, and its TLD when that is missing.

LEMMA EnteredFacts ==
  ASSUME NNSTypeOK, ZonesConsistent, NEW n \in Names, ~Live(n),
         NEW W, NEW o, CanRegister(W, n, o)
  PROVE  /\ Entered(n) \in SUBSET Names
         /\ n \in Entered(n)
         /\ Entered(n) \cap TLDs \subseteq {TLD(n)}
         /\ \A m \in Entered(n) : TLD(m) = TLD(n) /\ (Registered(m) => m = n)
         /\ Registered(n) => Entered(n) = {n}
         /\ TLD(n) \in Entered(n) => TLD(n) \notin roots
         /\ TLD(n) \notin Entered(n) => TLD(n) \in roots
<1>1. /\ TLD(n) \in TLDs /\ TLD(n) \in Names
      /\ TLD(TLD(n)) = TLD(n)
  BY TLDFacts, OfTLD
<1>2. Registered(n) => TLD(n) \in roots
  BY DEF ZonesConsistent, RegisteredNames
<1>3. CASE Parents(n) = {}
  <2>1. Entered(n) = {n, TLD(n)} /\ TLD(n) \notin roots
    BY <1>3 DEF Entered, CanRegister
  <2>2. ~Registered(TLD(n))
    BY <1>1, <2>1 DEF ZonesConsistent, RegisteredNames
  <2>3. n \in TLDs => n = TLD(n)
    BY OfTLD
  <2>. QED
    BY <1>1, <1>2, <2>1, <2>2, <2>3
<1>4. CASE Parents(n) # {}
  <2>1. Entered(n) = {n}
    BY <1>4 DEF Entered
  <2>2. PICK p \in Ancestors(n) : Registered(p)
    BY <1>4 DEF Parents
  <2>3. p \in Names /\ TLD(p) = TLD(n)
    BY <2>2, SuffixTLD DEF Ancestors
  <2>4. TLD(n) \in roots
    BY <2>2, <2>3 DEF ZonesConsistent, RegisteredNames
  <2>5. n \notin TLDs
    BY <2>2, OfTLD
  <2>. QED
    BY <1>1, <2>1, <2>4, <2>5
<1>. QED
  BY <1>3, <1>4
-----------------------------------------------------------------------------
\* A name, and a TLD with it, goes from one owner to another: register and
\* Transfer write the ledger in the same way.

LEMMA OwnerChanges ==
  ASSUME NNSTypeOK, BalanceNeverShort, NEW n \in Names, NEW o \in Holders,
         NEW new \in SUBSET Names, n \in new,
         \A m \in new : Registered(m) => m = n,
         Registered(n) => new = {n},
         nameOwner' = [m \in Names |-> IF m \in new THEN o ELSE nameOwner[m]],
         domains' = Credit(n, o, new),
         domainTokens' = Relist(n, o, new)
  PROVE  /\ nameOwner' \in [Names -> Holders \cup {NULL}]
         /\ domains' \in [Holders -> Nat]
         /\ domainTokens' \in [Holders -> SUBSET Names]
         /\ \A a \in Holders : /\ domains'[a] >= Cardinality(Owned(a)')
                               /\ Owned(a)' \subseteq domainTokens'[a]
<1>1. nameOwner' \in [Names -> Holders \cup {NULL}]
  BY DEF NNSTypeOK
<1>2. NULL \notin Holders
  BY NNSAssumption
<1>3. domainTokens' \in [Holders -> SUBSET Names]
  BY DEF Relist, NNSTypeOK
<1>4. Cardinality(new) \in Nat
  BY FiniteNames
<1>5. ASSUME NEW a \in Holders
      PROVE  /\ domains'[a] \in Nat
             /\ domains'[a] >= Cardinality(Owned(a)')
             /\ Owned(a)' \subseteq domainTokens'[a]
  <2>1. /\ Owned(a) \in SUBSET Names
        /\ Cardinality(Owned(a)) \in Nat
        /\ Cardinality(Owned(a)') \in Nat
    <3>1. Owned(a) \in SUBSET Names /\ Owned(a)' \in SUBSET Names
      BY DEF Owned
    <3>. QED  BY <3>1, FiniteNames
  <2>2. domains[a] \in Nat /\ domains[a] >= Cardinality(Owned(a))
    BY DEF NNSTypeOK, BalanceNeverShort
  <2>3. Owned(a) \subseteq domainTokens[a]
    BY DEF BalanceNeverShort
  <2>4. CASE a = o /\ a = nameOwner[n]
    <3>1. new = {n} /\ n \in Owned(a)
      BY <1>2, <2>4 DEF Registered, Owned
    <3>2. Owned(a)' = Owned(a)
      BY <2>4, <3>1 DEF Owned
    <3>3. Cardinality(new) = 1
      BY <3>1, OneName
    <3>4. domains'[a] = domains[a]
      BY <2>2, <2>4, <3>1, <3>3 DEF Credit
    <3>. QED  BY <2>2, <2>3, <2>4, <3>1, <3>2, <3>4 DEF Relist
  <2>5. CASE a = o /\ a # nameOwner[n]
    <3>1. Owned(a)' = Owned(a) \cup new
      BY <1>2, <2>5 DEF Owned
    <3>2. Cardinality(Owned(a)') <= Cardinality(Owned(a)) + Cardinality(new)
      BY <2>1, <3>1, UnionSize
    <3>3. domains'[a] = domains[a] + Cardinality(new)
      BY <1>4, <2>2, <2>5 DEF Credit
    <3>. QED  BY <1>4, <2>1, <2>2, <2>3, <2>5, <3>1, <3>2, <3>3 DEF Relist
  <2>6. CASE a # o /\ a = nameOwner[n]
    <3>1. new = {n} /\ n \in Owned(a)
      BY <1>2, <2>6 DEF Registered, Owned
    <3>2. Owned(a)' = Owned(a) \ {n}
      BY <2>6, <3>1 DEF Owned
    <3>3. Cardinality(Owned(a)') = Cardinality(Owned(a)) - 1
      BY <2>1, <3>1, <3>2, OneLess
    <3>4. domains'[a] = domains[a] - 1
      BY <2>2, <2>6 DEF Credit
    <3>. QED  BY <2>1, <2>2, <2>3, <2>6, <3>2, <3>3, <3>4 DEF Relist
  <2>7. CASE a # o /\ a # nameOwner[n]
    <3>1. \A m \in new : nameOwner[m] # a
      BY <1>2, <2>7 DEF Registered
    <3>2. Owned(a)' = Owned(a)
      BY <2>7, <3>1 DEF Owned
    <3>3. domains'[a] = domains[a]
      BY <2>2, <2>7 DEF Credit
    <3>. QED  BY <2>2, <2>3, <2>7, <3>2, <3>3 DEF Relist
  <2>. QED  BY <2>4, <2>5, <2>6, <2>7
<1>6. domains' \in [Holders -> Nat]
  BY <1>5 DEF Credit
<1>. QED
  BY <1>1, <1>3, <1>5, <1>6
-----------------------------------------------------------------------------
LEMMA InitNNS == NNSInit => NNSInv
<1>. SUFFICES ASSUME NNSInit PROVE NNSInv
  OBVIOUS
<1>1. RegisteredNames = {}
  BY DEF NNSInit, RegisteredNames, Registered
<1>2. \A a \in Holders : Owned(a) = {}
  BY NNSAssumption DEF NNSInit, Owned
<1>3. Cardinality({}) = 0
  BY FS_EmptySet
<1>4. NNSTypeOK
  BY DEF NNSInit, NNSTypeOK
<1>5. ZonesConsistent
  BY <1>1 DEF NNSInit, ZonesConsistent
<1>6. BalanceNeverShort
  <2>1. \A a \in Holders : Cardinality(Owned(a)) = 0 /\ domains[a] = 0
    BY <1>2, <1>3 DEF NNSInit
  <2>2. Cardinality(RegisteredNames) = 0 /\ supply = 0
    BY <1>1, <1>3 DEF NNSInit
  <2>. QED  BY <1>2, <2>1, <2>2 DEF BalanceNeverShort
<1>7. DeletedLeavesNothing
  BY SelfKey DEF NNSInit, DeletedLeavesNothing
<1>. QED
  BY <1>4, <1>5, <1>6, <1>7 DEF NNSInv
-----------------------------------------------------------------------------
\* What register writes keeps the invariant, whatever is written along with it to
\* the records of the names it enters.
LEMMA EnterInv ==
  ASSUME NNSInv, NEW W, NEW n \in Names, NEW o \in Holders, NEW e \in Lifetimes,
         CanRegister(W, n, o), ~Live(n), Enter(n, o, e), now' = now,
         records' \in [RecordKeys -> Seq(Texts \cup Aliases)],
         \A m \in Names \ Entered(n), t \in Types :
           records[<<m, m, t>>] = << >> => records'[<<m, m, t>>] = << >>
  PROVE  NNSInv'
<1>. USE DEF NNSInv
<1>. DEFINE new == Entered(n)
            z == TLD(n)
<1>2. /\ new \in SUBSET Names
      /\ n \in new
      /\ new \cap TLDs \subseteq {z}
      /\ \A m \in new : TLD(m) = z /\ (Registered(m) => m = n)
      /\ Registered(n) => new = {n}
      /\ z \in new => z \notin roots
      /\ z \notin new => z \in roots
  BY EnteredFacts
<1>3. z \in TLDs /\ z \in Names
  BY TLDFacts, OfTLD
<1>4. o # NULL /\ NULL \notin Int
  BY NNSAssumption
<1>5. /\ nameOwner' = [m \in Names |-> IF m \in new THEN o ELSE nameOwner[m]]
      /\ nameAdmin' = [m \in Names |-> IF m \in new THEN NULL ELSE nameAdmin[m]]
      /\ expiration' =
           [m \in Names |-> IF m \in new THEN now + e ELSE expiration[m]]
      /\ roots' = roots \cup (new \cap TLDs)
      /\ autoCreated' = autoCreated \cup {m \in new : m # n}
      /\ subdomains' = [subdomains EXCEPT ![z] = Count(z, new)]
      /\ domains' = Credit(n, o, new)
      /\ domainTokens' = Relist(n, o, new)
      /\ supply' = supply + Cardinality({m \in new : ~Registered(m)})
  BY DEF Enter
<1>6. RegisteredNames' = RegisteredNames \cup new
  BY <1>2, <1>4, <1>5 DEF RegisteredNames, Registered
<1>7. Cardinality(new) \in Nat
  BY <1>2, FiniteNames
<1>8. \A m \in new : m # n => m \in TLDs
  BY <1>3 DEF Entered
<1>9. /\ nameOwner' \in [Names -> Holders \cup {NULL}]
      /\ domains' \in [Holders -> Nat]
      /\ domainTokens' \in [Holders -> SUBSET Names]
      /\ \A a \in Holders : /\ domains'[a] >= Cardinality(Owned(a)')
                            /\ Owned(a)' \subseteq domainTokens'[a]
  BY <1>2, <1>5, OwnerChanges
<1>10. ASSUME NEW y \in TLDs
       PROVE  Zone(y) \in SUBSET Names /\ Zone(y)' \in SUBSET Names
  BY DEF Zone, RegisteredNames
<1>11. \A y \in TLDs \ {z} : Zone(y)' = Zone(y)
  BY <1>2, <1>6 DEF Zone
<1>12. Zone(z)' = Zone(z) \cup new
  BY <1>2, <1>6 DEF Zone
<1>13. subdomains' = [y \in TLDs |-> IF y = z THEN Count(z, new) ELSE subdomains[y]]
  BY <1>3, <1>5 DEF NNSTypeOK
<1>14. /\ roots' = roots \cup {z}
       /\ subdomains'[z] \in Int
       /\ subdomains'[z] >= Cardinality(Zone(z)')
  <2>1. CASE z \in new
    <3>1. z \notin roots /\ roots' = roots \cup {z}
      BY <1>2, <1>3, <1>5, <2>1
    <3>2. subdomains[z] = NULL
      BY <1>3, <3>1 DEF ZonesConsistent
    <3>3. subdomains'[z] = Cardinality(new)
      BY <1>3, <1>13, <2>1, <3>2 DEF Count
    <3>4. Zone(z)' = new
      BY <1>12, <3>1 DEF Zone, ZonesConsistent
    <3>. QED  BY <1>7, <3>1, <3>3, <3>4
  <2>2. CASE z \notin new
    <3>1. z \in roots /\ roots' = roots
      BY <1>2, <1>5, <2>2
    <3>2. /\ subdomains[z] \in Int /\ subdomains[z] # NULL
          /\ subdomains[z] >= Cardinality(Zone(z))
      BY <1>3, <3>1 DEF ZonesConsistent, NNSTypeOK
    <3>3. subdomains'[z] = subdomains[z] + Cardinality(new)
      BY <1>3, <1>13, <3>2 DEF Count
    <3>4. Cardinality(Zone(z)') <= Cardinality(Zone(z)) + Cardinality(new)
      BY <1>2, <1>3, <1>10, <1>12, UnionSize
    <3>5. Cardinality(Zone(z)') \in Nat /\ Cardinality(Zone(z)) \in Nat
      BY <1>3, <1>10, FiniteNames
    <3>. QED  BY <1>7, <3>1, <3>2, <3>3, <3>4, <3>5
  <2>. QED  BY <2>1, <2>2
<1>15. ZonesConsistent'
  <2>1. roots' = RegisteredNames' \cap TLDs
    BY <1>5, <1>6 DEF ZonesConsistent
  <2>2. roots' = {y \in TLDs : subdomains'[y] # NULL}
    BY <1>3, <1>4, <1>13, <1>14 DEF ZonesConsistent
  <2>3. autoCreated' \subseteq roots'
    BY <1>5, <1>8 DEF ZonesConsistent
  <2>4. \A m \in RegisteredNames' : TLD(m) \in roots'
    BY <1>2, <1>6, <1>14 DEF ZonesConsistent
  <2>5. \A y \in roots' : subdomains'[y] >= Cardinality(Zone(y)')
    <3>1. \A y \in roots' \ {z} : y \in TLDs /\ y \in roots
      BY <1>14 DEF NNSTypeOK
    <3>. QED  BY <1>11, <1>13, <1>14, <3>1 DEF ZonesConsistent
  <2>. QED  BY <2>1, <2>2, <2>3, <2>4, <2>5 DEF ZonesConsistent
<1>16. supply' \in Nat /\ supply' >= Cardinality(RegisteredNames')
  <2>. DEFINE fresh == {m \in new : ~Registered(m)}
  <2>1. RegisteredNames' = RegisteredNames \cup fresh
    BY <1>2, <1>6 DEF RegisteredNames
  <2>2. RegisteredNames \in SUBSET Names /\ fresh \in SUBSET Names
    BY <1>2 DEF RegisteredNames
  <2>3. /\ Cardinality(RegisteredNames')
             <= Cardinality(RegisteredNames) + Cardinality(fresh)
        /\ Cardinality(fresh) \in Nat /\ Cardinality(RegisteredNames) \in Nat
        /\ Cardinality(RegisteredNames') \in Nat
    <3>1. RegisteredNames' \in SUBSET Names
      BY <2>1, <2>2
    <3>2. Cardinality(RegisteredNames \cup fresh)
            <= Cardinality(RegisteredNames) + Cardinality(fresh)
      BY <2>2, UnionSize
    <3>. QED  BY <2>1, <2>2, <3>1, <3>2, FiniteNames
  <2>4. supply' = supply + Cardinality(fresh)
    BY <1>5
  <2>. QED  BY <2>3, <2>4 DEF NNSTypeOK, BalanceNeverShort
<1>17. NNSTypeOK'
  <2>1. nameAdmin' \in [Names -> Holders \cup {NULL}] /\ expiration' \in [Names -> Nat]
    BY <1>5, NNSAssumption DEF NNSTypeOK
  <2>2. /\ roots' \subseteq TLDs /\ autoCreated' \subseteq TLDs
        /\ subdomains' \in [TLDs -> Int \cup {NULL}]
    BY <1>3, <1>5, <1>8, <1>13, <1>14 DEF NNSTypeOK
  <2>3. \A m \in Names : ~Registered(m)' => nameAdmin'[m] = NULL
    BY <1>4, <1>5 DEF NNSTypeOK, Registered
  <2>. QED  BY <1>5, <1>9, <1>16, <2>1, <2>2, <2>3 DEF NNSTypeOK
<1>18. DeletedLeavesNothing'
  BY <1>6 DEF DeletedLeavesNothing
<1>. QED
  BY <1>9, <1>15, <1>16, <1>17, <1>18 DEF BalanceNeverShort

LEMMA RegisterInv ==
  ASSUME NNSInv, NEW W, NEW n \in Names, NEW o \in Holders, NEW e \in Lifetimes,
         Register(W, n, o, e)
  PROVE  NNSInv'
BY EnterInv DEF Register, NNSInv, NNSTypeOK
-----------------------------------------------------------------------------
\* Deletion: the counter is large enough for the TLD to go only when nothing is
\* left in it.

LEMMA RemovedFacts ==
  ASSUME NNSTypeOK, ZonesConsistent, NEW n \in Names, NEW W, CanDelete(W, n)
  PROVE  /\ Removed(n) \in SUBSET RegisteredNames
         /\ n \in Removed(n) /\ Removed(n) \subseteq {n, TLD(n)}
         /\ TLD(n) \in roots /\ TLD(n) \in TLDs
         /\ subdomains[TLD(n)] \in Int /\ subdomains[TLD(n)] # NULL
         /\ Subdomains(TLD(n)) = subdomains[TLD(n)]
         /\ TLD(n) \in Removed(n) => Zone(TLD(n)) \ Removed(n) = {}
<1>. DEFINE z == TLD(n)
<1>1. z \in TLDs /\ z \in Names /\ TLD(z) = z
  BY TLDFacts, OfTLD
<1>2. n \in RegisteredNames /\ z \in roots /\ z \in RegisteredNames
  BY DEF CanDelete, RegisteredNames, ZonesConsistent
<1>3. /\ subdomains[z] \in Int /\ subdomains[z] # NULL
      /\ Subdomains(z) = subdomains[z]
      /\ subdomains[z] >= Cardinality(Zone(z))
  BY <1>1, <1>2 DEF ZonesConsistent, NNSTypeOK, Subdomains
<1>4. /\ Removed(n) \in SUBSET RegisteredNames
      /\ n \in Removed(n) /\ Removed(n) \subseteq {n, z}
  BY <1>2 DEF Removed
<1>5. Zone(z) \in SUBSET Names /\ n \in Zone(z) /\ z \in Zone(z)
  BY <1>1, <1>2 DEF Zone, RegisteredNames
<1>6. /\ Cardinality(Zone(z)) \in Nat
      /\ Cardinality(Zone(z) \ {n}) = Cardinality(Zone(z)) - 1
  BY <1>5, FiniteNames, OneLess
<1>7. ASSUME NEW S \in SUBSET Names, Cardinality(S) <= 0
      PROVE  S = {}
  <2>1. IsFiniteSet(S) /\ Cardinality(S) \in Nat
    BY FiniteNames
  <2>. QED  BY <1>7, <2>1, FS_EmptySet
<1>8. ASSUME z \in Removed(n)
      PROVE  Zone(z) \ Removed(n) = {}
  <2>1. CASE n = z
    <3>1. n \in TLDs /\ Subdomains(n) <= 1
      BY <1>1, <2>1 DEF CanDelete
    <3>2. Cardinality(Zone(z) \ {n}) <= 0
      BY <1>3, <1>6, <2>1, <3>1
    <3>3. Zone(z) \ {n} = {}
      BY <1>5, <1>7, <3>2
    <3>. QED  BY <1>4, <3>3
  <2>2. CASE n # z
    <3>1. Removed(n) = {n, z} /\ Subdomains(z) - 1 = 1
      BY <1>8, <2>2 DEF Removed
    <3>2. z \in Zone(z) \ {n} /\ Zone(z) \ {n} \in SUBSET Names
      BY <1>5, <2>2
    <3>3. Cardinality((Zone(z) \ {n}) \ {z}) = Cardinality(Zone(z) \ {n}) - 1
      BY <3>2, OneLess
    <3>4. Cardinality((Zone(z) \ {n}) \ {z}) <= 0
      BY <1>3, <1>6, <3>1, <3>3
    <3>5. (Zone(z) \ {n}) \ {z} = {}
      BY <1>5, <1>7, <3>4
    <3>. QED  BY <3>1, <3>5
  <2>. QED  BY <2>1, <2>2
<1>. QED
  BY <1>1, <1>2, <1>3, <1>4, <1>8

\* A name of one or two labels is its own token, live or not.
LEMMA ShortToken ==
  ASSUME NEW n \in Names, Len(n) <= 2
  PROVE  tokenIDFromName(n) = n
<1>1. n \in Seq(Labels) /\ Len(n) \in Nat
  BY NNSAssumption
<1>2. \A s \in Suffixes(n) : Len(s) > 1 => s = n
  <2>1. ASSUME NEW i \in 1..Len(n), Len(SubSeq(n, i, Len(n))) > 1
        PROVE  SubSeq(n, i, Len(n)) = n
    <3>1. /\ Len(SubSeq(n, i, Len(n))) = Len(n) - i + 1
          /\ i = 1 => SubSeq(n, i, Len(n)) = n
      BY SuffixFacts
    <3>. QED  BY <1>1, <2>1, <3>1
  <2>. QED  BY <2>1 DEF Suffixes
<1>. DEFINE live == {s \in Suffixes(n) : Len(s) > 1 /\ Live(s)}
<1>3. live = {} \/ live = {n}
  BY <1>2
<1>4. Len(n) <= Len(n)
  BY <1>1
<1>5. live = {n} => Longest(live) = n
  BY <1>4 DEF Longest
<1>6. tokenIDFromName(n) = IF live = {} THEN n ELSE Longest(live)
  BY DEF tokenIDFromName
<1>. QED
  BY <1>3, <1>5, <1>6

LEMMA DeleteDomainInv ==
  ASSUME NNSInv, NEW W, NEW n \in Names, DeleteDomain(W, n)
  PROVE  NNSInv'
<1>. USE DEF NNSInv
<1>. DEFINE gone == Removed(n)
            z == TLD(n)
<1>1. CanDelete(W, n)
  BY DEF DeleteDomain
<1>2. /\ gone \in SUBSET RegisteredNames
      /\ n \in gone /\ gone \subseteq {n, z}
      /\ z \in roots /\ z \in TLDs
      /\ subdomains[z] \in Int /\ subdomains[z] # NULL
      /\ Subdomains(z) = subdomains[z]
      /\ z \in gone => Zone(z) \ gone = {}
  BY <1>1, RemovedFacts
<1>3. /\ nameOwner' = [m \in Names |-> IF m \in gone THEN NULL ELSE nameOwner[m]]
      /\ nameAdmin' = [m \in Names |-> IF m \in gone THEN NULL ELSE nameAdmin[m]]
      /\ expiration' = [m \in Names |-> IF m \in gone THEN 0 ELSE expiration[m]]
      /\ roots' = roots \ gone
      /\ autoCreated' = autoCreated \ gone
      /\ subdomains' = [subdomains EXCEPT ![z] =
                          IF z \in gone THEN NULL ELSE subdomains[z] - 1]
      /\ records' = Strike(gone)
      /\ UNCHANGED <<now, domains, domainTokens, supply>>
  BY <1>2 DEF DeleteDomain, RootsWithout
<1>4. NULL \notin Int /\ NULL \notin Holders
  BY NNSAssumption
<1>5. RegisteredNames' = RegisteredNames \ gone
  BY <1>2, <1>3 DEF RegisteredNames, Registered
<1>6. subdomains' = [y \in TLDs |-> IF y = z
                       THEN IF z \in gone THEN NULL ELSE subdomains[z] - 1
                       ELSE subdomains[y]]
  BY <1>2, <1>3 DEF NNSTypeOK
<1>7. NNSTypeOK'
  <2>1. /\ nameOwner' \in [Names -> Holders \cup {NULL}]
        /\ nameAdmin' \in [Names -> Holders \cup {NULL}]
        /\ expiration' \in [Names -> Nat]
        /\ subdomains' \in [TLDs -> Int \cup {NULL}]
    BY <1>2, <1>3, <1>6 DEF NNSTypeOK
  <2>2. records' \in [RecordKeys -> Seq(Texts \cup Aliases)]
    <3>1. << >> \in Seq(Texts \cup Aliases)
      OBVIOUS
    <3>. QED  BY <1>3, <3>1 DEF NNSTypeOK, Strike
  <2>3. \A m \in Names : ~Registered(m)' => nameAdmin'[m] = NULL
    BY <1>3 DEF NNSTypeOK, Registered
  <2>. QED  BY <1>3, <2>1, <2>2, <2>3 DEF NNSTypeOK
<1>8. ZonesConsistent'
  <2>1. roots' = RegisteredNames' \cap TLDs
    BY <1>3, <1>5 DEF ZonesConsistent
  <2>2. roots' = {y \in TLDs : subdomains'[y] # NULL}
    <3>1. \A y \in gone : y \in TLDs => y = z
      BY <1>2, OfTLD
    <3>. QED  BY <1>2, <1>3, <1>4, <1>6, <3>1 DEF ZonesConsistent
  <2>3. autoCreated' \subseteq roots'
    BY <1>3 DEF ZonesConsistent
  <2>4. \A m \in RegisteredNames' : TLD(m) \in roots'
    <3>1. ASSUME NEW m \in RegisteredNames', TLD(m) \in gone
          PROVE  FALSE
      <4>1. m \in Names /\ TLD(m) \in TLDs
        BY TLDFacts DEF RegisteredNames
      <4>2. TLD(m) = z
        BY <1>2, <3>1, <4>1, OfTLD
      <4>3. m \in Zone(z)
        BY <1>5, <4>2 DEF Zone
      <4>. QED  BY <1>2, <1>5, <3>1, <4>2, <4>3
    <3>. QED  BY <1>3, <1>5, <3>1 DEF ZonesConsistent
  <2>5. ASSUME NEW y \in roots'
        PROVE  subdomains'[y] >= Cardinality(Zone(y)')
    <3>1. y \in TLDs /\ y \in roots /\ y \notin gone
      BY <1>3 DEF NNSTypeOK
    <3>2. Zone(y)' = Zone(y) \ gone
      BY <1>5 DEF Zone
    <3>3. subdomains[y] >= Cardinality(Zone(y))
      BY <3>1 DEF ZonesConsistent
    <3>4. Zone(y) \in SUBSET Names
      BY DEF Zone, RegisteredNames
    <3>5. CASE y = z
      <4>1. gone = {n} /\ n \in Zone(z)
        BY <1>2, <3>1, <3>5 DEF Zone
      <4>2. Cardinality(Zone(y)') = Cardinality(Zone(y)) - 1
        BY <3>2, <3>4, <3>5, <4>1, OneLess
      <4>3. Cardinality(Zone(y)) \in Nat
        BY <3>4, FiniteNames
      <4>. QED  BY <1>2, <1>6, <3>1, <3>3, <3>5, <4>2, <4>3
    <3>6. CASE y # z
      <4>1. \A m \in gone : TLD(m) = z
        BY <1>2, OfTLD
      <4>2. Zone(y)' = Zone(y)
        BY <3>2, <3>6, <4>1 DEF Zone
      <4>. QED  BY <1>6, <3>1, <3>3, <3>6, <4>2
    <3>. QED  BY <3>5, <3>6
  <2>. QED  BY <2>1, <2>2, <2>3, <2>4, <2>5 DEF ZonesConsistent
<1>9. BalanceNeverShort'
  <2>1. ASSUME NEW a \in Holders
        PROVE  /\ domains'[a] >= Cardinality(Owned(a)')
               /\ Owned(a)' \subseteq domainTokens'[a]
    <3>1. Owned(a)' \subseteq Owned(a) /\ Owned(a) \in SUBSET Names
      BY <1>3, <1>4 DEF Owned
    <3>2. /\ Cardinality(Owned(a)') <= Cardinality(Owned(a))
          /\ Cardinality(Owned(a)') \in Nat /\ Cardinality(Owned(a)) \in Nat
      BY <3>1, SmallerSet, FiniteNames
    <3>. QED  BY <1>3, <3>1, <3>2 DEF BalanceNeverShort, NNSTypeOK
  <2>2. supply' >= Cardinality(RegisteredNames')
    <3>1. RegisteredNames \in SUBSET Names
      BY DEF RegisteredNames
    <3>2. /\ Cardinality(RegisteredNames') <= Cardinality(RegisteredNames)
          /\ Cardinality(RegisteredNames') \in Nat
          /\ Cardinality(RegisteredNames) \in Nat
      BY <1>5, <3>1, SmallerSet, FiniteNames
    <3>. QED  BY <1>3, <3>2 DEF BalanceNeverShort, NNSTypeOK
  <2>. QED  BY <2>1, <2>2 DEF BalanceNeverShort
<1>10. DeletedLeavesNothing'
  <2>1. ASSUME NEW m \in Names, m \notin RegisteredNames', Len(m) <= 2, NEW t \in Types
        PROVE  records'[<<m, m, t>>] = << >>
    <3>1. <<m, m, t>> \in RecordKeys
      BY SelfKey
    <3>2. CASE m \in gone
      BY <1>3, <2>1, <3>1, <3>2, ShortToken DEF Strike
    <3>3. CASE m \notin gone
      <4>1. records[<<m, m, t>>] = << >>
        BY <1>5, <2>1, <3>3 DEF DeletedLeavesNothing
      <4>. QED  BY <1>3, <3>1, <4>1 DEF Strike
    <3>. QED  BY <3>2, <3>3
  <2>. QED  BY <2>1 DEF DeletedLeavesNothing
<1>. QED
  BY <1>7, <1>8, <1>9, <1>10
-----------------------------------------------------------------------------
\* The other methods.

LEMMA TransferInv ==
  ASSUME NNSInv, NEW W, NEW n \in Names, NEW to \in Holders, Transfer(W, n, to)
  PROVE  NNSInv'
<1>. USE DEF NNSInv
<1>1. /\ Registered(n)
      /\ nameOwner' = [m \in Names |-> IF m \in {n} THEN to ELSE nameOwner[m]]
      /\ nameAdmin' = [nameAdmin EXCEPT ![n] = NULL]
      /\ domains' = Credit(n, to, {n})
      /\ domainTokens' = Relist(n, to, {n})
      /\ UNCHANGED <<now, expiration, roots, subdomains, autoCreated, supply, records>>
  BY DEF Transfer, Live, NNSTypeOK
<1>2. /\ nameOwner' \in [Names -> Holders \cup {NULL}]
      /\ domains' \in [Holders -> Nat]
      /\ domainTokens' \in [Holders -> SUBSET Names]
      /\ \A a \in Holders : /\ domains'[a] >= Cardinality(Owned(a)')
                            /\ Owned(a)' \subseteq domainTokens'[a]
  BY <1>1, OwnerChanges
<1>3. RegisteredNames' = RegisteredNames
  BY <1>1, NNSAssumption DEF RegisteredNames, Registered
<1>4. NNSTypeOK'
  BY <1>1, <1>2 DEF NNSTypeOK, Registered
<1>5. ZonesConsistent'
  BY <1>1, <1>3 DEF ZonesConsistent, Zone
<1>6. DeletedLeavesNothing'
  BY <1>1, <1>3 DEF DeletedLeavesNothing
<1>. QED
  BY <1>1, <1>2, <1>3, <1>4, <1>5, <1>6 DEF BalanceNeverShort

\* A step that leaves owners and ledger alone.
LEMMA OwnersStay ==
  ASSUME NNSInv, UNCHANGED <<nameOwner, roots, subdomains, autoCreated,
                             domains, domainTokens, supply>>,
         now' \in Nat, expiration' \in [Names -> Nat],
         nameAdmin' \in [Names -> Holders \cup {NULL}],
         \A n \in Names : ~Registered(n) => nameAdmin'[n] = NULL,
         records' \in [RecordKeys -> Seq(Texts \cup Aliases)],
         \A n \in Names, t \in Types :
           ~Registered(n) /\ Len(n) <= 2 /\ records[<<n, n, t>>] = << >>
             => records'[<<n, n, t>>] = << >>
  PROVE  NNSInv'
<1>. USE DEF NNSInv
<1>1. /\ \A n \in Names : Registered(n)' = Registered(n)
      /\ RegisteredNames' = RegisteredNames
      /\ \A z : Zone(z)' = Zone(z)
      /\ \A a : Owned(a)' = Owned(a)
  BY DEF RegisteredNames, Registered, Zone, Owned
<1>2. NNSTypeOK'
  BY <1>1 DEF NNSTypeOK
<1>3. ZonesConsistent' /\ BalanceNeverShort'
  BY <1>1 DEF ZonesConsistent, BalanceNeverShort
<1>4. DeletedLeavesNothing'
  BY <1>1 DEF DeletedLeavesNothing, RegisteredNames
<1>. QED
  BY <1>2, <1>3, <1>4

LEMMA RenewInv ==
  ASSUME NNSInv, NEW W, NEW n \in Names, Renew(W, n)
  PROVE  NNSInv'
<1>1. expiration' \in [Names -> Nat]
  BY NNSAssumption DEF NNSInv, NNSTypeOK, Renew
<1>. QED
  BY <1>1, OwnersStay DEF NNSInv, NNSTypeOK, Renew

LEMMA SetAdminInv ==
  ASSUME NNSInv, NEW W, NEW n \in Names, NEW a \in Holders \cup {NULL},
         SetAdmin(W, n, a)
  PROVE  NNSInv'
<1>1. Registered(n)
  BY DEF SetAdmin, Usable, Live
<1>2. /\ nameAdmin' \in [Names -> Holders \cup {NULL}]
      /\ \A m \in Names : ~Registered(m) => nameAdmin'[m] = NULL
  BY <1>1 DEF NNSInv, NNSTypeOK, SetAdmin
<1>. QED
  BY <1>2, OwnersStay DEF NNSInv, NNSTypeOK, SetAdmin

LEMMA TickInv ==
  ASSUME NNSInv, Tick
  PROVE  NNSInv'
<1>1. now' \in Nat
  BY DEF NNSInv, NNSTypeOK, Tick
<1>. QED
  BY <1>1, OwnersStay DEF NNSInv, NNSTypeOK, Tick, nameVars

\* The methods that write the records of one key ask for a token that is
\* registered.
LEMMA RecordsInv ==
  ASSUME NNSInv, NEW W, NEW n \in Names, NEW t \in Types, CanWrite(W, n),
         UNCHANGED <<now, nameVars>>,
         NEW s, records' = [records EXCEPT ![Key(n, t)] = s],
         Key(n, t) \in RecordKeys => s \in Seq(Texts \cup Aliases)
  PROVE  NNSInv'
<1>1. records' \in [RecordKeys -> Seq(Texts \cup Aliases)]
  BY DEF NNSInv, NNSTypeOK
<1>2. ASSUME NEW m \in Names, NEW u \in Types, ~Registered(m),
             records[<<m, m, u>>] = << >>
      PROVE  records'[<<m, m, u>>] = << >>
  <2>1. <<m, m, u>> \in RecordKeys
    BY SelfKey
  <2>2. Registered(tokenIDFromName(n))
    BY DEF CanWrite, Usable, Live
  <2>3. <<m, m, u>> # Key(n, t)
    BY <1>2, <2>2 DEF Key
  <2>. QED  BY <1>2, <2>1, <2>3 DEF NNSInv, NNSTypeOK
<1>. QED
  BY <1>1, <1>2, OwnersStay DEF NNSInv, NNSTypeOK, nameVars

LEMMA RecordCallsInv ==
  ASSUME NNSInv, NEW W, NEW n \in Names, NEW t \in Types, NEW d \in Data(t),
         \/ AddRecord(W, n, t, d)
         \/ \E i \in 1..MaxRecords : SetRecord(W, n, t, i, d)
         \/ DeleteRecord(W, n, t, d)
  PROVE  NNSInv'
<1>. DEFINE k == Key(n, t)
            D == Texts \cup Aliases
<1>1. d \in D
  BY DEF Data
<1>2. k \in RecordKeys => records[k] \in Seq(D)
  BY DEF NNSInv, NNSTypeOK
<1>3. CASE AddRecord(W, n, t, d)
  <2>1. k \in RecordKeys => Append(records[k], d) \in Seq(D)
    BY <1>1, <1>2
  <2>2. /\ records' = [records EXCEPT ![k] = Append(records[k], d)]
        /\ CanWrite(W, n) /\ UNCHANGED <<now, nameVars>>
    BY <1>3 DEF AddRecord
  <2>. QED  BY <2>1, <2>2, RecordsInv
<1>4. ASSUME NEW i \in 1..MaxRecords, SetRecord(W, n, t, i, d)
      PROVE  NNSInv'
  <2>1. i \in DOMAIN records[k]
    BY <1>4 DEF SetRecord
  <2>2. k \in RecordKeys => [records[k] EXCEPT ![i] = d] \in Seq(D)
    BY <1>1, <1>2, <2>1
  <2>3. /\ records' = [records EXCEPT ![k] = [records[k] EXCEPT ![i] = d]]
        /\ CanWrite(W, n) /\ UNCHANGED <<now, nameVars>>
    BY <1>4 DEF SetRecord
  <2>. QED  BY <2>2, <2>3, RecordsInv
<1>5. CASE DeleteRecord(W, n, t, d)
  <2>1. PICK i \in DOMAIN records[k] : TRUE
    BY <1>5 DEF DeleteRecord
  <2>2. k \in RecordKeys => Without(records[k], d) \in Seq(D)
    <3>. SUFFICES ASSUME k \in RecordKeys PROVE Without(records[k], d) \in Seq(D)
      OBVIOUS
    <3>. DEFINE s == records[k]
                l == Len(s) - 1
    <3>1. s \in Seq(D) /\ l \in Nat /\ \A j \in 1..l : s[j] \in D /\ s[j + 1] \in D
      BY <1>2, <2>1
    <3>2. Without(s, d) \in [1..l -> D]
      BY <3>1 DEF Without
    <3>. QED  BY <3>1, <3>2
  <2>3. /\ records' = [records EXCEPT ![k] = Without(records[k], d)]
        /\ CanWrite(W, n) /\ UNCHANGED <<now, nameVars>>
    BY <1>5 DEF DeleteRecord
  <2>. QED  BY <2>2, <2>3, RecordsInv
<1>. QED
  BY <1>3, <1>4, <1>5

LEMMA DeleteRecordsInv ==
  ASSUME NNSInv, NEW W, NEW n \in Names, NEW t \in Types, DeleteRecords(W, n, t)
  PROVE  NNSInv'
<1>1. << >> \in Seq(Texts \cup Aliases)
  OBVIOUS
<1>2. /\ records' = [records EXCEPT ![Key(n, t)] = << >>]
      /\ CanWrite(W, n) /\ UNCHANGED <<now, nameVars>>
  BY DEF DeleteRecords
<1>. QED  BY <1>1, <1>2, RecordsInv

LEMMA CallInv ==
  ASSUME NNSInv, NEW W \in Signers, NNSCall(W)
  PROVE  NNSInv'
<1>1. PICK n \in Names :
        \/ \E o \in Holders, e \in Lifetimes : Register(W, n, o, e)
        \/ Renew(W, n)
        \/ \E a \in Holders \cup {NULL} : SetAdmin(W, n, a)
        \/ \E to \in Holders : Transfer(W, n, to)
        \/ \E type \in Types :
             \/ \E d \in Data(type) :
                  \/ AddRecord(W, n, type, d)
                  \/ \E i \in 1..MaxRecords : SetRecord(W, n, type, i, d)
                  \/ DeleteRecord(W, n, type, d)
             \/ DeleteRecords(W, n, type)
        \/ DeleteDomain(W, n)
  BY DEF NNSCall
<1>. QED
  BY <1>1, RegisterInv, RenewInv, SetAdminInv, TransferInv, RecordCallsInv,
     DeleteRecordsInv, DeleteDomainInv

LEMMA StepNNS == NNSInv /\ [NNSNext]_nnsVars => NNSInv'
<1>. SUFFICES ASSUME NNSInv, [NNSNext]_nnsVars PROVE NNSInv'
  OBVIOUS
<1>1. CASE Tick
  BY <1>1, TickInv
<1>2. ASSUME NEW W \in Signers, NNSCall(W) PROVE NNSInv'
  BY <1>2, CallInv
<1>3. CASE UNCHANGED nnsVars
  BY <1>3, OwnersStay DEF NNSInv, NNSTypeOK, nnsVars, nameVars
<1>. QED
  BY <1>1, <1>2, <1>3 DEF NNSNext

\* At any time, for any accounts, names and signatures, the name service is
\* consistent: types, roots and counters, balances that are never too small,
\* and no records left by a deleted domain of one or two labels.
THEOREM NNSSafety ==
  NNSSpec => [](NNSTypeOK /\ ZonesConsistent /\ BalanceNeverShort
                  /\ DeletedLeavesNothing)
<1>1. NNSInv => NNSTypeOK /\ ZonesConsistent /\ BalanceNeverShort
                  /\ DeletedLeavesNothing
  BY DEF NNSInv
<1>. QED
  BY <1>1, InitNNS, StepNNS, PTL DEF NNSSpec
-----------------------------------------------------------------------------
\* What a call does to a live name whose owner and admin did not sign it.

Untouched(n) ==
  /\ nameOwner'[n] = nameOwner[n]
  /\ nameAdmin'[n] = nameAdmin[n]
  /\ expiration'[n] = expiration[n]
  /\ \A k \in RecordKeys : k[1] = n => records'[k] = records[k]

LEMMA RegisterUntouched ==
  ASSUME NNSInv, NEW W, NEW m \in Names, NEW o \in Holders, NEW e \in Lifetimes,
         Register(W, m, o, e), NEW n \in Names, Live(n)
  PROVE  Untouched(n)
<1>1. /\ CanRegister(W, m, o) /\ ~Live(m)
      /\ Enter(m, o, e) /\ records' = records
  BY DEF Register
<1>2. \A x \in Entered(m) : Registered(x) => x = m
  BY <1>1, EnteredFacts DEF NNSInv
<1>3. n \notin Entered(m)
  BY <1>1, <1>2 DEF Live
<1>. QED
  BY <1>1, <1>3 DEF Untouched, Enter

LEMMA RecordsUntouched ==
  ASSUME NNSInv, NEW W, NEW m \in Names, NEW t \in Types, CanWrite(W, m),
         UNCHANGED <<now, nameVars>>,
         NEW s, records' = [records EXCEPT ![Key(m, t)] = s],
         NEW n \in Names, ~IsAdmin(W, n)
  PROVE  Untouched(n)
<1>1. tokenIDFromName(m) # n
  BY DEF CanWrite
<1>2. \A k \in RecordKeys : k[1] = n => k # Key(m, t)
  BY <1>1 DEF Key
<1>. QED
  BY <1>2 DEF Untouched, nameVars, NNSInv, NNSTypeOK

LEMMA DeleteUntouched ==
  ASSUME NNSInv, NEW W, NEW m \in Names, DeleteDomain(W, m),
         NEW n \in Names, ~IsAdmin(W, n)
  PROVE  Untouched(n)
<1>1. \A x \in Removed(m) : IsAdmin(W, x) /\ CanWrite(W, x)
  BY DEF DeleteDomain, CanDelete
<1>2. n \notin Removed(m)
  BY <1>1
<1>3. \A k \in RecordKeys :
        k[1] = n => ~(k[2] \in Removed(m) /\ k[1] = tokenIDFromName(k[2]))
  BY <1>1 DEF CanWrite
<1>. QED
  BY <1>2, <1>3 DEF Untouched, DeleteDomain, Strike

LEMMA CallUntouched ==
  ASSUME NNSInv, NEW W \in Signers, NNSCall(W),
         NEW n \in Names, Live(n), ~IsAdmin(W, n)
  PROVE  Untouched(n)
<1>1. PICK m \in Names :
        \/ \E o \in Holders, e \in Lifetimes : Register(W, m, o, e)
        \/ Renew(W, m)
        \/ \E a \in Holders \cup {NULL} : SetAdmin(W, m, a)
        \/ \E to \in Holders : Transfer(W, m, to)
        \/ \E type \in Types :
             \/ \E d \in Data(type) :
                  \/ AddRecord(W, m, type, d)
                  \/ \E i \in 1..MaxRecords : SetRecord(W, m, type, i, d)
                  \/ DeleteRecord(W, m, type, d)
             \/ DeleteRecords(W, m, type)
        \/ DeleteDomain(W, m)
  BY DEF NNSCall
<1>2. CASE \E o \in Holders, e \in Lifetimes : Register(W, m, o, e)
  BY <1>2, RegisterUntouched
<1>3. CASE Renew(W, m)
  BY <1>3 DEF Renew, Untouched
<1>4. CASE \E a \in Holders \cup {NULL} : SetAdmin(W, m, a)
  BY <1>4 DEF SetAdmin, IsAdmin, Untouched
<1>5. CASE \E to \in Holders : Transfer(W, m, to)
  BY <1>5 DEF Transfer, IsAdmin, Untouched
<1>6. ASSUME NEW type \in Types, NEW d \in Data(type),
             \/ AddRecord(W, m, type, d)
             \/ \E i \in 1..MaxRecords : SetRecord(W, m, type, i, d)
             \/ DeleteRecord(W, m, type, d)
      PROVE  Untouched(n)
  <2>1. CASE AddRecord(W, m, type, d)
    BY <2>1, RecordsUntouched DEF AddRecord
  <2>2. ASSUME NEW i \in 1..MaxRecords, SetRecord(W, m, type, i, d)
        PROVE  Untouched(n)
    BY <2>2, RecordsUntouched DEF SetRecord
  <2>3. CASE DeleteRecord(W, m, type, d)
    BY <2>3, RecordsUntouched DEF DeleteRecord
  <2>. QED  BY <1>6, <2>1, <2>2, <2>3
<1>7. ASSUME NEW type \in Types, DeleteRecords(W, m, type)
      PROVE  Untouched(n)
  BY <1>7, RecordsUntouched DEF DeleteRecords
<1>8. CASE DeleteDomain(W, m)
  BY <1>8, DeleteUntouched
<1>. QED
  BY <1>1, <1>2, <1>3, <1>4, <1>5, <1>6, <1>7, <1>8

\* No call signed by neither the owner nor the admin of a live name changes
\* anything of it, whatever is registered or deleted above it or below it.
THEOREM NNSConsent == NNSSpec => OnlyWithConsent
<1>. DEFINE Consent ==
       \A n \in Names : Live(n) =>
         \/ /\ nameOwner'[n] = nameOwner[n]
            /\ nameAdmin'[n] = nameAdmin[n]
            /\ expiration'[n] = expiration[n]
            /\ \A k \in RecordKeys : k[1] = n => records'[k] = records[k]
         \/ \A W \in Signers : ~IsAdmin(W, n) => ~NNSCall(W)
<1>1. NNSInv /\ [NNSNext]_nnsVars => [Consent]_nnsVars
  BY CallUntouched DEF Untouched
<1>. QED
  BY <1>1, InitNNS, StepNNS, PTL DEF NNSSpec, OnlyWithConsent
-----------------------------------------------------------------------------
\* Below a name that has expired.

Stale(z) == z \in RegisteredNames /\ ~Unexpired(z)

Frozen(z) ==
  /\ \A n \in Names : z \in Ancestors(n) =>
       \/ Registered(n)' = Registered(n) /\ expiration'[n] = expiration[n]
       \/ ~Unexpired(n) /\ ~Registered(n)'
  /\ \A k \in RecordKeys : z \in Suffixes(k[1]) => records'[k] = records[k]
  /\ z \in TLDs => Registered(z)' /\ ~Unexpired(z)'

\* A step that takes leases from nobody and writes no records leaves everything
\* frozen, if it renews nothing that is frozen.
LEMMA FrozenIf ==
  ASSUME NNSInv, NEW z, Stale(z), now' = now, records' = records,
         \A n \in Names : Registered(n)' = Registered(n)
                            /\ (z \in Suffixes(n) => expiration'[n] = expiration[n])
  PROVE  Frozen(z)
<1>1. z \in TLDs => z \in Names /\ z \in Suffixes(z)
  BY OfTLD
<1>. QED
  BY <1>1 DEF Frozen, Stale, Unexpired, Ancestors, RegisteredNames

LEMMA StaleNotUsable ==
  ASSUME NEW z, Stale(z), NEW n, z \in Suffixes(n)
  PROVE  ~Usable(n)
BY DEF Stale, RegisteredNames, Usable, Live, ParentsLive, Parents, Ancestors

LEMMA LiveToken ==
  ASSUME NEW n \in Names \ TLDs, Live(n)
  PROVE  tokenIDFromName(n) = n
<1>. DEFINE live == {s \in Suffixes(n) : Len(s) > 1 /\ Live(s)}
<1>1. n \in Seq(Labels) /\ Len(n) \in Nat /\ Len(n) > 1 /\ 1 \in 1..Len(n)
  <2>1. n \in Seq(Labels) /\ n # << >>
    BY NNSAssumption
  <2>2. Len(n) \in Nat /\ Len(n) # 0
    BY <2>1
  <2>3. Len(n) # 1
    BY DEF TLDs
  <2>4. \A l \in Nat : l # 0 /\ l # 1 => l > 1 /\ 1 \in 1..l
    OBVIOUS
  <2>. QED  BY <2>1, <2>2, <2>3, <2>4, Zenon
<1>2. n \in Suffixes(n)
  <2>1. SubSeq(n, 1, Len(n)) = n
    BY <1>1, SubSeqFull
  <2>. QED  BY <1>1, <2>1 DEF Suffixes
<1>3. n \in live /\ \A t \in live : Len(t) <= Len(n)
  BY <1>1, <1>2, SuffixTLD
<1>4. Longest(live) \in live /\ Len(n) <= Len(Longest(live))
  BY <1>3 DEF Longest
<1>5. \A s \in Suffixes(n) : Len(n) <= Len(s) => s = n
  <2>1. ASSUME NEW i \in 1..Len(n), Len(n) <= Len(SubSeq(n, i, Len(n)))
        PROVE  SubSeq(n, i, Len(n)) = n
    <3>1. /\ Len(SubSeq(n, i, Len(n))) = Len(n) - i + 1
          /\ i = 1 => SubSeq(n, i, Len(n)) = n
      BY SuffixFacts
    <3>. QED  BY <1>1, <2>1, <3>1
  <2>. QED  BY <2>1 DEF Suffixes
<1>6. Longest(live) = n
  BY <1>4, <1>5
<1>. QED
  BY <1>3, <1>6 DEF tokenIDFromName

LEMMA RegisterFrozen ==
  ASSUME NNSInv, NEW W, NEW m \in Names, NEW o \in Holders, NEW e \in Lifetimes,
         Register(W, m, o, e), NEW z, Stale(z)
  PROVE  Frozen(z)
<1>1. /\ CanRegister(W, m, o) /\ ~Live(m)
      /\ Enter(m, o, e) /\ records' = records /\ now' = now
  BY DEF Register
<1>2. \A x \in Entered(m) : Registered(x) => x = m
  BY <1>1, EnteredFacts DEF NNSInv
<1>3. z \in Names /\ Registered(z) /\ ~Unexpired(z)
  BY DEF Stale, RegisteredNames
<1>4. z \notin Ancestors(m)
  BY <1>1, <1>3 DEF CanRegister, ParentsLive, Parents
<1>5. \A n \in Names : z \in Ancestors(n) => n \notin Entered(m)
  <2>1. TLD(m) \in TLDs /\ Ancestors(TLD(m)) = {}
    BY TLDFacts, OfTLD
  <2>. QED  BY <1>4, <2>1 DEF Entered
<1>6. z \in TLDs => z \notin Entered(m)
  <2>. SUFFICES ASSUME z \in TLDs, z \in Entered(m) PROVE FALSE
    OBVIOUS
  <2>1. z = m
    BY <1>2, <1>3
  <2>2. Parents(m) = {} /\ TLD(m) = m
    BY <2>1, OfTLD DEF Parents
  <2>3. m \notin roots
    BY <1>1, <2>2 DEF CanRegister
  <2>. QED  BY <1>3, <2>1, <2>3 DEF NNSInv, ZonesConsistent, RegisteredNames
<1>. QED
  BY <1>1, <1>3, <1>5, <1>6 DEF Frozen, Enter, Registered, Unexpired

LEMMA RecordsFrozen ==
  ASSUME NNSInv, NEW W, NEW m \in Names, NEW t \in Types, CanWrite(W, m),
         UNCHANGED <<now, nameVars>>,
         NEW s, records' = [records EXCEPT ![Key(m, t)] = s],
         NEW z, Stale(z)
  PROVE  Frozen(z)
<1>1. z \notin Suffixes(tokenIDFromName(m))
  BY StaleNotUsable DEF CanWrite
<1>2. \A k \in RecordKeys : z \in Suffixes(k[1]) => records'[k] = records[k]
  BY <1>1 DEF Key, NNSInv, NNSTypeOK
<1>. QED
  BY <1>2 DEF Frozen, Stale, nameVars, RegisteredNames, Registered, Unexpired

LEMMA DeleteFrozen ==
  ASSUME NNSInv, NEW W, NEW m \in Names, DeleteDomain(W, m), NEW z, Stale(z)
  PROVE  Frozen(z)
<1>. DEFINE gone == Removed(m)
<1>1. /\ \A x \in gone : CanWrite(W, x)
      /\ gone \in SUBSET RegisteredNames
  <2>1. CanDelete(W, m)
    BY DEF DeleteDomain
  <2>. QED  BY <2>1, RemovedFacts DEF CanDelete, NNSInv
<1>2. /\ nameOwner' = [x \in Names |-> IF x \in gone THEN NULL ELSE nameOwner[x]]
      /\ expiration' = [x \in Names |-> IF x \in gone THEN 0 ELSE expiration[x]]
      /\ records' = Strike(gone)
      /\ now' = now
  BY DEF DeleteDomain
<1>3. z \in Names /\ Registered(z) /\ ~Unexpired(z)
  BY DEF Stale, RegisteredNames
<1>4. ASSUME NEW n \in Names, z \in Ancestors(n), n \in gone
      PROVE  ~Unexpired(n) /\ ~Registered(n)'
  <2>1. n \notin TLDs
    BY <1>4, OfTLD
  <2>2. Usable(tokenIDFromName(n))
    BY <1>1, <1>4 DEF CanWrite
  <2>3. ~Live(n)
    BY <1>4, <2>1, <2>2, LiveToken, StaleNotUsable DEF Ancestors
  <2>4. Registered(n)
    BY <1>1, <1>4 DEF RegisteredNames
  <2>. QED  BY <1>2, <1>4, <2>3, <2>4 DEF Live, Registered
<1>5. \A n \in Names \ gone :
        Registered(n)' = Registered(n) /\ expiration'[n] = expiration[n]
  BY <1>2 DEF Registered
<1>6. ASSUME NEW k \in RecordKeys, z \in Suffixes(k[1])
      PROVE  records'[k] = records[k]
  <2>1. ~Usable(k[1])
    BY <1>6, StaleNotUsable
  <2>2. ~(k[2] \in gone /\ k[1] = tokenIDFromName(k[2]))
    BY <1>1, <2>1 DEF CanWrite
  <2>. QED  BY <1>2, <2>2 DEF Strike
<1>7. z \in TLDs => z \notin gone
  <2>. SUFFICES ASSUME z \in TLDs, z \in gone PROVE FALSE
    OBVIOUS
  <2>1. Len(z) <= 2
    BY DEF TLDs
  <2>2. tokenIDFromName(z) = z
    BY <1>3, <2>1, ShortToken
  <2>. QED  BY <1>1, <1>3, <2>2 DEF CanWrite, Usable, Live
<1>. QED
  BY <1>2, <1>3, <1>4, <1>5, <1>6, <1>7 DEF Frozen, Unexpired

LEMMA CallFrozen ==
  ASSUME NNSInv, NEW W \in Signers, NNSCall(W), NEW z, Stale(z)
  PROVE  Frozen(z)
<1>0. z \in Names /\ NULL \notin Holders
  BY NNSAssumption DEF Stale, RegisteredNames
<1>1. PICK m \in Names :
        \/ \E o \in Holders, e \in Lifetimes : Register(W, m, o, e)
        \/ Renew(W, m)
        \/ \E a \in Holders \cup {NULL} : SetAdmin(W, m, a)
        \/ \E to \in Holders : Transfer(W, m, to)
        \/ \E type \in Types :
             \/ \E d \in Data(type) :
                  \/ AddRecord(W, m, type, d)
                  \/ \E i \in 1..MaxRecords : SetRecord(W, m, type, i, d)
                  \/ DeleteRecord(W, m, type, d)
             \/ DeleteRecords(W, m, type)
        \/ DeleteDomain(W, m)
  BY DEF NNSCall
<1>2. CASE \E o \in Holders, e \in Lifetimes : Register(W, m, o, e)
  BY <1>2, RegisterFrozen
<1>3. CASE Renew(W, m)
  <2>1. z \notin Suffixes(m)
    BY <1>3, StaleNotUsable DEF Renew
  <2>. QED  BY <1>3, <2>1, FrozenIf DEF Renew, Registered, NNSInv, NNSTypeOK
<1>4. CASE \E a \in Holders \cup {NULL} : SetAdmin(W, m, a)
  BY <1>4, FrozenIf DEF SetAdmin, Registered
<1>5. CASE \E to \in Holders : Transfer(W, m, to)
  BY <1>0, <1>5, FrozenIf DEF Transfer, Live, Registered, NNSInv, NNSTypeOK
<1>6. ASSUME NEW type \in Types, NEW d \in Data(type),
             \/ AddRecord(W, m, type, d)
             \/ \E i \in 1..MaxRecords : SetRecord(W, m, type, i, d)
             \/ DeleteRecord(W, m, type, d)
      PROVE  Frozen(z)
  <2>1. CASE AddRecord(W, m, type, d)
    BY <2>1, RecordsFrozen DEF AddRecord
  <2>2. ASSUME NEW i \in 1..MaxRecords, SetRecord(W, m, type, i, d)
        PROVE  Frozen(z)
    BY <2>2, RecordsFrozen DEF SetRecord
  <2>3. CASE DeleteRecord(W, m, type, d)
    BY <2>3, RecordsFrozen DEF DeleteRecord
  <2>. QED  BY <1>6, <2>1, <2>2, <2>3
<1>7. ASSUME NEW type \in Types, DeleteRecords(W, m, type)
      PROVE  Frozen(z)
  BY <1>7, RecordsFrozen DEF DeleteRecords
<1>8. CASE DeleteDomain(W, m)
  BY <1>8, DeleteFrozen
<1>. QED
  BY <1>1, <1>2, <1>3, <1>4, <1>5, <1>6, <1>7, <1>8

LEMMA TickFrozen ==
  ASSUME NNSInv, Tick, NEW z, Stale(z)
  PROVE  Frozen(z)
BY DEF NNSInv, NNSTypeOK, Tick, nameVars, Frozen, Stale, RegisteredNames,
       Registered, Unexpired

\* Nothing below an expired domain is entered, renewed or, while it is live,
\* deleted, no record in it changes, and no expired TLD ever comes back.
THEOREM NNSExpiry == NNSSpec => ExpiredZoneFrozen
<1>. DEFINE Expiry ==
       \A z \in RegisteredNames : ~Unexpired(z) =>
         /\ \A n \in Names : z \in Ancestors(n) =>
              \/ Registered(n)' = Registered(n) /\ expiration'[n] = expiration[n]
              \/ ~Unexpired(n) /\ ~Registered(n)'
         /\ \A k \in RecordKeys :
              z \in Suffixes(k[1]) => records'[k] = records[k]
         /\ z \in TLDs => Registered(z)' /\ ~Unexpired(z)'
<1>1. NNSInv /\ [NNSNext]_nnsVars => [Expiry]_nnsVars
  BY CallFrozen, TickFrozen DEF NNSNext, Frozen, Stale
<1>. QED
  BY <1>1, InitNNS, StepNNS, PTL DEF NNSSpec, ExpiredZoneFrozen
-----------------------------------------------------------------------------
\* deleteRecord on any list: up to the first record with the data all stay where
\* they are, from there on each other record moves up by one.
LEMMA WithoutKeepsOthers ==
  ASSUME NEW D, NEW s \in Seq(D), NEW d
  PROVE  OthersKept(s, d, Without(s, d))
<1>. SUFFICES ASSUME NEW p \in DOMAIN s, s[p] = d,
                     \A i \in 1..(p - 1) : s[i] # d
              PROVE  /\ Len(Without(s, d)) = Len(s) - 1
                     /\ \A i \in 1..(p - 1) : Without(s, d)[i] = s[i]
                     /\ \A i \in (p + 1)..Len(s) :
                          s[i] # d => Without(s, d)[i - 1] = s[i]
  BY DEF OthersKept
<1>. DEFINE n == Len(s)
            r == Without(s, d)
            hit(i) == \E j \in 1..i : s[j] = d
<1>1. n \in Nat /\ DOMAIN s = 1..n /\ p \in 1..n
  OBVIOUS
<1>2. r = [i \in 1..n - 1 |-> IF hit(i) /\ s[i + 1] # d THEN s[i + 1] ELSE s[i]]
  BY DEF Without
<1>. HIDE DEF r
<1>3. Len(r) = n - 1
  <2>1. r \in [1..n - 1 -> D]
    <3>1. \A i \in 1..n - 1 : s[i] \in D /\ s[i + 1] \in D
      BY <1>1
    <3>. QED  BY <1>2, <3>1
  <2>2. n - 1 \in Nat
    BY <1>1
  <2>. HIDE DEF n
  <2>. QED  BY <2>1, <2>2
<1>4. ASSUME NEW i \in 1..(p - 1) PROVE r[i] = s[i]
  <2>1. i \in 1..n - 1 /\ ~hit(i)
    BY <1>1
  <2>. HIDE DEF hit
  <2>. QED  BY <1>2, <2>1
<1>5. ASSUME NEW i \in (p + 1)..n, s[i] # d PROVE r[i - 1] = s[i]
  <2>1. i - 1 \in 1..n - 1 /\ hit(i - 1) /\ (i - 1) + 1 = i
    BY <1>1
  <2>. HIDE DEF hit
  <2>. QED  BY <1>2, <1>5, <2>1
<1>. QED  BY <1>3, <1>4, <1>5 DEF r

LEMMA DeleteKeepsOthers == NNSInv /\ records' # records => LosesNothing
<1>. SUFFICES ASSUME NNSInv, records' # records,
                     NEW W \in Signers, NEW n \in Names, NEW type \in Types,
                     NEW d \in Texts \cup Aliases, DeleteRecord(W, n, type, d)
              PROVE  OthersKept(records[Key(n, type)], d, records'[Key(n, type)])
  BY DEF LosesNothing
<1>. DEFINE s == records[Key(n, type)]
<1>1. Key(n, type) \in RecordKeys
  BY DEF DeleteRecord, NNSInv, NNSTypeOK
<1>2. s \in Seq(Texts \cup Aliases)
  BY <1>1 DEF NNSInv, NNSTypeOK
<1>3. records'[Key(n, type)] = Without(s, d)
  BY <1>1 DEF DeleteRecord, NNSInv, NNSTypeOK
<1>. QED
  BY <1>2, <1>3, WithoutKeepsOthers

\* A record is deleted without losing another one or its place in the order,
\* whatever the length of the list and however often the data is in it.
THEOREM NNSDelete == NNSSpec => DeleteLosesNothing
<1>1. NNSInv /\ [NNSNext]_nnsVars => [records' # records => LosesNothing]_nnsVars
  BY DeleteKeepsOthers
<1>. QED
  BY <1>1, InitNNS, StepNNS, PTL DEF NNSSpec, DeleteLosesNothing

=============================================================================
