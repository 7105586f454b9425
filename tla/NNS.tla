-------------------------------- MODULE NNS --------------------------------
(***************************************************************************)
(* The name service contract, nns/nns_contract.go with namestate.go.  A    *)
(* name is the sequence of its labels, the top-level domain (TLD) last; a  *)
(* record is kept under its domain (the token), its name and its type.  A  *)
(* call that panics is rolled back by the Neo VM, so an action is enabled  *)
(* exactly when the call returns; a call that returns false changes        *)
(* nothing and is a stuttering step.                                       *)
(*                                                                         *)
(* W is the set of accounts that signed the transaction.  Left out: prices *)
(* and notifications, the SOA record (every write updates its serial;      *)
(* deleteDomain leaves it behind, where getRecords and getAllRecords find  *)
(* it, until the next registration overwrites it), A and AAAA records (the *)
(* same lines as TXT), global domains (TXT records "cnametgt=...") and the *)
(* FrostfsID permission, which nothing in the repository writes: only the  *)
(* committee opens a TLD.                                                  *)
(***************************************************************************)
EXTENDS Integers, FiniteSets, Sequences

CONSTANTS
  Holders,     \* accounts that sign calls; none runs code
  Signers,     \* the sets of accounts that sign a transaction together
  Committee,   \* the multisignature account of the committee
  Labels,      \* the parts of names between the dots
  Names,       \* names in use, with the domains they lie in
  Texts,       \* data of TXT records
  Aliases,     \* data of CNAME records
  Year,        \* millisecondsInYear
  Lifetimes,   \* what register is given as expire
  MaxTime,     \* bound: the clock stops here
  MaxLease,    \* bound: no name is renewed beyond this time
  MaxSupply,   \* bound: registrations ever made
  MaxRecords,  \* bound: records kept at any time
  NULL         \* what storage.Get returns for a missing key

\* The name and all the domains it lies in.
Suffixes(n) == {SubSeq(n, i, Len(n)) : i \in 1..Len(n)}
Ancestors(n) == Suffixes(n) \ {n}
TLD(n) == SubSeq(n, Len(n), Len(n))
TLDs == {n \in Names : Len(n) = 1}

Types == {"TXT", "CNAME"}
Data(type) == IF type = "CNAME" THEN Aliases ELSE Texts

ASSUME NNSAssumption ==
  /\ IsFiniteSet(Names)
  /\ \A n \in Names : n \in Seq(Labels) \ {<< >>} /\ Suffixes(n) \subseteq Names
  /\ Committee \in Holders /\ Signers \subseteq SUBSET Holders
  /\ NULL \notin Holders /\ NULL \notin Int
  /\ Year \in Nat /\ Lifetimes \subseteq Nat
  /\ {MaxTime, MaxLease, MaxSupply, MaxRecords} \subseteq Nat

\* prefixRecord + token + name + type: where a list of records is kept.
RecordKeys ==
  {k \in Names \X Names \X Types : k[1] \in Suffixes(k[2])}

VARIABLES
  now,           \* runtime.GetTime()
  nameOwner,     \* NameState.Owner, NULL when the name is not registered
  nameAdmin,     \* NameState.Admin
  expiration,    \* NameState.Expiration
  roots,         \* prefixRoot: the TLDs
  subdomains,    \* prefixCountSubDomains of each TLD, NULL when absent
  autoCreated,   \* prefixAutoCreated: TLDs made along with their first name
  domains,       \* prefixBalance of each account, 0 when absent
  domainTokens,  \* prefixAccountToken: the names listed for each account
  supply,        \* prefixTotalSupply
  records        \* prefixRecord: the data under each key, in order of ID

nameVars == <<nameOwner, nameAdmin, expiration, roots, subdomains,
              autoCreated, domains, domainTokens, supply>>
nnsVars == <<now, nameVars, records>>

\* _deploy: an empty service.
NNSInit ==
  /\ now = 0
  /\ nameOwner = [n \in Names |-> NULL]
  /\ nameAdmin = [n \in Names |-> NULL]
  /\ expiration = [n \in Names |-> 0]
  /\ roots = {}
  /\ subdomains = [z \in TLDs |-> NULL]
  /\ autoCreated = {}
  /\ domains = [a \in Holders |-> 0]
  /\ domainTokens = [a \in Holders |-> {}]
  /\ supply = 0
  /\ records = [k \in RecordKeys |-> << >>]
-----------------------------------------------------------------------------
Registered(n) == nameOwner[n] # NULL
Unexpired(n) == now < expiration[n]
Live(n) == Registered(n) /\ Unexpired(n)
RegisteredNames == {n \in Names : Registered(n)}

\* checkAdmin: the owner or the admin has signed.
IsAdmin(W, n) == nameOwner[n] \in W \/ nameAdmin[n] \in W

Longest(S) == CHOOSE s \in S : \A t \in S : Len(t) <= Len(s)

\* The registered domains that checkParent goes through; a level that nobody
\* registered is skipped.  It returns the longest of them.
Parents(n) == {p \in Ancestors(n) : Registered(p)}

\* checkParent panics when one of them has expired.
ParentsLive(n) == \A p \in Parents(n) : Unexpired(p)

\* Mutant of Usable: the domains above are not looked at.
UsableItself(n) == Live(n)

\* getNameState returns: the name is live, and so is all that it lies in.
Usable(n) == Live(n) /\ ParentsLive(n)

\* tokenIDFromName: the longest live domain of two or more labels that the
\* name lies in, or else the name itself.
tokenIDFromName(n) ==
  LET live == {s \in Suffixes(n) : Len(s) > 1 /\ Live(s)}
  IN IF live = {} THEN n ELSE Longest(live)

\* What every method that writes records asks for.
CanWrite(W, n) ==
  LET token == tokenIDFromName(n) IN Usable(token) /\ IsAdmin(W, token)

Key(n, type) == <<tokenIDFromName(n), n, type>>

Tick ==
  /\ now < MaxTime
  /\ now' = now + 1
  /\ UNCHANGED <<nameVars, records>>
-----------------------------------------------------------------------------
\* Some record of the parent is for a name below the new one.  (The code compares
\* the ends of the strings; no label here is the end of another one.)
Conflict(p, n) ==
  \E k \in RecordKeys : /\ k[1] = p
                        /\ n \in Ancestors(k[2])
                        /\ records[k] # << >>

\* register does not panic.  Without any parent the TLD is registered on the
\* way, by the committee and for the same owner; a TLD that exists, expired or
\* not, cannot be registered.
CanRegister(W, n, o) ==
  /\ o \in W
  /\ ParentsLive(n)
  /\ IF Parents(n) = {}
       THEN Committee \in W /\ TLD(n) \notin roots
       ELSE LET p == Longest(Parents(n)) IN IsAdmin(W, p) /\ ~Conflict(p, n)

\* The names that a registration of n enters: the TLD too when it is missing.
Entered(n) == IF Parents(n) = {} THEN {n, TLD(n)} ELSE {n}

\* Mutant of Count: registering is not counted once the counter exists.
CountOnce(z, new) ==
  IF subdomains[z] # NULL THEN subdomains[z] ELSE Cardinality(new)

\* updateSubdDomainCounter, once per name entered.
Count(z, new) ==
  IF subdomains[z] # NULL THEN subdomains[z] + Cardinality(new)
  ELSE IF z \in new THEN Cardinality(new) ELSE NULL

\* Mutant of Credit: a name that was registered before is not credited.
CreditFresh(n, o, new) ==
  [a \in Holders |->
     domains[a] - (IF a = nameOwner[n] THEN 1 ELSE 0)
                + (IF a = o THEN Cardinality({m \in new : ~Registered(m)}) ELSE 0)]

\* The two calls of updateBalance: the former owner of an expired name loses
\* it, the new owner gets all that is entered.
Credit(n, o, new) ==
  [a \in Holders |->
     domains[a] - (IF a = nameOwner[n] THEN 1 ELSE 0)
                + (IF a = o THEN Cardinality(new) ELSE 0)]

\* Mutant of Relist: the new owner gets the name before the former one loses it.
RelistSwapped(n, o, new) ==
  [a \in Holders |->
     (domainTokens[a] \cup (IF a = o THEN new ELSE {}))
       \ (IF a = nameOwner[n] THEN {n} ELSE {})]

\* The lists that go with them.
Relist(n, o, new) ==
  [a \in Holders |->
     (domainTokens[a] \ (IF a = nameOwner[n] THEN {n} ELSE {}))
       \cup (IF a = o THEN new ELSE {})]

\* The writes of register for a name that is not live.  The records of an
\* expired name stay, its admin does not, and the counter of the zone goes up
\* once more.
Enter(n, o, expire) ==
  LET new == Entered(n)
      z == TLD(n)
  IN /\ supply + Cardinality(new) <= MaxSupply
     /\ nameOwner' = [m \in Names |-> IF m \in new THEN o ELSE nameOwner[m]]
     /\ nameAdmin' = [m \in Names |-> IF m \in new THEN NULL ELSE nameAdmin[m]]
     /\ expiration' =
          [m \in Names |-> IF m \in new THEN now + expire ELSE expiration[m]]
     /\ roots' = roots \cup (new \cap TLDs)
     /\ autoCreated' = autoCreated \cup {m \in new : m # n}
     /\ subdomains' = [subdomains EXCEPT ![z] = Count(z, new)]
     /\ domains' = Credit(n, o, new)
     /\ domainTokens' = Relist(n, o, new)
     /\ supply' = supply + Cardinality({m \in new : ~Registered(m)})

\* register returns false when the name is live.
Register(W, n, o, expire) ==
  /\ CanRegister(W, n, o)
  /\ ~Live(n)
  /\ Enter(n, o, expire)
  /\ UNCHANGED <<now, records>>
-----------------------------------------------------------------------------
\* Mutant of Renew: an expired name can be renewed.
RenewExpired(W, n) ==
  /\ Registered(n) /\ IsAdmin(W, n)
  /\ expiration[n] + Year <= MaxLease
  /\ expiration' = [expiration EXCEPT ![n] = @ + Year]
  /\ UNCHANGED <<now, nameOwner, nameAdmin, roots, subdomains, autoCreated,
                 domains, domainTokens, supply, records>>

Renew(W, n) ==
  /\ Usable(n) /\ IsAdmin(W, n)
  /\ expiration[n] + Year <= MaxLease
  /\ expiration' = [expiration EXCEPT ![n] = @ + Year]
  /\ UNCHANGED <<now, nameOwner, nameAdmin, roots, subdomains, autoCreated,
                 domains, domainTokens, supply, records>>

\* The new admin, when there is one, has signed too.
SetAdmin(W, n, a) ==
  /\ Usable(n)
  /\ nameOwner[n] \in W
  /\ a \in W \cup {NULL}
  /\ nameAdmin' = [nameAdmin EXCEPT ![n] = a]
  /\ UNCHANGED <<now, nameOwner, expiration, roots, subdomains, autoCreated,
                 domains, domainTokens, supply, records>>

\* Transfer looks at the name only, not at the domains it lies in.  Without the
\* owner's signature it returns false; to the owner itself it writes nothing.
Transfer(W, n, to) ==
  /\ Live(n)
  /\ nameOwner[n] \in W \ {to}
  /\ nameOwner' = [nameOwner EXCEPT ![n] = to]
  /\ nameAdmin' = [nameAdmin EXCEPT ![n] = NULL]
  /\ domains' = Credit(n, to, {n})
  /\ domainTokens' = Relist(n, to, {n})
  /\ UNCHANGED <<now, expiration, roots, subdomains, autoCreated, supply, records>>
-----------------------------------------------------------------------------
Stored == {e \in RecordKeys \X (1..MaxRecords) : e[2] \in DOMAIN records[e[1]]}

\* addRecord panics on data that is there already and on a second CNAME.
AddRecord(W, n, type, d) ==
  LET k == Key(n, type)
  IN /\ CanWrite(W, n)
     /\ \A i \in DOMAIN records[k] : records[k][i] # d
     /\ type = "CNAME" => records[k] = << >>
     /\ Cardinality(Stored) < MaxRecords
     /\ records' = [records EXCEPT ![k] = Append(@, d)]
     /\ UNCHANGED <<now, nameVars>>

\* putRecord overwrites a record that exists; it may repeat another one.
SetRecord(W, n, type, i, d) ==
  LET k == Key(n, type)
  IN /\ CanWrite(W, n)
     /\ i \in DOMAIN records[k]
     /\ records' = [records EXCEPT ![k][i] = d]
     /\ UNCHANGED <<now, nameVars>>

DeleteRecords(W, n, type) ==
  /\ CanWrite(W, n)
  /\ records' = [records EXCEPT ![Key(n, type)] = << >>]
  /\ UNCHANGED <<now, nameVars>>

\* Mutant of Without: the records after the deleted one are not moved up.
WithoutLast(s, d) == SubSeq(s, 1, Len(s) - 1)

\* deleteRecord: from the first record with the data on, each record moves to
\* the place before it, unless it has the data itself; the last place goes.
Without(s, d) ==
  LET hit(i) == \E j \in 1..i : s[j] = d
  IN [i \in 1..Len(s) - 1 |->
        IF hit(i) /\ s[i + 1] # d THEN s[i + 1] ELSE s[i]]

\* DeleteRecord returns false when no record has the data.
DeleteRecord(W, n, type, d) ==
  LET k == Key(n, type)
  IN /\ CanWrite(W, n)
     /\ \E i \in DOMAIN records[k] : records[k][i] = d
     /\ records' = [records EXCEPT ![k] = Without(@, d)]
     /\ UNCHANGED <<now, nameVars>>
-----------------------------------------------------------------------------
\* countSubdomains, when a TLD has no counter, looks for the text of the TLD
\* behind the first letter of each name: auc.auc is missed.  (No other label here
\* contains the text.)  A TLD that is registered has a counter (ZonesConsistent).
Subdomains(z) ==
  IF subdomains[z] # NULL
    THEN subdomains[z]
    ELSE Cardinality({n \in RegisteredNames :
                        n[1] # z[1] /\ \E i \in 2..Len(n) : n[i] = z[1]})

\* With the last name of a TLD that was created automatically the TLD goes too.
Removed(n) ==
  LET z == TLD(n)
  IN IF n # z /\ z \in autoCreated /\ Subdomains(z) - 1 = 1
       THEN {n, z} ELSE {n}

\* Mutant of CanDelete: whoever deletes the last name deletes the TLD with it.
CanDeleteAlone(W, n) ==
  /\ Registered(n)
  /\ n \in TLDs => Subdomains(n) <= 1
  /\ IsAdmin(W, n) /\ CanWrite(W, n)

\* deleteDomain asks for the owner of the name; deleting the records, for the
\* domain that holds them.  A TLD is not deleted while it counts another name.
CanDelete(W, n) ==
  /\ Registered(n)
  /\ n \in TLDs => Subdomains(n) <= 1
  /\ \A m \in Removed(n) : IsAdmin(W, m) /\ CanWrite(W, m)

\* Mutant of Strike: the records of the name stay.
StrikeNoRecords(gone) == records

\* deleteRecords for each type that can be deleted: not for SOA.
Strike(gone) ==
  [k \in RecordKeys |->
     IF k[2] \in gone /\ k[1] = tokenIDFromName(k[2]) THEN << >> ELSE records[k]]

\* Mutant of RootsWithout: the root key of a TLD is not deleted.
RootsKept(gone) == roots

RootsWithout(gone) == roots \ gone

\* The balance of the owner, its list of names and the supply stay as they are.
DeleteDomain(W, n) ==
  LET z == TLD(n)
      gone == Removed(n)
  IN /\ CanDelete(W, n)
     /\ nameOwner' = [m \in Names |-> IF m \in gone THEN NULL ELSE nameOwner[m]]
     /\ nameAdmin' = [m \in Names |-> IF m \in gone THEN NULL ELSE nameAdmin[m]]
     /\ expiration' = [m \in Names |-> IF m \in gone THEN 0 ELSE expiration[m]]
     /\ roots' = RootsWithout(gone)
     /\ autoCreated' = autoCreated \ gone
     /\ subdomains' = [subdomains EXCEPT ![z] =
                         IF z \in gone THEN NULL ELSE Subdomains(z) - 1]
     /\ records' = Strike(gone)
     /\ UNCHANGED <<now, domains, domainTokens, supply>>
-----------------------------------------------------------------------------
\* A call with a negative redirect.  NULL is a panic.
InvalidRedirect == [n \in Names |-> NULL]

\* Mutant of Follow: an alias hides the records of the name itself.
FollowAliasOnly(type, next) ==
  [n \in Names |->
     LET own == records[Key(n, type)]
         alias == records[Key(n, "CNAME")]
     IN IF ~Usable(tokenIDFromName(n)) THEN NULL
        ELSE IF alias = << >> \/ type = "CNAME" THEN own ELSE next[alias[1]]]

\* One call of resolve, when next is the call for one redirect less: the records
\* of the name, the alias and what the alias resolves to.
Follow(type, next) ==
  [n \in Names |->
     LET own == records[Key(n, type)]
         alias == records[Key(n, "CNAME")]
     IN IF ~Usable(tokenIDFromName(n)) THEN NULL
        ELSE IF alias = << >> \/ type = "CNAME" THEN own
        ELSE LET rest == next[alias[1]]
             IN IF rest = NULL THEN NULL ELSE own \o alias \o rest]

\* Resolve, which allows two redirects.
resolve(type) == Follow(type, Follow(type, Follow(type, InvalidRedirect)))
-----------------------------------------------------------------------------
\* The calls of a transaction signed by W.
NNSCall(W) ==
  \E n \in Names :
    \/ \E o \in Holders, e \in Lifetimes : Register(W, n, o, e)
    \/ Renew(W, n)
    \/ \E a \in Holders \cup {NULL} : SetAdmin(W, n, a)
    \/ \E to \in Holders : Transfer(W, n, to)
    \/ \E type \in Types :
         \/ \E d \in Data(type) :
              \/ AddRecord(W, n, type, d)
              \/ \E i \in 1..MaxRecords : SetRecord(W, n, type, i, d)
              \/ DeleteRecord(W, n, type, d)
         \/ DeleteRecords(W, n, type)
    \/ DeleteDomain(W, n)

NNSNext == Tick \/ \E W \in Signers : NNSCall(W)

NNSSpec == NNSInit /\ [][NNSNext]_nnsVars
-----------------------------------------------------------------------------
Owned(a) == {n \in Names : nameOwner[n] = a}
Zone(z) == {n \in RegisteredNames : TLD(n) = z}

\* Every stored value has its type; a name that is not registered has no admin.
NNSTypeOK ==
  /\ now \in Nat
  /\ nameOwner \in [Names -> Holders \cup {NULL}]
  /\ nameAdmin \in [Names -> Holders \cup {NULL}]
  /\ expiration \in [Names -> Nat]
  /\ roots \subseteq TLDs
  /\ subdomains \in [TLDs -> Int \cup {NULL}]
  /\ autoCreated \subseteq TLDs
  /\ domains \in [Holders -> Nat]
  /\ domainTokens \in [Holders -> SUBSET Names]
  /\ supply \in Nat
  /\ records \in [RecordKeys -> Seq(Texts \cup Aliases)]
  /\ \A n \in Names : ~Registered(n) => nameAdmin[n] = NULL

\* No name outlives its TLD: deletion trusts a counter that registering again
\* raises too far.  It never falls below the number of names in the zone, so
\* the TLD is never deleted, by hand or automatically, under a name; and the
\* root keys, the counters and the registered TLDs are the same set.
ZonesConsistent ==
  /\ roots = RegisteredNames \cap TLDs
  /\ roots = {z \in TLDs : subdomains[z] # NULL}
  /\ autoCreated \subseteq roots
  /\ \A n \in RegisteredNames : TLD(n) \in roots
  /\ \A z \in roots : subdomains[z] >= Cardinality(Zone(z))

\* deleteDomain forgets the balance, so the ledger is wrong, but on one side
\* only: nobody is counted for fewer names than he holds, every name held is
\* listed, and no balance or supply goes below what is registered.
BalanceNeverShort ==
  /\ \A a \in Holders : /\ domains[a] >= Cardinality(Owned(a))
                        /\ Owned(a) \subseteq domainTokens[a]
  /\ supply >= Cardinality(RegisteredNames)

\* An expired domain freezes what lies in it: no name below it is entered or
\* renewed, none that is live is deleted, and no record kept under it or below
\* it changes, by any method; an expired TLD stays expired for ever.  (A name
\* that has expired too can be deleted, if some domain above both is live.)
ExpiredZoneFrozen ==
  [][\A z \in RegisteredNames : ~Unexpired(z) =>
       /\ \A n \in Names : z \in Ancestors(n) =>
            \/ Registered(n)' = Registered(n) /\ expiration'[n] = expiration[n]
            \/ ~Unexpired(n) /\ ~Registered(n)'
       /\ \A k \in RecordKeys :
            z \in Suffixes(k[1]) => records'[k] = records[k]
       /\ z \in TLDs => Registered(z)' /\ ~Unexpired(z)']_nnsVars

\* Whatever a call changes of a name that is live -- owner, admin, lease,
\* registration, records -- the owner or the admin of that very name signed it:
\* registering or deleting another name, above it or below it, never does.
OnlyWithConsent ==
  [][\A n \in Names : Live(n) =>
       \/ /\ nameOwner'[n] = nameOwner[n]
          /\ nameAdmin'[n] = nameAdmin[n]
          /\ expiration'[n] = expiration[n]
          /\ \A k \in RecordKeys : k[1] = n => records'[k] = records[k]
       \/ \A W \in Signers : ~IsAdmin(W, n) => ~NNSCall(W)]_nnsVars

\* r is s without the record d, which stands at p first: one shorter, all others
\* still there and in their order.
OthersKept(s, d, r) ==
  \A p \in DOMAIN s : s[p] = d /\ (\A i \in 1..(p - 1) : s[i] # d) =>
    /\ Len(r) = Len(s) - 1
    /\ \A i \in 1..(p - 1) : r[i] = s[i]
    /\ \A i \in (p + 1)..Len(s) : s[i] # d => r[i - 1] = s[i]

\* When this step is a call of DeleteRecord.
LosesNothing ==
  \A W \in Signers, n \in Names, type \in Types, d \in Texts \cup Aliases :
    DeleteRecord(W, n, type, d) =>
      OthersKept(records[Key(n, type)], d, records'[Key(n, type)])

\* deleteRecord rewrites a list in place, record by record.  Whatever is stored,
\* what stands before the data stays where it is and every other record behind
\* it moves up one place: none is lost, and when the data is stored once just
\* that record goes.  Stored twice, which setRecord allows, it leaves a gap that
\* its neighbour is repeated in: deleting n1 from n1, n2, n1 leaves n2, n2.
DeleteLosesNothing == [][records' # records => LosesNothing]_nnsVars

\* A domain of one or two labels that is deleted leaves no records of its own
\* for whoever registers the name next.
DeletedLeavesNothing ==
  \A n \in Names \ RegisteredNames : Len(n) <= 2 =>
    \A t \in Types : records[<<n, n, t>>] = << >>
=============================================================================
