------------------------ MODULE AuctionSystemProofs ------------------------
(***************************************************************************)
(* Clients, notary requests and the backend only ever make the chain take  *)
(* a step of Auction, so what is proved of the contracts holds for the     *)
(* whole system, whatever is raced, lost, killed or retried.               *)
(***************************************************************************)
EXTENDS AuctionSystem, AuctionProofs, SequenceTheorems

\* The steps of one call are steps of the contracts.
LEMMA ExecuteIsNext ==
  ASSUME NEW u \in Users, NEW c \in Calls, Execute(u, c)
  PROVE  Next
<1>1. ASSUME NEW t \in Tickets, c = MintCall(t) PROVE Next
  <2>1. c.op = "mint" /\ c.ticket = t
    BY <1>1 DEF MintCall
  <2>2. Mint(u, t) /\ UNCHANGED auctionVars
    BY <2>1 DEF Execute
  <2>3. u \in Accounts \ {House}
    BY NFTAssumption, AuctionAssumption DEF Accounts
  <2>. QED  BY <2>2, <2>3 DEF Next, TicketCall, NFTCall
<1>2. ASSUME NEW t \in Tickets, NEW b \in Bets,
             c = [op |-> "start", ticket |-> t, bet |-> b]
      PROVE  Next
  BY <1>2 DEF Execute, Next, Accounts
<1>3. ASSUME NEW b \in Bets, c = [op |-> "makeBet", bet |-> b] PROVE Next
  BY <1>3 DEF Execute, Next, Accounts
<1>4. ASSUME c = [op |-> "finish"] PROVE Next
  BY <1>4 DEF Execute, Next, Accounts
<1>5. \/ \E t \in Tickets : c = MintCall(t)
      \/ \E t \in Tickets, b \in Bets :
           c = [op |-> "start", ticket |-> t, bet |-> b]
      \/ \E b \in Bets : c = [op |-> "makeBet", bet |-> b]
      \/ c = [op |-> "finish"]
  BY DEF Calls, AuctionCalls
<1>. QED  BY <1>1, <1>2, <1>3, <1>4, <1>5

-----------------------------------------------------------------------------
\* What the validator uploads was asked for by a mint.
UploadsMint ==
  server.pc \in {"downloading", "addressing"} =>
    requests[server.req].call.op = "mint"

SysInv == SystemTypeOK /\ UploadsMint

LEMMA SysInitInv == SysInit => SysInv
<1>. SUFFICES ASSUME SysInit PROVE SysInv
  OBVIOUS
<1>1. requests = <<>> /\ Len(requests) = 0 /\ events = <<>>
  BY EmptySeq DEF SysInit
<1>2. requests \in Seq(Requests) /\ events \in Seq(Events(Len(requests)))
  BY <1>1, EmptySeq
<1>. QED
  BY <1>1, <1>2
  DEF SysInit, SysInv, SystemTypeOK, UploadsMint, Phases, Steps, Serving

LEMMA Typing ==
  ASSUME SysInv
  PROVE  /\ Len(requests) \in Nat
         /\ DOMAIN requests = 1..Len(requests)
         /\ \A i \in DOMAIN requests : requests[i] \in Requests
         /\ \A u \in Users : waits[u] \in 0..Len(requests)
BY LenProperties, ElementOfSeq DEF SysInv, SystemTypeOK

\* An event names a request there is.
LEMMA HeadTyped ==
  ASSUME SysInv, events # <<>>
  PROVE  /\ Head(events) \in Events(Len(requests))
         /\ Head(events).req \in DOMAIN requests
         /\ Tail(events) \in Seq(Events(Len(requests)))
<1>1. events \in Seq(Events(Len(requests)))
  BY DEF SysInv, SystemTypeOK
<1>2. /\ Head(events) \in Events(Len(requests))
      /\ Tail(events) \in Seq(Events(Len(requests)))
  BY <1>1, HeadTailProperties
<1>. QED  BY <1>2, Typing DEF Events

\* A request changes its status and nothing else.
LEMMA StatusTyped ==
  ASSUME SysInv, NEW i \in DOMAIN requests, NEW s \in Statuses,
         SetStatus(i, s)
  PROVE  /\ requests' \in Seq(Requests)
         /\ Len(requests') = Len(requests)
         /\ \A j \in DOMAIN requests : requests'[j].call = requests[j].call
<1>1. requests \in Seq(Requests) /\ requests[i] \in Requests
  BY Typing DEF SysInv, SystemTypeOK
<1>. DEFINE r == [requests[i] EXCEPT !.status = s]
<1>2. r \in Requests /\ r.call = requests[i].call
  BY <1>1 DEF Requests
<1>3. requests' = [requests EXCEPT ![i] = r]
  BY DEF SetStatus
<1>4. i \in 1..Len(requests)
  BY Typing
<1>. HIDE DEF r
<1>. QED  BY <1>1, <1>2, <1>3, <1>4, ExceptSeq, Typing

LEMMA SendInv ==
  ASSUME SysInv, NEW u \in Users, NEW c \in Calls, Send(u, c)
  PROVE  SysInv'
<1>. DEFINE r == [user |-> u, call |-> c, status |-> "sent"]
            e == [req |-> Len(requests) + 1, own |-> FALSE]
            n == Len(requests)
<1>. USE DEF SysInv, SystemTypeOK
<1>1. n \in Nat /\ DOMAIN requests = 1..n
  BY Typing
<1>2. r \in Requests
  BY DEF Requests, Statuses
<1>3. /\ requests' \in Seq(Requests)
      /\ Len(requests') = n + 1
      /\ \A i \in DOMAIN requests : requests'[i] = requests[i]
  BY <1>1, <1>2, AppendProperties DEF Send
<1>4. events' \in Seq(Events(n + 1))
  <2>1. Events(n) \subseteq Events(n + 1) /\ e \in Events(n + 1)
    BY <1>1 DEF Events
  <2>2. events \in Seq(Events(n + 1))
    BY <2>1, SeqMonotonic
  <2>. QED  BY <2>1, <2>2, AppendProperties DEF Send
<1>5. /\ waits' \in [Users -> 0..(n + 1)]
      /\ waits' = [waits EXCEPT ![u] = n + 1]
  BY <1>1 DEF Send
<1>6. server' = server /\ server \in [pc : Steps, req : 0..(n + 1)]
  BY <1>1 DEF Send
<1>7. phase' = [phase EXCEPT ![u] = "waiting"] /\ phase' \in [Users -> Phases]
  BY DEF Send, Phases
<1>8. /\ ticket' = [ticket EXCEPT ![u] = NULL]
      /\ ticket' \in [Users -> Tickets \cup {NULL}]
  BY DEF Send
<1>9. UploadsMint'
  BY <1>1, <1>3, <1>6 DEF UploadsMint, Serving
<1>. QED
  BY <1>1, <1>3, <1>4, <1>5, <1>6, <1>7, <1>8, <1>9

LEMMA DieInv ==
  ASSUME SysInv, NEW u \in Users, Die(u)
  PROVE  SysInv'
<1>1. Len(requests) \in Nat
  BY Typing
<1>. QED
  BY <1>1
  DEF Die, backendVars, SysInv, SystemTypeOK, UploadsMint, Phases

LEMMA ClientInv ==
  ASSUME SysInv, NEW u \in Users,
         \/ ClientStep(u) \/ ChooseTicket(u)
         \/ NoDeposit(u) \/ WaitFails(u) \/ Restart(u)
  PROVE  SysInv'
<1>1. CASE SendMint(u)
  <2>1. ticket[u] \in Tickets
    BY <1>1 DEF SendMint, SysInv, SystemTypeOK
  <2>. QED  BY <1>1, <2>1, SendInv DEF SendMint, Calls
<1>2. CASE Outcome(u)
  <2>1. CASE Die(u)
    BY <2>1, DieInv
  <2>2. CASE ~Die(u)
    <3>1. /\ phase[u] = "waiting"
          /\ phase' = [phase EXCEPT ![u] = "idle"]
          /\ waits' = [waits EXCEPT ![u] = 0]
          /\ UNCHANGED <<ticket, requests, backendVars>>
      BY <1>2, <2>2 DEF Outcome
    <3>. QED
      BY <3>1, Typing
      DEF backendVars, SysInv, SystemTypeOK, UploadsMint, Phases
  <2>. QED  BY <2>1, <2>2
<1>3. CASE MintRefused(u) \/ NoDeposit(u) \/ WaitFails(u)
  BY <1>3, DieInv DEF MintRefused, NoDeposit, WaitFails
<1>4. CASE ChooseTicket(u)
  <2>1. \A t \in FreeTicket(u) : t \in Tickets
    BY SystemAssumption, ElementOfSeq DEF FreeTicket
  <2>2. \A t \in Tickets : t # NULL
    BY NullIsNoValue
  <2>. QED
    BY <1>4, <2>1, <2>2
    DEF ChooseTicket, Prompted, backendVars, SysInv, SystemTypeOK,
        UploadsMint, Phases
<1>5. CASE Restart(u)
  BY <1>5
  DEF Restart, backendVars, SysInv, SystemTypeOK, UploadsMint, Phases
<1>. QED  BY <1>1, <1>2, <1>3, <1>4, <1>5 DEF ClientStep

LEMMA AuctionCallInv ==
  ASSUME SysInv, NEW u \in Users, NEW c \in AuctionCalls,
         SendAuctionCall(u, c) \/ AuctionCallRefused(u, c)
  PROVE  SysInv'
BY SendInv, DieInv DEF SendAuctionCall, AuctionCallRefused, Calls

LEMMA IncludeInv ==
  ASSUME SysInv, NEW i \in DOMAIN requests, Include(i)
  PROVE  SysInv'
<1>1. PICK s \in Statuses : SetStatus(i, s)
  BY DEF Include, IncludeMain, IncludeFallback, Expire, ExecuteOrFault,
         Statuses, Resolved, Included
<1>2. UNCHANGED <<clientVars, backendVars>>
  BY DEF Include, IncludeMain, IncludeFallback, Expire
<1>3. /\ requests' \in Seq(Requests)
      /\ Len(requests') = Len(requests)
      /\ \A j \in DOMAIN requests : requests'[j].call = requests[j].call
  BY <1>1, StatusTyped
<1>4. UploadsMint'
  BY <1>2, <1>3, Typing
  DEF SysInv, SystemTypeOK, UploadsMint, Serving, backendVars
<1>. QED
  BY <1>2, <1>3, <1>4 DEF SysInv, SystemTypeOK, clientVars, backendVars

LEMMA ServerInv ==
  ASSUME SysInv,
         \/ ServerStep \/ Download \/ WaitBreaks
         \/ ChannelCloses \/ Kill \/ StartServer
  PROVE  SysInv'
<1>. USE DEF SysInv, SystemTypeOK, UploadsMint, clientVars, Steps, Serving
<1>1. Len(requests) \in Nat
  BY Typing
<1>2. <<>> \in Seq(Events(Len(requests)))
  BY EmptySeq
<1>3. CASE IgnoreOwn \/ SignFails
  BY <1>3, HeadTyped DEF IgnoreOwn, SignFails, Listening
<1>4. CASE Panic
  BY <1>1, <1>2, <1>4 DEF Panic, ServerGoes
<1>5. CASE Sign
  <2>. DEFINE i == Head(events).req
              e == [req |-> i, own |-> TRUE]
  <2>1. i \in DOMAIN requests /\ i \in 1..Len(requests)
    BY <1>5, HeadTyped, Typing DEF Sign, Listening
  <2>2. /\ requests' \in Seq(Requests)
        /\ Len(requests') = Len(requests)
    BY <1>5, <2>1, StatusTyped DEF Sign, Statuses
  <2>3. Append(Tail(events), e) \in Seq(Events(Len(requests)))
    <3>1. e \in Events(Len(requests))
      BY <2>1 DEF Events
    <3>. QED
      BY <1>5, <3>1, HeadTyped, AppendProperties DEF Sign, Listening
  <2>4. /\ events' = Append(Tail(events), e)
        /\ server' = [pc |-> "waiting", req |-> i]
    BY <1>5 DEF Sign, ServerGoes
  <2>. QED  BY <1>1, <1>5, <2>1, <2>2, <2>3, <2>4 DEF Sign
<1>6. CASE WaitReturns
  BY <1>1, <1>6 DEF WaitReturns, NeedsUpload, ServerGoes
<1>7. CASE \/ WaitExpires \/ WaitBreaks \/ Download \/ Publish
          \/ PublishFails \/ ChannelCloses \/ StartServer
  BY <1>1, <1>7
  DEF WaitExpires, WaitBreaks, Download, Upload, UploadFails, Publish,
      PublishFails, ChannelCloses, StartServer, ServerGoes
<1>8. CASE Kill
  BY <1>1, <1>2, <1>8 DEF Kill, ServerGoes
<1>. QED  BY <1>3, <1>4, <1>5, <1>6, <1>7, <1>8 DEF ServerStep

LEMMA SysNextInv == SysInv /\ [SysNext]_sysVars => SysInv'
<1>1. SysInv /\ UNCHANGED sysVars => SysInv'
  BY DEF sysVars, clientVars, backendVars, SysInv, SystemTypeOK, UploadsMint
<1>. QED
  BY <1>1, ClientInv, AuctionCallInv, IncludeInv, ServerInv DEF SysNext

\* Clients and the backend only ever wait for requests that were sent, in every
\* interleaving and after every crash.
THEOREM SystemTyped == SysSpec => []SystemTypeOK
<1>1. SysInv => SystemTypeOK
  BY DEF SysInv
<1>. QED  BY <1>1, SysInitInv, SysNextInv, PTL DEF SysSpec
-----------------------------------------------------------------------------
\* Every step of the system is a step of the contracts or none.
LEMMA SysStepIsNext ==
  ASSUME SysInv, [SysNext]_sysVars
  PROVE  [Next]_vars
<1>1. ASSUME NEW i \in DOMAIN requests, IncludeMain(i) PROVE [Next]_vars
  <2>1. requests[i].user \in Users /\ requests[i].call \in Calls
    BY Typing DEF Requests
  <2>. QED  BY <1>1, <2>1, ExecuteIsNext DEF IncludeMain
<1>2. ASSUME Publish PROVE Next
  <2>1. /\ requests[server.req] \in Requests
        /\ requests[server.req].call.op = "mint"
    BY <1>2, Typing DEF Publish, Serving, SysInv, SystemTypeOK, UploadsMint
  <2>2. requests[server.req].call.ticket \in Tickets
    <3>1. \A c \in AuctionCalls : c.op # "mint"
      BY DEF AuctionCalls
    <3>2. \A t \in Tickets : MintCall(t).ticket = t
      BY DEF MintCall
    <3>. QED  BY <2>1, <3>1, <3>2 DEF Requests, Calls
  <2>3. \E t \in Tickets, a \in Addresses :
          SetAddress({Admin}, t, a) /\ UNCHANGED auctionVars
    BY <1>2, <2>2 DEF Publish, SetAddress, CanSetAddress
  <2>. QED  BY <2>3 DEF Next, TicketCall, NFTCall
<1>3. ASSUME NEW u \in Users, Die(u) PROVE UNCHANGED vars
  BY <1>3 DEF Die
<1>. QED
  BY <1>1, <1>2, <1>3
  DEF SysNext, sysVars, ClientStep, ChooseTicket, NoDeposit, WaitFails,
      Restart, SendMint, MintRefused, Outcome, SendAuctionCall,
      AuctionCallRefused, Send, Include, IncludeFallback, Expire, ServerStep,
      IgnoreOwn, Panic, Sign, SignFails, WaitReturns, WaitExpires, Download,
      Upload, UploadFails, PublishFails, WaitBreaks, ChannelCloses, Kill,
      StartServer

\* The system runs the contracts and does nothing else to their storage.
LEMMA SystemRunsContracts == SysSpec => Spec
<1>1. SysInit => Init
  BY DEF SysInit
<1>. QED
  BY <1>1, SysInitInv, SysNextInv, SysStepIsNext, PTL
  DEF SysSpec, Spec

\* So the invariants of the contracts are invariants of the system.
THEOREM SystemSafety ==
  SysSpec => [](/\ NFTTypeOK /\ LedgerAgrees /\ AuctionTypeOK /\ NoLeftovers
                /\ LeaderPaysMore /\ CanBeFinished)
BY SystemRunsContracts, AuctionSafety, AuctionLedger, PTL

\* And what no step of the contracts does, no step of the system does: tickets
\* keep existing with their addresses, and the price of an auction only rises.
THEOREM SystemPersistence == SysSpec => TicketsPersist /\ BidsRise
BY SystemRunsContracts, AuctionPersistence, AuctionBidsRise, PTL
=============================================================================
