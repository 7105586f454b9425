--------------------------- MODULE RequestProofs ---------------------------
(***************************************************************************)
(* What the chain holds is what the requests of the clients asked for.  A  *)
(* step of the system leaves chain and executed requests alone, or adds    *)
(* one request to the executed ones and executes its call, or sets an      *)
(* address: the invariants that relate the two need only these three.      *)
(***************************************************************************)
EXTENDS AuctionSystemProofs

\* No request is executed; those that were sent keep user and call.
NothingDone ==
  /\ \A o : Executed(o)' = Executed(o)
  /\ DOMAIN requests \subseteq DOMAIN requests'
  /\ \A j \in DOMAIN requests : /\ requests'[j].user = requests[j].user
                                /\ requests'[j].call = requests[j].call

\* The request i is executed.
Done(i) ==
  LET r == requests[i] IN
    /\ Accepts(r.user, r.call) /\ Execute(r.user, r.call)
    /\ \A o : /\ i \notin Executed(o)
              /\ Executed(o)' = IF o = r.call.op THEN Executed(o) \cup {i}
                                ELSE Executed(o)
    /\ DOMAIN requests' = DOMAIN requests
    /\ \A j \in DOMAIN requests : /\ requests'[j].user = requests[j].user
                                  /\ requests'[j].call = requests[j].call

\* What a change of status does to the requests.
LEMMA StatusSet ==
  ASSUME SysInv, NEW i \in DOMAIN requests, NEW s, SetStatus(i, s)
  PROVE  /\ DOMAIN requests' = DOMAIN requests
         /\ \A j \in DOMAIN requests :
              /\ requests'[j].user = requests[j].user
              /\ requests'[j].call = requests[j].call
              /\ requests'[j].status = IF j = i THEN s ELSE requests[j].status
<1>1. \A j \in DOMAIN requests :
        requests[j] \in [user : Users, call : Calls, status : Statuses]
  BY Typing DEF Requests
<1>. DEFINE r == [requests[i] EXCEPT !.status = s]
<1>2. r.user = requests[i].user /\ r.call = requests[i].call /\ r.status = s
  BY <1>1
<1>3. requests' = [requests EXCEPT ![i] = r]
  BY DEF SetStatus
<1>. HIDE DEF r
<1>4. /\ DOMAIN requests' = DOMAIN requests
      /\ \A j \in DOMAIN requests :
           requests'[j] = IF j = i THEN r ELSE requests[j]
  BY <1>3
<1>. QED  BY <1>2, <1>4

\* A status that neither was nor becomes a success.
LEMMA NothingDoneIf ==
  ASSUME SysInv, NEW i \in DOMAIN requests, NEW s, SetStatus(i, s),
         s # "halt", requests[i].status # "halt"
  PROVE  NothingDone
<1>1. ASSUME NEW o PROVE Executed(o)' = Executed(o)
  BY StatusSet DEF Executed
<1>. QED  BY <1>1, StatusSet DEF NothingDone

LEMMA StutterDone ==
  ASSUME UNCHANGED requests
  PROVE  NothingDone
BY DEF NothingDone, Executed

LEMMA SendDone ==
  ASSUME SysInv, NEW u \in Users, NEW c \in Calls, Send(u, c)
  PROVE  NothingDone
<1>. DEFINE r == [user |-> u, call |-> c, status |-> "sent"]
            n == Len(requests)
<1>1. n \in Nat /\ DOMAIN requests = 1..n /\ requests \in Seq(Requests)
  BY Typing DEF SysInv, SystemTypeOK
<1>2. r \in Requests
  BY DEF Requests, Statuses
<1>3. /\ DOMAIN requests' = 1..(n + 1)
      /\ \A i \in DOMAIN requests : requests'[i] = requests[i]
      /\ requests'[n + 1].status = "sent"
  BY <1>1, <1>2, AppendProperties, LenProperties DEF Send
<1>4. ASSUME NEW o PROVE Executed(o)' = Executed(o)
  BY <1>1, <1>3 DEF Executed
<1>. QED  BY <1>1, <1>3, <1>4 DEF NothingDone

LEMMA IncludeDone ==
  ASSUME SysInv, NEW i \in DOMAIN requests, Include(i)
  PROVE  (NothingDone /\ UNCHANGED vars) \/ Done(i)
<1>1. CASE IncludeFallback(i) \/ Expire(i)
  <2>1. requests[i].status # "halt"
    BY <1>1 DEF IncludeFallback, Expire
  <2>2. SetStatus(i, "fallback") \/ SetStatus(i, "expired")
    BY <1>1 DEF IncludeFallback, Expire
  <2>3. UNCHANGED vars
    BY <1>1 DEF IncludeFallback, Expire
  <2>. QED  BY <2>1, <2>2, <2>3, NothingDoneIf
<1>2. CASE IncludeMain(i)
  <2>1. requests[i].status = "signed"
    BY <1>2 DEF IncludeMain
  <2>2. CASE ~Accepts(requests[i].user, requests[i].call)
    <3>1. SetStatus(i, "fault") /\ UNCHANGED vars
      BY <1>2, <2>2 DEF IncludeMain, ExecuteOrFault
    <3>. QED  BY <2>1, <3>1, NothingDoneIf
  <2>3. CASE Accepts(requests[i].user, requests[i].call)
    <3>1. /\ SetStatus(i, "halt")
          /\ Execute(requests[i].user, requests[i].call)
      BY <1>2, <2>3 DEF IncludeMain, ExecuteOrFault
    <3>2. ASSUME NEW o
          PROVE  /\ i \notin Executed(o)
                 /\ Executed(o)' = IF o = requests[i].call.op
                                   THEN Executed(o) \cup {i} ELSE Executed(o)
      BY <2>1, <3>1, StatusSet DEF Executed
    <3>. QED  BY <2>3, <3>1, <3>2, StatusSet DEF Done
  <2>. QED  BY <2>2, <2>3
<1>. QED  BY <1>1, <1>2 DEF Include

LEMMA SysStepDone ==
  ASSUME SysInv, [SysNext]_sysVars
  PROVE  \/ NothingDone /\ UNCHANGED vars
         \/ \E i \in DOMAIN requests : Done(i)
         \/ NothingDone /\ Publish
<1>1. ASSUME NEW u \in Users, NEW c \in Calls, Send(u, c)
      PROVE  NothingDone /\ UNCHANGED vars
  BY <1>1, SendDone DEF Send
<1>2. ASSUME NEW u \in Users, SendMint(u) PROVE NothingDone /\ UNCHANGED vars
  <2>1. ticket[u] \in Tickets
    BY <1>2 DEF SendMint, SysInv, SystemTypeOK
  <2>. QED  BY <1>1, <1>2, <2>1 DEF SendMint, Calls
<1>3. ASSUME NEW u \in Users, NEW c \in AuctionCalls, SendAuctionCall(u, c)
      PROVE  NothingDone /\ UNCHANGED vars
  BY <1>1, <1>3 DEF SendAuctionCall, Calls
<1>4. ASSUME NEW u \in Users, Die(u) PROVE NothingDone /\ UNCHANGED vars
  BY <1>4, StutterDone DEF Die
<1>5. CASE Sign
  <2>. DEFINE i == Head(events).req
  <2>1. i \in DOMAIN requests
    BY <1>5, HeadTyped DEF Sign, Listening
  <2>2. requests[i].status = "sent" /\ SetStatus(i, "signed") /\ UNCHANGED vars
    BY <1>5 DEF Sign
  <2>. QED  BY <2>1, <2>2, NothingDoneIf
<1>6. CASE Publish
  BY <1>6, StutterDone DEF Publish
<1>. QED
  BY <1>2, <1>3, <1>4, <1>5, <1>6, IncludeDone, StutterDone
  DEF SysNext, sysVars, ClientStep, ChooseTicket, NoDeposit, WaitFails,
      Restart, MintRefused, Outcome, AuctionCallRefused, ServerStep,
      IgnoreOwn, Panic, SignFails, WaitReturns, WaitExpires, Download, Upload,
      UploadFails, PublishFails, WaitBreaks, ChannelCloses, Kill, StartServer
-----------------------------------------------------------------------------
\* What an execution does to the chain, by the method that is called.
LEMMA DoneCases ==
  ASSUME SysInv, NEW i \in DOMAIN requests, Done(i)
  PROVE  LET r == requests[i] IN
           /\ r.user \in Users
           /\ \/ /\ r.call.op = "mint" /\ r.call.ticket \in Tickets
                 /\ Mint(r.user, r.call.ticket) /\ UNCHANGED auctionVars
              \/ /\ r.call.op = "start" /\ r.call.ticket \in Tickets
                 /\ r.call.bet \in Bets
                 /\ Start(r.user, r.call.ticket, r.call.bet)
              \/ /\ r.call.op = "makeBet" /\ r.call.bet \in Bets
                 /\ MakeBet(r.user, r.call.bet)
              \/ r.call.op = "finish" /\ Finish(r.user, r.user)
<1>1. requests[i].user \in Users /\ requests[i].call \in Calls
  BY Typing DEF Requests
<1>2. \A c \in Calls :
        \/ c.op = "mint" /\ c.ticket \in Tickets
        \/ c.op = "start" /\ c.ticket \in Tickets /\ c.bet \in Bets
        \/ c.op = "makeBet" /\ c.bet \in Bets
        \/ c.op = "finish"
  BY DEF Calls, MintCall, AuctionCalls
<1>. QED
  BY <1>1, <1>2 DEF Done, Execute

\* The three methods of the auction move tickets and mint none.
LEMMA AuctionKeepsTickets ==
  ASSUME AuctionInv, NEW u \in Users,
         \/ \E t \in Tickets, b \in Bets : Start(u, t, b)
         \/ \E b \in Bets : MakeBet(u, b)
         \/ Finish(u, u)
  PROVE  /\ \A t \in Tickets : nftExists(t)' = nftExists(t)
         /\ address' = address
<1>1. CASE \/ \E t \in Tickets, b \in Bets : Start(u, t, b)
           \/ \E b \in Bets : MakeBet(u, b)
  BY <1>1 DEF Start, MakeBet, nftVars, nftExists
<1>2. CASE Finish(u, u)
  <2>1. Winner # NULL /\ lot \in Tickets /\ nftExists(lot)
    BY <1>2, NullIsNoValue
    DEF Finish, CanFinish, CanTransfer, AuctionInv, AuctionTypeOK, Winner
  <2>2. owner' = owner \/ owner' = [owner EXCEPT ![lot] = Winner]
    BY <1>2 DEF Finish, Transfer, Move
  <2>3. address' = address
    BY <1>2 DEF Finish, Transfer
  <2>. QED
    BY <2>1, <2>2, <2>3 DEF nftExists, AuctionInv, NFTInv, NFTTypeOK
<1>. QED  BY <1>1, <1>2

LEMMA PublishKeeps ==
  ASSUME Publish
  PROVE  owner' = owner /\ UNCHANGED auctionVars
BY DEF Publish, SetAddress
-----------------------------------------------------------------------------
\* Tickets and mint requests.

LEMMA TicketsSame ==
  ASSUME TicketsMatchRequests, SysInv,
         Executed("mint")' = Executed("mint"),
         \A j \in DOMAIN requests : requests'[j].call = requests[j].call,
         \A t \in Tickets : nftExists(t)' = nftExists(t)
  PROVE  TicketsMatchRequests'
<1>1. Minted' = Minted
  BY DEF Minted
<1>2. \A j \in Executed("mint") :
        /\ requests'[j].call = requests[j].call
        /\ requests[j].call.ticket \in Tickets
  <2>1. \A c \in Calls : c.op = "mint" => c.ticket \in Tickets
    BY DEF Calls, MintCall, AuctionCalls
  <2>. QED  BY <2>1, Typing DEF Executed, Requests
<1>. QED
  BY <1>1, <1>2 DEF TicketsMatchRequests

LEMMA TicketsStep ==
  ASSUME SysInv, AuctionInv, TicketsMatchRequests, [SysNext]_sysVars
  PROVE  TicketsMatchRequests'
<1>1. CASE NothingDone /\ UNCHANGED vars
  BY <1>1, TicketsSame DEF NothingDone, vars, nftVars, nftExists
<1>2. CASE NothingDone /\ Publish
  BY <1>2, TicketsSame, PublishKeeps DEF NothingDone, nftExists
<1>3. ASSUME NEW i \in DOMAIN requests, Done(i) PROVE TicketsMatchRequests'
  <2>. DEFINE r == requests[i]
  <2>1. ASSUME NEW t \in Tickets, r.call.op = "mint", r.call.ticket = t,
               Mint(r.user, t)
        PROVE  TicketsMatchRequests'
    <3>1. ~nftExists(t) /\ owner' = [owner EXCEPT ![t] = r.user] /\ r.user # NULL
      BY <1>3, <2>1, DoneCases, NullIsNoValue DEF Mint, CanMint
    <3>2. Minted' = Minted \cup {t} /\ nftExists(t)'
             /\ \A s \in Tickets : nftExists(s) => nftExists(s)'
      <4>1. \A s \in Tickets : owner'[s] = IF s = t THEN r.user ELSE owner[s]
        BY <3>1 DEF AuctionInv, NFTInv, NFTTypeOK
      <4>. QED  BY <2>1, <3>1, <4>1 DEF Minted, nftExists
    <3>3. Executed("mint")' = Executed("mint") \cup {i}
      BY <1>3, <2>1 DEF Done
    <3>4. \A j \in Executed("mint") \cup {i} :
            requests'[j].call = requests[j].call
      BY <1>3 DEF Done, Executed
    <3>5. \A j \in Executed("mint") :
            /\ requests[j].call.ticket \in Tickets
            /\ nftExists(requests[j].call.ticket)
            /\ requests[j].call.ticket # t
      <4>1. \A c \in Calls : c.op = "mint" => c.ticket \in Tickets
        BY DEF Calls, MintCall, AuctionCalls
      <4>. QED  BY <3>1, <4>1, Typing DEF Executed, Requests, TicketsMatchRequests
    <3>. QED  BY <2>1, <3>2, <3>3, <3>4, <3>5 DEF TicketsMatchRequests
  <2>2. CASE r.call.op # "mint"
    <3>1. Executed("mint")' = Executed("mint")
      BY <1>3, <2>2 DEF Done
    <3>2. \A s \in Tickets : nftExists(s)' = nftExists(s)
      BY <1>3, <2>2, DoneCases, AuctionKeepsTickets
    <3>. QED  BY <1>3, <3>1, <3>2, TicketsSame DEF Done
  <2>. QED  BY <1>3, <2>1, <2>2, DoneCases
<1>. QED  BY <1>1, <1>2, <1>3, SysStepDone

-----------------------------------------------------------------------------
\* Starts, finishes and the terms of the running auction.

LEMMA FiniteExecuted ==
  ASSUME SysInv, NEW o
  PROVE  IsFiniteSet(Executed(o)) /\ Cardinality(Executed(o)) \in Nat
<1>1. IsFiniteSet(DOMAIN requests)
  BY Typing, FS_Interval
<1>2. Executed(o) \in SUBSET DOMAIN requests
  BY DEF Executed
<1>. QED  BY <1>1, <1>2, FS_Subset, FS_CardinalityType

LEMMA OneMoreDone ==
  ASSUME SysInv, NEW i \in DOMAIN requests, Done(i), NEW o
  PROVE  Cardinality(Executed(o)') =
           IF o = requests[i].call.op THEN Cardinality(Executed(o)) + 1
                                      ELSE Cardinality(Executed(o))
BY FiniteExecuted, FS_AddElement DEF Done

LEMMA AlternateStep ==
  ASSUME SysInv, AuctionInv, StartsAlternate, [SysNext]_sysVars
  PROVE  StartsAlternate'
<1>. DEFINE S == Cardinality(Executed("start"))
            F == Cardinality(Executed("finish"))
<1>1. S \in Nat /\ F \in Nat
  BY FiniteExecuted
<1>2. CASE NothingDone /\ UNCHANGED organizer
  BY <1>2 DEF NothingDone, StartsAlternate, Running
<1>3. ASSUME NEW i \in DOMAIN requests, Done(i) PROVE StartsAlternate'
  <2>. DEFINE r == requests[i]
  <2>1. /\ S' = IF r.call.op = "start" THEN S + 1 ELSE S
        /\ F' = IF r.call.op = "finish" THEN F + 1 ELSE F
    BY <1>3, OneMoreDone
  <2>2. r.user # NULL
    BY <1>3, DoneCases, NullIsNoValue
  <2>3. CASE r.call.op = "start" /\ Start(r.user, r.call.ticket, r.call.bet)
    <3>1. ~Running /\ Running'
      BY <2>2, <2>3 DEF Start, CanStart, Running
    <3>. QED  BY <1>1, <2>1, <2>3, <3>1 DEF StartsAlternate
  <2>4. CASE r.call.op = "finish" /\ Finish(r.user, r.user)
    <3>1. Running /\ ~Running'
      BY <2>2, <2>4 DEF Finish, CanFinish, clearStorage, Running
    <3>. QED  BY <1>1, <2>1, <2>4, <3>1 DEF StartsAlternate
  <2>5. CASE r.call.op \in {"mint", "makeBet"} /\ organizer' = organizer
    BY <2>1, <2>5 DEF StartsAlternate, Running
  <2>. QED
    BY <1>3, <2>3, <2>4, <2>5, DoneCases DEF MakeBet, auctionVars
<1>. QED
  BY <1>2, <1>3, SysStepDone, PublishKeeps DEF vars, auctionVars

LEMMA TermsSame ==
  ASSUME TermsFromRequests, UNCHANGED auctionVars,
         \A o \in {"start", "makeBet"} : Executed(o) \subseteq Executed(o)',
         \A j \in DOMAIN requests : /\ requests'[j].user = requests[j].user
                                    /\ requests'[j].call = requests[j].call
  PROVE  TermsFromRequests'
<1>1. \A o : \A j \in Executed(o) : j \in DOMAIN requests
  BY DEF Executed
<1>. QED
  BY <1>1 DEF TermsFromRequests, auctionVars, Running

LEMMA TermsStep ==
  ASSUME SysInv, AuctionInv, TermsFromRequests, [SysNext]_sysVars
  PROVE  TermsFromRequests'
<1>1. CASE NothingDone /\ UNCHANGED auctionVars
  BY <1>1, TermsSame DEF NothingDone
<1>2. ASSUME NEW i \in DOMAIN requests, Done(i) PROVE TermsFromRequests'
  <2>. DEFINE r == requests[i]
  <2>1. /\ \A o : Executed(o) \subseteq Executed(o)'
        /\ i \in Executed(r.call.op)'
        /\ \A j \in DOMAIN requests : /\ requests'[j].user = requests[j].user
                                      /\ requests'[j].call = requests[j].call
        /\ \A o : \A j \in Executed(o) : j \in DOMAIN requests
    BY <1>2 DEF Done, Executed
  <2>2. CASE r.call.op = "mint" /\ UNCHANGED auctionVars
    BY <2>1, <2>2, TermsSame
  <2>3. CASE r.call.op = "start" /\ Start(r.user, r.call.ticket, r.call.bet)
    <3>1. potentialWinner = NULL
      BY <2>3 DEF Start, CanStart, AuctionInv, NoLeftovers, Running
    <3>2. i \in Executed("start")'
      BY <2>1, <2>3
    <3>3. /\ organizer' = r.user /\ lot' = r.call.ticket
          /\ initBet' = r.call.bet /\ potentialWinner' = NULL
      BY <2>3, <3>1 DEF Start
    <3>. QED  BY <2>1, <3>2, <3>3 DEF TermsFromRequests
  <2>4. CASE r.call.op = "makeBet" /\ MakeBet(r.user, r.call.bet)
    <3>1. Running /\ i \in Executed("makeBet")'
      BY <2>1, <2>4 DEF MakeBet, CanMakeBet, Running
    <3>2. /\ UNCHANGED <<organizer, lot, initBet>>
          /\ potentialWinner' = r.user /\ currentBet' = r.call.bet
      BY <2>4 DEF MakeBet
    <3>3. PICK j \in Executed("start") :
            /\ requests[j].user = organizer
            /\ requests[j].call.ticket = lot
            /\ requests[j].call.bet = initBet
      BY <3>1 DEF TermsFromRequests
    <3>4. /\ j \in Executed("start")'
          /\ requests'[j].user = organizer'
          /\ requests'[j].call.ticket = lot'
          /\ requests'[j].call.bet = initBet'
      BY <2>1, <3>2, <3>3
    <3>5. /\ requests'[i].user = potentialWinner'
          /\ requests'[i].call.bet = currentBet'
      BY <2>1, <3>2
    <3>. QED  BY <3>1, <3>4, <3>5 DEF TermsFromRequests
  <2>5. CASE Finish(r.user, r.user)
    BY <2>5 DEF Finish, clearStorage, TermsFromRequests, Running
  <2>. QED  BY <1>2, <2>2, <2>3, <2>4, <2>5, DoneCases
<1>. QED
  BY <1>1, <1>2, SysStepDone, PublishKeeps DEF vars, auctionVars
-----------------------------------------------------------------------------
ReqInv ==
  /\ SysInv /\ AuctionInv
  /\ TicketsMatchRequests
  /\ StartsAlternate /\ TermsFromRequests

LEMMA ReqInit == SysInit => ReqInv
<1>. SUFFICES ASSUME SysInit PROVE ReqInv
  OBVIOUS
<1>1. SysInv /\ AuctionInv
  BY SysInitInv, InitInv DEF SysInit
<1>2. \A o : Executed(o) = {}
  BY DEF SysInit, Executed
<1>3. Minted = {} /\ ~Running
  BY DEF SysInit, Init, NFTInit, Minted, nftExists, Running
<1>4. StartsAlternate
  <2>1. Cardinality({}) = 0
    BY FS_EmptySet
  <2>2. Cardinality(Executed("start")) = 0 /\ Cardinality(Executed("finish")) = 0
    BY <1>2, <2>1
  <2>. QED  BY <1>3, <2>2 DEF StartsAlternate
<1>. QED
  BY <1>1, <1>2, <1>3, <1>4
  DEF ReqInv, TicketsMatchRequests, TermsFromRequests

LEMMA ReqStep == ReqInv /\ [SysNext]_sysVars => ReqInv'
<1>. SUFFICES ASSUME ReqInv, [SysNext]_sysVars PROVE ReqInv'
  OBVIOUS
<1>1. SysInv' /\ AuctionInv'
  BY SysNextInv, SysStepIsNext, AuctionNextInv DEF ReqInv
<1>. QED
  BY <1>1, TicketsStep, AlternateStep, TermsStep DEF ReqInv

\* The tickets that exist are those of the executed mint requests, one each,
\* for any number of clients and requests and in spite of kills, failures and
\* fallbacks.
THEOREM TicketsAreRequested == SysSpec => []TicketsMatchRequests
<1>1. ReqInv => TicketsMatchRequests
  BY DEF ReqInv
<1>. QED  BY <1>1, ReqInit, ReqStep, PTL DEF SysSpec

\* Executed starts and finishes alternate, however many clients had their start
\* checked at the same time.
THEOREM OneAuctionAtATime == SysSpec => []StartsAlternate
<1>1. ReqInv => StartsAlternate
  BY DEF ReqInv
<1>. QED  BY <1>1, ReqInit, ReqStep, PTL DEF SysSpec

\* The terms of the running auction are those of one executed start, its price
\* and leader those of one executed bet.
THEOREM AuctionIsRequested == SysSpec => []TermsFromRequests
<1>1. ReqInv => TermsFromRequests
  BY DEF ReqInv
<1>. QED  BY <1>1, ReqInit, ReqStep, PTL DEF SysSpec
-----------------------------------------------------------------------------
(* A client that is told of a new token owns it.  Between the execution of *)
(* its mint and the end of its wait the ticket could only be lost in an    *)
(* auction, which only its owner starts: but a start is not sent for a     *)
(* ticket that does not exist, and a client that waits sends nothing.      *)

StartsName(t, u) ==
  \E j \in DOMAIN requests : /\ requests[j].user = u
                             /\ requests[j].call.op = "start"
                             /\ requests[j].call.ticket = t

GotToken(u, t) ==
  /\ phase[u] = "waiting"
  /\ waits[u] \in Executed("mint")
  /\ requests[waits[u]].call.ticket = t

TokenInv ==
  /\ \A u \in Users, t \in Tickets : StartsName(t, u) => nftExists(t)
  /\ \A u \in Users : phase[u] = "waiting" => requests[waits[u]].user = u
  /\ \A u \in Users, t \in Tickets :
       GotToken(u, t) => owner[t] = u /\ lot # t /\ ~StartsName(t, u)

\* Only sending begins a wait or adds a request.
LEMMA WaitsOrSends ==
  ASSUME SysInv, [SysNext]_sysVars
  PROVE  \/ \E u \in Users, c \in Calls : Send(u, c)
         \/ /\ DOMAIN requests' = DOMAIN requests
            /\ \A u \in Users : phase'[u] = "waiting" =>
                 phase[u] = "waiting" /\ waits'[u] = waits[u]
<1>1. ASSUME NEW u \in Users, SendMint(u)
      PROVE  \E c \in Calls : Send(u, c)
  <2>1. ticket[u] \in Tickets
    BY <1>1 DEF SendMint, SysInv, SystemTypeOK
  <2>. QED  BY <1>1, <2>1 DEF SendMint, Calls
<1>2. ASSUME NEW u \in Users, NEW c \in AuctionCalls, SendAuctionCall(u, c)
      PROVE  \E d \in Calls : Send(u, d)
  BY <1>2 DEF SendAuctionCall, Calls
<1>. DEFINE Waits == /\ DOMAIN requests' = DOMAIN requests
                     /\ \A u \in Users : phase'[u] = "waiting" =>
                          phase[u] = "waiting" /\ waits'[u] = waits[u]
<1>3. ASSUME UNCHANGED clientVars, DOMAIN requests' = DOMAIN requests
      PROVE  Waits
  BY <1>3 DEF clientVars
<1>4. ASSUME NEW u \in Users, NEW p, p # "waiting",
             phase' = [phase EXCEPT ![u] = p], UNCHANGED requests,
             \A v \in Users \ {u} : waits'[v] = waits[v]
      PROVE  Waits
  BY <1>4 DEF SysInv, SystemTypeOK
<1>5. ASSUME NEW u \in Users, Die(u) PROVE Waits
  BY <1>4, <1>5 DEF Die, SysInv, SystemTypeOK
<1>6. ASSUME NEW u \in Users, Outcome(u) \/ ChooseTicket(u) \/ Restart(u)
      PROVE  Waits
  BY <1>4, <1>5, <1>6 DEF Outcome, ChooseTicket, Restart, SysInv, SystemTypeOK
<1>7. ASSUME NEW i \in DOMAIN requests, Include(i) PROVE Waits
  BY <1>3, <1>7 DEF Include, IncludeMain, IncludeFallback, Expire, SetStatus
<1>8. ASSUME \/ ServerStep \/ Download \/ WaitBreaks
             \/ ChannelCloses \/ Kill \/ StartServer
      PROVE  Waits
  BY <1>3, <1>8
  DEF ServerStep, IgnoreOwn, Panic, Sign, SignFails, WaitReturns, WaitExpires,
      Download, Upload, UploadFails, Publish, PublishFails, WaitBreaks,
      ChannelCloses, Kill, StartServer, SetStatus
<1>9. ASSUME UNCHANGED sysVars PROVE Waits
  BY <1>3, <1>9 DEF sysVars
<1>. HIDE DEF Waits
<1>10. \/ \E u \in Users, c \in Calls : Send(u, c)
       \/ Waits
  BY <1>1, <1>2, <1>5, <1>6, <1>7, <1>8, <1>9
  DEF SysNext, ClientStep, NoDeposit, WaitFails, MintRefused,
      AuctionCallRefused
<1>. QED  BY <1>10 DEF Waits

LEMMA TokenSend ==
  ASSUME SysInv, TokenInv, NEW u \in Users, NEW c \in Calls, Send(u, c)
  PROVE  TokenInv'
<1>. DEFINE n == Len(requests)
            r == [user |-> u, call |-> c, status |-> "sent"]
<1>1. n \in Nat /\ DOMAIN requests = 1..n /\ requests \in Seq(Requests)
  BY Typing DEF SysInv, SystemTypeOK
<1>2. r \in Requests
  BY DEF Requests, Statuses
<1>3. /\ DOMAIN requests' = 1..(n + 1)
      /\ \A j \in DOMAIN requests : requests'[j] = requests[j]
      /\ requests'[n + 1] = r
  BY <1>1, <1>2, AppendProperties, LenProperties DEF Send
<1>4. UNCHANGED vars
  BY DEF Send
<1>5. ASSUME NEW v \in Users, NEW t \in Tickets, StartsName(t, v)'
      PROVE  StartsName(t, v) \/ (v = u /\ nftExists(t))
  <2>1. PICK j \in DOMAIN requests' : /\ requests'[j].user = v
                                      /\ requests'[j].call.op = "start"
                                      /\ requests'[j].call.ticket = t
    BY <1>5 DEF StartsName
  <2>2. CASE j \in DOMAIN requests
    BY <1>3, <2>1, <2>2 DEF StartsName
  <2>3. CASE j \notin DOMAIN requests
    <3>1. requests'[j] = r
      BY <1>1, <1>3, <2>3
    <3>2. c.op = "start" /\ c.ticket = t /\ v = u
      BY <2>1, <3>1
    <3>. QED  BY <3>2 DEF Send, Accepts, CanStart
  <2>. QED  BY <2>2, <2>3
<1>6. /\ phase' = [phase EXCEPT ![u] = "waiting"]
      /\ waits' = [waits EXCEPT ![u] = n + 1]
  BY DEF Send
<1>7. \A v \in Users \ {u} : /\ phase'[v] = phase[v] /\ waits'[v] = waits[v]
                             /\ phase[v] = "waiting" => waits[v] \in DOMAIN requests
  BY <1>1, <1>6 DEF SysInv, SystemTypeOK
<1>8. phase'[u] = "waiting" /\ waits'[u] = n + 1
  BY <1>6 DEF SysInv, SystemTypeOK
<1>9. Executed("mint")' = Executed("mint")
  BY SendDone DEF NothingDone
<1>10. \A v \in Users, t \in Tickets : GotToken(v, t)' => v # u /\ GotToken(v, t)
  <2>1. n + 1 \notin Executed("mint")
    BY <1>1 DEF Executed
  <2>. QED  BY <1>3, <1>7, <1>8, <1>9, <2>1 DEF GotToken
<1>11. owner' = owner /\ lot' = lot
  BY <1>4 DEF vars, nftVars, auctionVars
<1>12. \A v \in Users, t \in Tickets : StartsName(t, v)' => nftExists(t)'
  BY <1>5, <1>11 DEF TokenInv, nftExists
<1>13. \A v \in Users : phase'[v] = "waiting" => requests'[waits'[v]].user = v
  BY <1>3, <1>7, <1>8 DEF TokenInv
<1>. QED
  BY <1>5, <1>10, <1>11, <1>12, <1>13 DEF TokenInv

\* A step that sends nothing.
LEMMA TokenWait ==
  ASSUME SysInv, TokenInv,
         DOMAIN requests' = DOMAIN requests,
         \A j \in DOMAIN requests : /\ requests'[j].user = requests[j].user
                                    /\ requests'[j].call = requests[j].call,
         \A u \in Users : phase'[u] = "waiting" =>
           phase[u] = "waiting" /\ waits'[u] = waits[u]
  PROVE  /\ \A t, u : StartsName(t, u)' = StartsName(t, u)
         /\ \A u \in Users : phase'[u] = "waiting" => requests'[waits'[u]].user = u
         /\ \A u \in Users, t \in Tickets : GotToken(u, t)' =>
              /\ phase[u] = "waiting" /\ waits[u] = waits'[u]
              /\ requests[waits[u]].call.ticket = t
              /\ waits[u] \in Executed("mint") => GotToken(u, t)
<1>1. \A u \in Users : phase[u] = "waiting" => waits[u] \in DOMAIN requests
  BY Typing DEF SysInv, SystemTypeOK
<1>2. \A t, u : StartsName(t, u)' = StartsName(t, u)
  BY DEF StartsName
<1>3. \A u \in Users : phase'[u] = "waiting" => requests'[waits'[u]].user = u
  BY <1>1 DEF TokenInv
<1>4. \A u \in Users, t \in Tickets : GotToken(u, t)' =>
        /\ phase[u] = "waiting" /\ waits[u] = waits'[u]
        /\ requests[waits[u]].call.ticket = t
  BY <1>1 DEF GotToken
<1>. QED  BY <1>2, <1>3, <1>4 DEF GotToken

LEMMA TokenStep ==
  ASSUME SysInv, AuctionInv, TokenInv, [SysNext]_sysVars
  PROVE  TokenInv'
<1>. DEFINE Waits == /\ DOMAIN requests' = DOMAIN requests
                     /\ \A u \in Users : phase'[u] = "waiting" =>
                          phase[u] = "waiting" /\ waits'[u] = waits[u]
<1>1. CASE \E u \in Users, c \in Calls : Send(u, c)
  BY <1>1, TokenSend
<1>2. CASE Waits /\ NothingDone /\ owner' = owner /\ lot' = lot
  <2>1. /\ \A t, u : StartsName(t, u)' = StartsName(t, u)
        /\ \A u \in Users : phase'[u] = "waiting" => requests'[waits'[u]].user = u
        /\ \A u \in Users, t \in Tickets : GotToken(u, t)' =>
             /\ phase[u] = "waiting" /\ waits[u] = waits'[u]
             /\ waits[u] \in Executed("mint") => GotToken(u, t)
    BY <1>2, TokenWait DEF NothingDone
  <2>2. \A u \in Users, t \in Tickets : GotToken(u, t)' => GotToken(u, t)
    BY <1>2, <2>1 DEF NothingDone, GotToken
  <2>. QED  BY <1>2, <2>1, <2>2 DEF TokenInv, nftExists
<1>3. ASSUME Waits, NEW i \in DOMAIN requests, Done(i)
      PROVE  TokenInv'
  <2>. DEFINE r == requests[i]
  <2>1. /\ \A t, u : StartsName(t, u)' = StartsName(t, u)
        /\ \A u \in Users : phase'[u] = "waiting" => requests'[waits'[u]].user = u
        /\ \A u \in Users, t \in Tickets : GotToken(u, t)' =>
             /\ phase[u] = "waiting" /\ waits[u] = waits'[u]
             /\ requests[waits[u]].call.ticket = t
             /\ waits[u] \in Executed("mint") => GotToken(u, t)
    BY <1>3, TokenWait DEF Done
  <2>2. owner \in [Tickets -> Accounts \cup {NULL}]
    BY DEF AuctionInv, NFTInv, NFTTypeOK
  <2>3. ASSUME NEW x \in Tickets, r.call.op = "mint", r.call.ticket = x,
               Mint(r.user, x), UNCHANGED auctionVars
        PROVE  TokenInv'
    <3>1. /\ ~nftExists(x) /\ owner' = [owner EXCEPT ![x] = r.user]
          /\ r.user # NULL
      BY <1>3, <2>3, DoneCases, NullIsNoValue DEF Mint, CanMint
    <3>2. /\ \A t \in Tickets : nftExists(t) => nftExists(t)' /\ t # x
          /\ \A t \in Tickets \ {x} : owner'[t] = owner[t]
          /\ owner'[x] = r.user
      BY <2>2, <3>1 DEF nftExists
    <3>3. \A u \in Users : ~StartsName(x, u)
      BY <3>1 DEF TokenInv
    <3>4. lot' = lot /\ lot # x
      BY <2>3, <3>1, NullIsNoValue DEF auctionVars, AuctionInv, LotMinted
    <3>5. ASSUME NEW u \in Users, NEW t \in Tickets, GotToken(u, t)'
          PROVE  owner'[t] = u /\ lot' # t /\ ~StartsName(t, u)
      <4>1. CASE GotToken(u, t)
        <5>1. owner[t] = u /\ lot # t /\ ~StartsName(t, u)
          BY <4>1 DEF TokenInv
        <5>2. u # NULL
          BY NullIsNoValue
        <5>. QED  BY <3>2, <3>4, <5>1, <5>2 DEF nftExists
      <4>2. CASE ~GotToken(u, t)
        <5>1. waits[u] \in Executed("mint") \cup {i} /\ waits[u] \notin Executed("mint")
          BY <1>3, <2>1, <2>3, <3>5, <4>2 DEF GotToken, Done
        <5>2. waits[u] = i /\ phase[u] = "waiting" /\ t = x
          BY <2>1, <2>3, <3>5, <5>1
        <5>3. r.user = u
          BY <5>2 DEF TokenInv
        <5>. QED  BY <3>2, <3>3, <3>4, <5>2, <5>3
      <4>. QED  BY <4>1, <4>2
    <3>6. \A t \in Tickets, u \in Users : StartsName(t, u) => nftExists(t)'
      BY <3>2 DEF TokenInv
    <3>. QED  BY <2>1, <3>5, <3>6 DEF TokenInv
  <2>4. ASSUME r.call.op # "mint" PROVE TokenInv'
    <3>1. \A t \in Tickets : nftExists(t)' = nftExists(t)
      BY <1>3, <2>4, DoneCases, AuctionKeepsTickets
    <3>2. \A u \in Users, t \in Tickets : GotToken(u, t)' => GotToken(u, t)
      BY <1>3, <2>1, <2>4 DEF GotToken, Done
    <3>3. ASSUME NEW u \in Users, NEW t \in Tickets, GotToken(u, t)
          PROVE  owner'[t] = u /\ lot' # t
      <4>1. owner[t] = u /\ lot # t /\ ~StartsName(t, u)
        BY <3>3 DEF TokenInv
      <4>2. CASE r.call.op = "start" /\ Start(r.user, r.call.ticket, r.call.bet)
        <5>1. r.call.ticket # t
          BY <4>1, <4>2 DEF Start, CanStart, StartsName
        <5>. QED  BY <4>1, <4>2, <5>1 DEF Start, nftVars
      <4>3. CASE MakeBet(r.user, r.call.bet)
        BY <4>1, <4>3 DEF MakeBet, nftVars
      <4>4. CASE Finish(r.user, r.user)
        <5>1. lot' = NULL /\ t # NULL
          BY <4>4, NullIsNoValue DEF Finish, clearStorage
        <5>2. owner' = owner \/ owner' = [owner EXCEPT ![lot] = Winner]
          BY <4>4 DEF Finish, Transfer, Move
        <5>. QED  BY <2>2, <4>1, <5>1, <5>2
      <4>. QED  BY <1>3, <2>4, <4>2, <4>3, <4>4, DoneCases
    <3>. QED  BY <2>1, <3>1, <3>2, <3>3 DEF TokenInv
  <2>. QED  BY <1>3, <2>3, <2>4, DoneCases
<1>. HIDE DEF Waits
<1>4. CASE Waits
  <2>1. CASE NothingDone /\ UNCHANGED vars
    BY <1>2, <1>4, <2>1 DEF vars, nftVars, auctionVars
  <2>2. CASE NothingDone /\ Publish
    BY <1>2, <1>4, <2>2, PublishKeeps DEF auctionVars
  <2>. QED  BY <1>3, <1>4, <2>1, <2>2, SysStepDone
<1>5. Waits \/ \E u \in Users, c \in Calls : Send(u, c)
  BY WaitsOrSends DEF Waits
<1>. QED  BY <1>1, <1>4, <1>5

LEMMA TokenInit == SysInit => TokenInv
<1>. SUFFICES ASSUME SysInit PROVE TokenInv
  OBVIOUS
<1>1. DOMAIN requests = {} /\ \A u \in Users : phase[u] = "idle"
  BY DEF SysInit
<1>. QED
  BY <1>1 DEF TokenInv, StartsName, GotToken

\* A client that waits becomes idle by an outcome that looks like a success.
LEMMA OnlyOutcomeEndsWait ==
  ASSUME SysInv, SysNext, NEW u \in Users,
         phase[u] = "waiting", phase'[u] = "idle"
  PROVE  Outcome(u) /\ LooksOk(requests[waits[u]])
<1>. USE DEF SysInv, SystemTypeOK
<1>1. ASSUME NEW v \in Users, Die(v) PROVE FALSE
  BY <1>1 DEF Die
<1>2. ASSUME NEW v \in Users, NEW c, Send(v, c) PROVE FALSE
  BY <1>2 DEF Send
<1>3. ASSUME NEW v \in Users, ChooseTicket(v) \/ Restart(v) PROVE FALSE
  BY <1>3 DEF ChooseTicket, Prompted, Restart
<1>4. ASSUME NEW v \in Users, Outcome(v)
      PROVE  v = u /\ LooksOk(requests[waits[u]])
  BY <1>1, <1>4 DEF Outcome
<1>5. ASSUME \/ \E i \in DOMAIN requests : Include(i)
             \/ ServerStep \/ Download \/ WaitBreaks
             \/ ChannelCloses \/ Kill \/ StartServer
      PROVE  FALSE
  BY <1>5
  DEF Include, IncludeMain, IncludeFallback, Expire, clientVars,
      ServerStep, IgnoreOwn, Panic, Sign, SignFails, WaitReturns, WaitExpires,
      Download, Upload, UploadFails, Publish, PublishFails, WaitBreaks,
      ChannelCloses, Kill, StartServer
<1>. QED
  BY <1>1, <1>2, <1>3, <1>4, <1>5
  DEF SysNext, ClientStep, NoDeposit, WaitFails, MintRefused, SendMint,
      SendAuctionCall, AuctionCallRefused

\* A client that comes back from a mint with a token is the owner of the token,
\* whoever raced it, and however late its own earlier requests are executed.
THEOREM TokenOwned == SysSpec => NewTokenIsOwned
<1>. DEFINE Owns ==
       \A u \in Users :
         phase[u] = "waiting" /\ phase'[u] = "idle" =>
           LET c == requests[waits[u]].call IN
             c.op = "mint" => owner[c.ticket] = u
<1>1. ReqInv /\ TokenInv /\ [SysNext]_sysVars => [Owns]_sysVars
  <2>. SUFFICES ASSUME ReqInv, TokenInv, SysNext, NEW u \in Users,
                       phase[u] = "waiting", phase'[u] = "idle",
                       requests[waits[u]].call.op = "mint"
                PROVE  owner[requests[waits[u]].call.ticket] = u
    OBVIOUS
  <2>1. Outcome(u) /\ LooksOk(requests[waits[u]])
    BY OnlyOutcomeEndsWait DEF ReqInv
  <2>2. requests[waits[u]].status = "halt"
    BY <2>1 DEF LooksOk
  <2>3. /\ waits[u] \in DOMAIN requests
        /\ requests[waits[u]].call.ticket \in Tickets
    <3>1. \A c \in Calls : c.op = "mint" => c.ticket \in Tickets
      BY DEF Calls, MintCall, AuctionCalls
    <3>. QED  BY <3>1, Typing DEF ReqInv, SysInv, SystemTypeOK, Requests
  <2>4. GotToken(u, requests[waits[u]].call.ticket)
    BY <2>2, <2>3 DEF GotToken, Executed
  <2>. QED  BY <2>3, <2>4 DEF TokenInv
<1>2. ReqInv /\ TokenInv /\ [SysNext]_sysVars => TokenInv'
  BY TokenStep DEF ReqInv
<1>. QED
  BY <1>1, <1>2, ReqInit, ReqStep, TokenInit, PTL DEF SysSpec, NewTokenIsOwned

=============================================================================
