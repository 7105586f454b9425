--------------------------- MODULE AuctionSystem ---------------------------
(***************************************************************************)
(* The sponsored calls around the contracts: a client (client/) wraps each *)
(* call into a notary request, the backend (backend/) adds its signature   *)
(* because it pays, and the chain accepts the call (the main transaction)  *)
(* or, when it is not signed in time, an empty fallback instead.           *)
(*                                                                         *)
(* A client checks its call against the chain of the moment and only then  *)
(* sends it; the call is executed later, against another chain.  One       *)
(* client runs per wallet; processes may be killed, queries may fail.  The *)
(* contracts get the calls of clients only: what anybody else may call     *)
(* beside them is in Auction.                                              *)
(***************************************************************************)
EXTENDS Auction, Sequences, RequestScript

CONSTANTS
  Backend,      \* the account of the backend's wallet
  Order,        \* Order[u]: the tickets in the order client u looks at them
  Unreliable,   \* whether processes are killed and remote calls fail
  MaxRequests   \* bound: notary requests sent in a behaviour

ASSUME SystemAssumption ==
  /\ Order \in [Users -> Seq(Tickets)]
  /\ \A u \in Users : Order[u] # <<>>
  /\ Unreliable \in BOOLEAN
  /\ MaxRequests \in Nat

VARIABLES
  phase,     \* what the client of each user is doing
  ticket,    \* the ticket it is about to ask for, NULL when there is none
  waits,     \* the request it waits for, 0 when it does not
  requests,  \* all notary requests of clients, with what became of them
  events,    \* NotaryRequestsCh: events the backend has not handled
  server     \* the validator of the backend: its step and its request

clientVars == <<phase, ticket, waits>>
backendVars == <<events, server>>
sysVars == <<vars, clientVars, requests, backendVars>>

Phases == {"idle", "chosen", "waiting", "dead"}
Serving == {"waiting", "downloading", "addressing"}
Steps == {"listening", "deaf", "down", "panicked"} \cup Serving

\* Mutant of Included: only a success ends the wait of the backend.
HaltedOnly == {"halt"}

\* Mutant of Resolved: only the main transaction ends the wait of a client.
MainOnly == {"halt", "fault"}

\* A transaction of the request is in a block.
Included == {"halt", "fault", "fallback"}

\* What Wait waits for: a transaction in a block or the end of their validity.
Resolved == Included \cup {"expired"}

Statuses == {"sent", "signed"} \cup Resolved

MintCall(t) == [op |-> "mint", ticket |-> t]

AuctionCalls ==
  [op : {"start"}, ticket : Tickets, bet : Bets]
    \cup [op : {"makeBet"}, bet : Bets]
    \cup [op : {"finish"}]

Calls == {MintCall(t) : t \in Tickets} \cup AuctionCalls

\* The main transaction of a notary request, reduced to its call.
Requests == [user : Users, call : Calls, status : Statuses]

\* Events about the first n requests, whether sent by the backend itself.
Events(n) == [req : 1..n, own : BOOLEAN]

SysInit ==
  /\ Init
  /\ phase = [u \in Users |-> "idle"]
  /\ ticket = [u \in Users |-> NULL]
  /\ waits = [u \in Users |-> 0]
  /\ requests = <<>>
  /\ events = <<>>
  /\ server = [pc |-> "listening", req |-> 0]
-----------------------------------------------------------------------------
(* The contract call c with the witness of u, who passes his own account.  *)

Accepts(u, c) ==
  CASE c.op = "mint" -> CanMint(c.ticket)
    [] c.op = "start" -> CanStart(u, c.ticket, c.bet)
    [] c.op = "makeBet" -> CanMakeBet(u, c.bet)
    [] c.op = "finish" -> CanFinish(u, u)

Execute(u, c) ==
  \/ c.op = "mint" /\ Mint(u, c.ticket) /\ UNCHANGED auctionVars
  \/ c.op = "start" /\ Start(u, c.ticket, c.bet)
  \/ c.op = "makeBet" /\ MakeBet(u, c.bet)
  \/ c.op = "finish" /\ Finish(u, u)

SetStatus(i, s) == requests' = [requests EXCEPT ![i].status = s]
-----------------------------------------------------------------------------
(* The client.                                                             *)

\* The process of the backend is there and makes deposits.
ServerUp == server.pc \notin {"down", "panicked"}

\* Its validator hears of the requests that are sent.
Subscribed == ServerUp /\ server.pc # "deaf"

\* getFreeTicket goes on while ownerOf succeeds, to the end of the list at
\* most; whatever the call fails for, the ticket it stopped at is the result.
FreeTicket(u) ==
  {Order[u][i] : i \in
     {k \in 1..Len(Order[u]) :
        /\ \A j \in 1..(k - 1) : nftExists(Order[u][j])
        /\ ~nftExists(Order[u][k]) \/ k = Len(Order[u]) \/ Unreliable}}

\* A command was typed and the backend has made the notary deposit for it.
Prompted(u) == phase[u] = "idle" /\ ServerUp

\* getNFT looks for a ticket before it makes its call.
ChooseTicket(u) ==
  /\ Prompted(u)
  /\ Len(requests) < MaxRequests
  /\ phase' = [phase EXCEPT ![u] = "chosen"]
  /\ \E t \in FreeTicket(u) : ticket' = [ticket EXCEPT ![u] = t]
  /\ UNCHANGED <<vars, waits, requests, backendVars>>

\* MakeTunedCall has run the call on the chain as it is now; Notarize sends
\* it.  A backend that does not listen now never hears of it.
Send(u, c) ==
  /\ Len(requests) < MaxRequests
  /\ Accepts(u, c)
  /\ requests' = Append(requests, [user |-> u, call |-> c, status |-> "sent"])
  /\ events' = IF Subscribed
       THEN Append(events, [req |-> Len(requests) + 1, own |-> FALSE])
       ELSE events
  /\ waits' = [waits EXCEPT ![u] = Len(requests) + 1]
  /\ phase' = [phase EXCEPT ![u] = "waiting"]
  /\ ticket' = [ticket EXCEPT ![u] = NULL]
  /\ UNCHANGED <<vars, server>>

SendMint(u) == phase[u] = "chosen" /\ Send(u, MintCall(ticket[u]))

SendAuctionCall(u, c) == Prompted(u) /\ Send(u, c)

\* Mutant of Die: the wait is not given up.
DieStillWaiting(u) ==
  /\ phase' = [phase EXCEPT ![u] = "dead"]
  /\ ticket' = [ticket EXCEPT ![u] = NULL]
  /\ UNCHANGED <<vars, waits, requests, backendVars>>

Die(u) ==
  /\ phase' = [phase EXCEPT ![u] = "dead"]
  /\ ticket' = [ticket EXCEPT ![u] = NULL]
  /\ waits' = [waits EXCEPT ![u] = 0]
  /\ UNCHANGED <<vars, requests, backendVars>>

MintRefused(u) ==
  /\ phase[u] = "chosen"
  /\ Unreliable \/ ~Accepts(u, MintCall(ticket[u]))
  /\ Die(u)

AuctionCallRefused(u, c) ==
  /\ Prompted(u)
  /\ Unreliable \/ ~Accepts(u, c)
  /\ Die(u)

NoDeposit(u) == phase[u] = "idle" /\ ~ServerUp /\ Die(u)

\* Mutant of LooksOk: getNFT does not look at the stack.
AnyHaltIsOk(r) == r.status \in {"halt", "fallback"}

\* An accepted fallback halts as well, with nothing on its stack; only getNFT
\* and finishAuction look at the stack.
LooksOk(r) ==
  \/ r.status = "halt"
  \/ r.status = "fallback" /\ r.call.op \in {"start", "makeBet"}

\* The client goes back to its prompt or dies.
Outcome(u) ==
  /\ phase[u] = "waiting"
  /\ requests[waits[u]].status \in Resolved
  /\ IF LooksOk(requests[waits[u]])
       THEN /\ phase' = [phase EXCEPT ![u] = "idle"]
            /\ waits' = [waits EXCEPT ![u] = 0]
            /\ UNCHANGED <<vars, ticket, requests, backendVars>>
       ELSE Die(u)

\* Wait itself fails: the request lives on without its client.
WaitFails(u) == Unreliable /\ phase[u] = "waiting" /\ Die(u)

Restart(u) ==
  /\ phase[u] = "dead"
  /\ phase' = [phase EXCEPT ![u] = "idle"]
  /\ UNCHANGED <<vars, ticket, waits, requests, backendVars>>
-----------------------------------------------------------------------------
(* The chain and its notary service.                                       *)

\* Mutant of ExecuteOrFault: a call that panics is taken for done.
AlwaysHalts(r) == "halt"

\* A main transaction both signers have signed is put into a block.
ExecuteOrFault(r) == IF Accepts(r.user, r.call) THEN "halt" ELSE "fault"

IncludeMain(i) ==
  /\ requests[i].status = "signed"
  /\ SetStatus(i, ExecuteOrFault(requests[i]))
  /\ IF Accepts(requests[i].user, requests[i].call)
       THEN Execute(requests[i].user, requests[i].call)
       ELSE UNCHANGED vars
  /\ UNCHANGED <<clientVars, backendVars>>

\* The main transaction was not complete, or not in a block, in time.
IncludeFallback(i) ==
  /\ requests[i].status \in {"sent", "signed"}
  /\ SetStatus(i, "fallback")
  /\ UNCHANGED <<vars, clientVars, backendVars>>

\* Neither got into a block while it was valid.
Expire(i) ==
  /\ Unreliable
  /\ requests[i].status \in {"sent", "signed"}
  /\ SetStatus(i, "expired")
  /\ UNCHANGED <<vars, clientVars, backendVars>>
-----------------------------------------------------------------------------
(* The backend: one goroutine takes the events one by one.                 *)

ServerGoes(pc, i) == server' = [pc |-> pc, req |-> i]

Listening == server.pc = "listening" /\ events # <<>>

\* What the backend reads from the request r.
Decoded(r) == ValidateNotaryRequest(Script(r.user, r.call))

\* The requests it can read, and the ones at which it panics.
Readable ==
  {r \in [user : Users, call : Calls] : Decoded(r).result = "ok"}
Fatal ==
  {r \in [user : Users, call : Calls] : Decoded(r).result = "panic"}

\* NotaryRequest.MainTransaction, without its witnesses.
MainTransaction(i) == [user |-> requests[i].user, call |-> requests[i].call]

\* parseNotaryEvent returns an error: the backend has sent the request, or it
\* cannot read it.
IgnoreOwn ==
  /\ Listening
  /\ \/ Head(events).own
     \/ MainTransaction(Head(events).req) \notin Readable \cup Fatal
  /\ events' = Tail(events)
  /\ UNCHANGED <<vars, clientVars, requests, server>>

\* A panic in the goroutine ends the process; what was queued is lost.
Panic ==
  /\ Listening
  /\ ~Head(events).own
  /\ MainTransaction(Head(events).req) \in Fatal
  /\ events' = <<>>
  /\ ServerGoes("panicked", 0)
  /\ UNCHANGED <<vars, clientVars, requests>>

\* Sign and Notarize; the backend's own request comes back as an event.
Sign ==
  /\ Listening
  /\ ~Head(events).own
  /\ LET i == Head(events).req IN
       /\ MainTransaction(i) \in Readable
       /\ requests[i].status = "sent"
       /\ SetStatus(i, "signed")
       /\ events' = Append(Tail(events), [req |-> i, own |-> TRUE])
       /\ ServerGoes("waiting", i)
  /\ UNCHANGED <<vars, clientVars>>

\* Notarize is refused when the fallback is on the chain or the time is over.
SignFails ==
  /\ Listening
  /\ ~Head(events).own
  /\ MainTransaction(Head(events).req) \in Readable
  /\ Unreliable \/ requests[Head(events).req].status # "sent"
  /\ events' = Tail(events)
  /\ UNCHANGED <<vars, clientVars, requests, server>>

\* Mutant of NeedsUpload: the name of the client's command, not of the method.
UploadsByCommandName(r) == r.call.op = "getNFT"

NeedsUpload(r) == r.call.op = "mint"

\* Wait returns the first of the two transactions that is accepted; how it
\* ended is not looked at.  A mint goes on to the storage.
WaitReturns ==
  /\ server.pc = "waiting"
  /\ requests[server.req].status \in Included
  /\ IF NeedsUpload(requests[server.req])
       THEN ServerGoes("downloading", server.req)
       ELSE ServerGoes("listening", 0)
  /\ UNCHANGED <<vars, clientVars, requests, events>>

\* No transaction of the request was accepted in time, or, though the client's
\* fallback was, not the one of the backend's own request.
WaitExpires ==
  /\ server.pc = "waiting"
  /\ requests[server.req].status \in {"fallback", "expired"}
  /\ ServerGoes("listening", 0)
  /\ UNCHANGED <<vars, clientVars, requests, events>>

\* Wait itself fails.
WaitBreaks ==
  /\ server.pc = "waiting"
  /\ Unreliable
  /\ ServerGoes("listening", 0)
  /\ UNCHANGED <<vars, clientVars, requests, events>>

\* http.Get and PutObject: the file is downloaded and is an object now.
Upload ==
  /\ server.pc = "downloading"
  /\ ServerGoes("addressing", server.req)
  /\ UNCHANGED <<vars, clientVars, requests, events>>

UploadFails ==
  /\ server.pc = "downloading"
  /\ Unreliable
  /\ ServerGoes("listening", 0)
  /\ UNCHANGED <<vars, clientVars, requests, events>>

\* The address of the object is set, for the ticket that was read from the
\* script (DecodedAsSent), in a transaction the backend signs.
Publish ==
  /\ server.pc = "addressing"
  /\ \E a \in Addresses :
       SetAddress({Backend}, requests[server.req].call.ticket, a)
  /\ ServerGoes("listening", 0)
  /\ UNCHANGED <<auctionVars, clientVars, requests, events>>

\* The test invocation panics, or the transaction is not accepted.
PublishFails ==
  /\ server.pc = "addressing"
  /\ \/ Unreliable
     \/ ~CanSetAddress({Backend}, requests[server.req].call.ticket)
  /\ ServerGoes("listening", 0)
  /\ UNCHANGED <<vars, clientVars, requests, events>>

\* The subscriber has closed the channel and all that was in it is handled:
\* the goroutine returns, the server goes on.
ChannelCloses ==
  /\ Unreliable
  /\ server.pc = "listening"
  /\ events = <<>>
  /\ ServerGoes("deaf", 0)
  /\ UNCHANGED <<vars, clientVars, requests, events>>

Kill ==
  /\ Unreliable
  /\ ServerUp
  /\ events' = <<>>
  /\ ServerGoes("down", 0)
  /\ UNCHANGED <<vars, clientVars, requests>>

\* A new process subscribes to the requests to come.
StartServer ==
  /\ ~ServerUp
  /\ ServerGoes("listening", 0)
  /\ UNCHANGED <<vars, clientVars, requests, events>>
-----------------------------------------------------------------------------
ClientStep(u) == SendMint(u) \/ MintRefused(u) \/ Outcome(u)

Include(i) == IncludeMain(i) \/ IncludeFallback(i) \/ Expire(i)

ServerStep ==
  \/ IgnoreOwn \/ Panic \/ Sign \/ SignFails
  \/ WaitReturns \/ WaitExpires
  \/ Publish \/ PublishFails

Download == Upload \/ UploadFails

SysNext ==
  \/ \E u \in Users :
       \/ ClientStep(u) \/ ChooseTicket(u)
       \/ NoDeposit(u) \/ WaitFails(u) \/ Restart(u)
  \/ \E u \in Users, c \in AuctionCalls :
       SendAuctionCall(u, c) \/ AuctionCallRefused(u, c)
  \/ \E i \in DOMAIN requests : Include(i)
  \/ ServerStep
  \/ Download
  \/ WaitBreaks
  \/ ChannelCloses
  \/ Kill
  \/ StartServer

SysSpec == SysInit /\ [][SysNext]_sysVars

\* Running programs take their steps and the chain makes blocks; nobody has
\* to type, to kill or to restart anything.  http.Get has no timeout: where
\* something may fail the download need not end.
Fairness ==
  /\ \A u \in Users : WF_sysVars(ClientStep(u))
  /\ \A i \in 1..MaxRequests : WF_sysVars(i \in DOMAIN requests /\ Include(i))
  /\ WF_sysVars(ServerStep)
  /\ WF_sysVars(~Unreliable /\ Download)

FairSysSpec == SysSpec /\ Fairness
-----------------------------------------------------------------------------
Executed(o) ==
  {i \in DOMAIN requests :
     requests[i].status = "halt" /\ requests[i].call.op = o}

\* Every variable has its type, and a client or the validator that waits
\* waits for a request there is.
SystemTypeOK ==
  /\ phase \in [Users -> Phases]
  /\ ticket \in [Users -> Tickets \cup {NULL}]
  /\ waits \in [Users -> 0..Len(requests)]
  /\ \A u \in Users : (phase[u] = "waiting") <=> (waits[u] # 0)
  /\ \A u \in Users : (phase[u] = "chosen") <=> (ticket[u] # NULL)
  /\ requests \in Seq(Requests)
  /\ events \in Seq(Events(Len(requests)))
  /\ server \in [pc : Steps, req : 0..Len(requests)]
  /\ (server.pc \in Serving) <=> (server.req # 0)

\* Whatever the order in which the requests of all clients are checked, signed
\* and executed, the tickets that exist are the ones of the mint requests that
\* were executed, one request each.
TicketsMatchRequests ==
  /\ \A t \in Minted : \E i \in Executed("mint") : requests[i].call.ticket = t
  /\ \A i, j \in Executed("mint") :
       /\ nftExists(requests[i].call.ticket)
       /\ requests[i].call.ticket = requests[j].call.ticket => i = j

\* Of the clients whose start passed the check at the same time one starts the
\* auction: executed starts and finishes alternate, the running auction being
\* the start that no finish has answered.
StartsAlternate ==
  Cardinality(Executed("start")) - Cardinality(Executed("finish")) =
    IF Running THEN 1 ELSE 0

\* The terms of the running auction and its leader are each those of one
\* executed request, signed by the organizer and by the leader.
TermsFromRequests ==
  Running =>
    /\ \E i \in Executed("start") :
         /\ requests[i].user = organizer
         /\ requests[i].call.ticket = lot
         /\ requests[i].call.bet = initBet
    /\ potentialWinner # NULL =>
         \E i \in Executed("makeBet") :
           /\ requests[i].user = potentialWinner
           /\ requests[i].call.bet = currentBet

\* A client that prints a new token ID is the owner of the token, even when
\* other clients raced it for the ticket.
NewTokenIsOwned ==
  [][\A u \in Users :
       phase[u] = "waiting" /\ phase'[u] = "idle" =>
         LET c == requests[waits[u]].call IN
           c.op = "mint" => owner[c.ticket] = u]_sysVars

\* A client does not wait forever: a block includes one of its transactions or
\* the time they are valid for is over.
WaitingEnds == \A u \in Users : phase[u] = "waiting" ~> phase[u] # "waiting"

\* The validator, which serves all clients one after the other, waits for the
\* chain twice: for the request it has signed and for the address it sets.
\* Neither wait lasts forever, whatever becomes of the transactions.  (The
\* download between them may: nothing is said of it.)
ServerReturns ==
  \A pc \in {"waiting", "addressing"} : server.pc = pc ~> server.pc # pc

\* README.md:16: a ticket holds the address of its file; when nothing fails
\* it gets it in the end.
MintedGetsAddress ==
  \A t \in Tickets : nftExists(t) ~> address[t] # NULL

\* A request the backend signs is the one its client meant: method, contract,
\* number and order of the arguments survive the way through the script, where
\* a number may be part of an opcode, one byte or several -- the bet modulo 2^16.
DecodedAsSent ==
  \A i \in 1..Len(requests) :
    LET c == requests[i].call
        d == Decoded(requests[i])
    IN CASE d.result = "panic" -> c.op \in {"start", "makeBet"} /\ c.bet < 128
         [] d.result = "ok" ->
              /\ c.op # "finish" => d.user = requests[i].user
              /\ c.op \in {"mint", "start"} => d.ticket = c.ticket
              /\ c.op \in {"start", "makeBet"} => d.bet = c.bet % 65536
         [] OTHER -> FALSE

\* README.md:133: the backend works all the time; nothing a client sends makes
\* it panic.
BackendNeverPanics == server.pc # "panicked"

\* client/main.go:430, 462: the ticket found is free, or there is an error.
TicketIsFree ==
  [][\A u \in Users :
       phase[u] = "idle" /\ phase'[u] = "chosen" =>
         ~nftExists(ticket'[u])]_sysVars

\* client/main.go:306: all is well when the main transaction was accepted.
OkMeansDone ==
  [][\A u \in Users :
       phase[u] = "waiting" /\ phase'[u] = "idle" =>
         requests[waits[u]].status = "halt"]_sysVars
=============================================================================
