--------------------------- MODULE DecodingProofs ---------------------------
(***************************************************************************)
(* The call the backend reads from the script of a request is the one the  *)
(* client compiled.  The lemmas are about the script alone: what the bytes *)
(* of a number are, where the operands of a call stand, and what the       *)
(* backend makes of each method.                                           *)
(***************************************************************************)
EXTENDS AuctionSystemProofs

\* A function on 1..n is a sequence of length n.
LEMMA IsSeq ==
  ASSUME NEW T, NEW n \in Nat, NEW s \in [1..n -> T]
  PROVE  s \in Seq(T) /\ Len(s) = n
OBVIOUS

\* The ranges of emit.Int, as comparisons.
PushedBySize(n) ==
  LET byte(weight) == (n \div weight) % 256
  IN PushInt(n) =
       IF -1 <= n /\ n <= 16 THEN Operation(PUSH0 + n, << >>)
       ELSE IF -128 <= n /\ n <= 127 THEN Operation(0, <<byte(1)>>)
       ELSE IF -32768 <= n /\ n <= 32767
         THEN Operation(1, <<byte(1), byte(256)>>)
       ELSE Operation(2, <<byte(1), byte(256), byte(65536), byte(16777216)>>)

LEMMA PushedAs ==
  ASSUME NEW n \in Int
  PROVE  PushedBySize(n)
<1>. DEFINE byte(weight) == (n \div weight) % 256
            None == n \in -1..16
            Neg1 == n \in -128..-2
            Pos1 == n \in 17..127
            Neg2 == n \in -32768..-129
            Pos2 == n \in 128..32767
<1>1. None <=> -1 <= n /\ n <= 16
  OBVIOUS
<1>2. Neg1 <=> -128 <= n /\ n < -1
  OBVIOUS
<1>3. Pos1 <=> 16 < n /\ n <= 127
  OBVIOUS
<1>4. Neg2 <=> -32768 <= n /\ n < -128
  OBVIOUS
<1>5. Pos2 <=> 127 < n /\ n <= 32767
  OBVIOUS
<1>6. \A S, T : n \in S \cup T <=> n \in S \/ n \in T
  OBVIOUS
<1>7. PushInt(n) =
        CASE None -> Operation(PUSH0 + n, << >>)
          [] Neg1 \/ Pos1 -> Operation(0, <<byte(1)>>)
          [] Neg2 \/ Pos2 -> Operation(1, <<byte(1), byte(256)>>)
          [] OTHER -> Operation(2, <<byte(1), byte(256), byte(65536),
                                     byte(16777216)>>)
  BY <1>6 DEF PushInt
<1>. HIDE DEF None, Neg1, Pos1, Neg2, Pos2
<1>8. CASE -1 <= n /\ n <= 16
  <2>. None /\ ~Neg1 /\ ~Pos1 /\ ~Neg2 /\ ~Pos2
    BY <1>8, <1>1, <1>2, <1>3, <1>4, <1>5
  <2>. QED  BY <1>7, <1>8 DEF PushedBySize
<1>9. CASE (-128 <= n /\ n < -1) \/ (16 < n /\ n <= 127)
  <2>. ~None /\ (Neg1 \/ Pos1) /\ ~Neg2 /\ ~Pos2
    BY <1>9, <1>1, <1>2, <1>3, <1>4, <1>5
  <2>. QED  BY <1>7, <1>9 DEF PushedBySize
<1>10. CASE (-32768 <= n /\ n < -128) \/ (127 < n /\ n <= 32767)
  <2>. ~None /\ ~Neg1 /\ ~Pos1 /\ (Neg2 \/ Pos2)
    BY <1>10, <1>1, <1>2, <1>3, <1>4, <1>5
  <2>. QED  BY <1>7, <1>10 DEF PushedBySize
<1>11. CASE n < -32768 \/ 32767 < n
  <2>. ~None /\ ~Neg1 /\ ~Pos1 /\ ~Neg2 /\ ~Pos2
    BY <1>11, <1>1, <1>2, <1>3, <1>4, <1>5
  <2>. QED  BY <1>7, <1>11 DEF PushedBySize
<1>. QED  BY <1>8, <1>9, <1>10, <1>11

\* A small number is part of the opcode: it has no operand.
LEMMA SmallNumber ==
  ASSUME NEW n \in Int, -1 <= n, n <= 16
  PROVE  PushInt(n) = Operation(PUSH0 + n, << >>)
<1>1. PushedBySize(n)
  BY PushedAs
<1>. QED  BY <1>1 DEF PushedBySize

LEMMA OneByte ==
  ASSUME NEW n \in Int, (-128 <= n /\ n < -1) \/ (16 < n /\ n <= 127)
  PROVE  PushInt(n) = Operation(0, <<n % 256>>)
<1>1. n \div 1 = n
  OBVIOUS
<1>2. PushedBySize(n)
  BY PushedAs
<1>. QED  BY <1>1, <1>2 DEF PushedBySize

\* The first two bytes of any other are the number modulo 2^16.
LEMMA TwoBytes ==
  ASSUME NEW n \in Int, n < -128 \/ 127 < n
  PROVE  /\ PushInt(n).code \in {1, 2}
         /\ Len(PushInt(n).param) >= 2
         /\ Uint16(PushInt(n).param) = n % 65536
<1>. DEFINE byte(weight) == (n \div weight) % 256
<1>1. n \div 1 = n /\ n % 65536 = (n % 256) + 256 * ((n \div 256) % 256)
  OBVIOUS
<1>2. \/ PushInt(n) = Operation(1, <<byte(1), byte(256)>>)
      \/ PushInt(n) = Operation(2, <<byte(1), byte(256), byte(65536),
                                     byte(16777216)>>)
  <2>. PushedBySize(n)
    BY PushedAs
  <2>. QED  BY DEF PushedBySize
<1>. QED  BY <1>1, <1>2 DEF Operation, Uint16

\* Where the operands of a call stand in its script.
LEMMA CallLaid ==
  ASSUME NEW S, NEW args \in Seq(S), NEW contract, NEW method
  PROVE  LET ops == AppCall(contract, method, args)
             k == Len(args)
         IN  /\ Len(ops) = k + 6
             /\ \A i \in 1..k : ops[i] = args[k + 1 - i]
             /\ ops[k + 1] = PushInt(k)
             /\ ops[k + 2] = Operation(PACK, << >>)
             /\ ops[k + 3] = PushInt(15)
             /\ ops[k + 4] = PushData(method)
             /\ ops[k + 5] = PushData(contract)
             /\ ops[k + 6] = Operation(SYSCALL, <<"System.Contract.Call">>)
<1>. DEFINE k == Len(args)
            ops == AppCall(contract, method, args)
            pushed == [i \in 1..k |-> args[k + 1 - i]]
            call == << PushInt(k), Operation(PACK, << >>), PushInt(15),
                       PushData(method), PushData(contract),
                       Operation(SYSCALL, <<"System.Contract.Call">>) >>
            T == S \cup {call[i] : i \in 1..6}
<1>1. k \in Nat /\ \A i \in 1..k : args[i] \in S
  BY LenProperties, ElementOfSeq
<1>2. pushed \in Seq(T) /\ Len(pushed) = k
  <2>1. pushed \in [1..k -> T]
    BY <1>1
  <2>. HIDE DEF pushed, T
  <2>. QED  BY <1>1, <2>1
<1>3. call \in Seq(T) /\ Len(call) = 6
  <2>1. Len(call) = 6 /\ call \in [1..6 -> {call[i] : i \in 1..6}]
    OBVIOUS
  <2>2. call \in [1..6 -> T]
    BY <2>1
  <2>. HIDE DEF call, T
  <2>. QED  BY <2>2, IsSeq
<1>4. ops = pushed \o call
  BY DEF AppCall
<1>5. /\ call[1] = PushInt(k)
      /\ call[2] = Operation(PACK, << >>)
      /\ call[3] = PushInt(15)
      /\ call[4] = PushData(method)
      /\ call[5] = PushData(contract)
      /\ call[6] = Operation(SYSCALL, <<"System.Contract.Call">>)
  OBVIOUS
<1>6. \A i \in 1..k : pushed[i] = args[k + 1 - i]
  OBVIOUS
<1>. HIDE DEF call, pushed, T, ops, k
<1>7. /\ Len(ops) = k + 6
      /\ \A i \in 1..(k + 6) :
           ops[i] = IF i <= k THEN pushed[i] ELSE call[i - k]
  <2>1. /\ Len(ops) = Len(pushed) + Len(call)
        /\ \A i \in 1..(Len(pushed) + Len(call)) :
             ops[i] = IF i <= Len(pushed) THEN pushed[i]
                      ELSE call[i - Len(pushed)]
    BY <1>2, <1>3, <1>4, ConcatProperties
  <2>. QED  BY <1>2, <1>3, <2>1
<1>8. \A j \in 1..6 : ops[k + j] = call[j]
  BY <1>1, <1>7
<1>9. \A i \in 1..k : ops[i] = args[k + 1 - i]
  BY <1>1, <1>6, <1>7
<1>. QED  BY <1>5, <1>7, <1>8, <1>9 DEF ops, k

\* What the backend finds in the script of a call that has one argument to
\* three, each in one operation: a valid call, and its arguments reversed.
ReadsBack(ops, contract, method, args) ==
  LET l == Len(ops)
      read == SubSeq(ops, 1, l - 6)
  IN  /\ CallValid(ops)
      /\ ops[l - 2].param[1] = method
      /\ ops[l - 1].param[1] = contract
      /\ Len(read) = Len(args)
      /\ \A i \in 1..Len(args) : read[i] = args[Len(args) + 1 - i]

LEMMA CallRead ==
  ASSUME NEW S, NEW args \in Seq(S), Len(args) \in 1..3,
         \A i \in 1..Len(args) : args[i].code <= PUSH16,
         NEW contract, NEW method
  PROVE  ReadsBack(AppCall(contract, method, args), contract, method, args)
<1>. DEFINE ops == AppCall(contract, method, args)
            k == Len(args)
            packed == SubSeq(ops, 1, k + 2)
            read == SubSeq(ops, 1, k)
<1>1. k \in 1..3
  OBVIOUS
<1>. HIDE DEF k
<1>2. /\ Len(ops) = k + 6
      /\ \A i \in 1..k : ops[i] = args[k + 1 - i]
      /\ ops[k + 1] = PushInt(k)
      /\ ops[k + 2] = Operation(PACK, << >>)
      /\ ops[k + 3] = PushInt(15)
      /\ ops[k + 4] = PushData(method)
      /\ ops[k + 5] = PushData(contract)
      /\ ops[k + 6] = Operation(SYSCALL, <<"System.Contract.Call">>)
  BY CallLaid DEF k
<1>. HIDE DEF ops
<1>3. PushInt(k) = Operation(PUSH0 + k, << >>)
  BY <1>1, SmallNumber
<1>4. PushInt(15) = Operation(PUSH0 + 15, << >>)
  BY SmallNumber
<1>5. /\ Len(packed) = k + 2
      /\ \A i \in 1..(k + 2) : packed[i] = ops[i]
  BY <1>1, SubSeqProperties
<1>6. /\ Len(read) = k
      /\ \A i \in 1..k : read[i] = ops[i]
  BY <1>1, SubSeqProperties
<1>7. ParametersValid(packed)
  <2>1. packed[k + 2].code = PACK
    BY <1>1, <1>2, <1>5 DEF Operation
  <2>2. \A i \in 1..k : packed[i].code <= PUSH16
    <3>. SUFFICES ASSUME NEW i \in 1..k PROVE packed[i].code <= PUSH16
      OBVIOUS
    <3>1. packed[i] = ops[i]
      BY <1>1, <1>5
    <3>2. ops[i] = args[k + 1 - i]
      BY <1>2
    <3>3. k + 1 - i \in 1..k
      BY <1>1
    <3>. QED  BY <3>1, <3>2, <3>3 DEF k
  <2>3. IntFromOpcode(packed[k + 1]) = k
    BY <1>1, <1>2, <1>3, <1>5 DEF Operation, IntFromOpcode, PUSH0
  <2>. HIDE DEF packed
  <2>4. Len(packed) = k + 2 /\ Len(packed) - 2 = k /\ Len(packed) - 1 = k + 1
    BY <1>1, <1>5
  <2>. QED  BY <2>1, <2>2, <2>3, <2>4 DEF ParametersValid
<1>8. CallValid(ops)
  <2>1. /\ Len(ops) - 3 = k + 3
        /\ Len(ops) - 4 = k + 2
    BY <1>1, <1>2
  <2>2. ops[k + 3].code - PUSH0 \in 0..15
    BY <1>2, <1>4 DEF Operation, PUSH0
  <2>3. ops[Len(ops)].param = <<"System.Contract.Call">>
    BY <1>2 DEF Operation
  <2>. QED  BY <1>7, <2>1, <2>2, <2>3 DEF CallValid
<1>9. /\ Len(ops) - 6 = k /\ Len(ops) - 2 = k + 4 /\ Len(ops) - 1 = k + 5
  BY <1>1, <1>2
<1>10. ops[k + 4].param[1] = method /\ ops[k + 5].param[1] = contract
  BY <1>2 DEF PushData, Operation
<1>. HIDE DEF read, packed
<1>11. \A i \in 1..k : read[i] = args[k + 1 - i]
  BY <1>2, <1>6
<1>. QED
  BY <1>6, <1>8, <1>9, <1>10, <1>11 DEF ops, k, read, ReadsBack

-----------------------------------------------------------------------------
\* A number is one operation; too short for Uint16 only if it is below 128.
LEMMA BetPushed ==
  ASSUME NEW n \in Int
  PROVE  /\ PushInt(n).code <= PUSH16
         /\ \/ Len(PushInt(n).param) < 2 /\ n < 128
            \/ /\ ~(Len(PushInt(n).param) < 2)
               /\ Uint16(PushInt(n).param) = n % 65536
<1>1. CASE -1 <= n /\ n <= 16
  BY <1>1, SmallNumber DEF Operation, PUSH0, PUSH16
<1>2. CASE (-128 <= n /\ n < -1) \/ (16 < n /\ n <= 127)
  <2>1. PushInt(n) = Operation(0, <<n % 256>>)
    BY <1>2, OneByte
  <2>2. n < 128
    BY <1>2
  <2>. QED  BY <2>1, <2>2 DEF Operation, PUSH16
<1>3. CASE n < -128 \/ 127 < n
  <2>1. /\ PushInt(n).code \in {1, 2}
        /\ Len(PushInt(n).param) >= 2
        /\ Uint16(PushInt(n).param) = n % 65536
    BY <1>3, TwoBytes
  <2>2. ~(Len(PushInt(n).param) < 2)
    BY <1>3, TwoBytes, PushedAs DEF PushedBySize, Operation
  <2>. QED  BY <2>1, <2>2 DEF PUSH16
<1>. QED  BY <1>1, <1>2, <1>3

\* What the backend makes of the script of each of the four calls.
LEMMA MintRead ==
  ASSUME NEW u, NEW t
  PROVE  LET d == ValidateNotaryRequest(
                    AppCall("nft", "mint", <<PushData(u), PushData(t)>>))
         IN d.result = "ok" /\ d.user = u /\ d.ticket = t
<1>. DEFINE args == <<PushData(u), PushData(t)>>
            ops == AppCall("nft", "mint", args)
            read == SubSeq(ops, 1, Len(ops) - 6)
<1>1. /\ args \in Seq({PushData(u), PushData(t)})
      /\ Len(args) = 2
      /\ args[1] = PushData(u) /\ args[2] = PushData(t)
  OBVIOUS
<1>2. \A i \in 1..Len(args) : args[i].code <= PUSH16
  BY DEF PushData, Operation, PUSHDATA1, PUSH16
<1>. HIDE DEF args
<1>3. /\ CallValid(ops)
      /\ ops[Len(ops) - 2].param[1] = "mint"
      /\ ops[Len(ops) - 1].param[1] = "nft"
      /\ Len(read) = Len(args)
      /\ \A i \in 1..Len(args) : read[i] = args[Len(args) + 1 - i]
  <2>1. ReadsBack(ops, "nft", "mint", args)
    BY <1>1, <1>2, CallRead
  <2>. HIDE DEF ops
  <2>. QED  BY <1>1, <2>1 DEF ReadsBack
<1>. HIDE DEF ops, read
<1>4. Len(read) = 2 /\ read[1] = PushData(t) /\ read[2] = PushData(u)
  BY <1>1, <1>3
<1>5. ValidateNotaryRequest(ops) = ValidateGetNft("nft", read)
  BY <1>3 DEF ValidateNotaryRequest, read
<1>6. ValidateGetNft("nft", read) = [result |-> "ok", user |-> u, ticket |-> t]
  BY <1>4 DEF ValidateGetNft, PushData, Operation
<1>. QED  BY <1>5, <1>6 DEF ops, args

LEMMA StartRead ==
  ASSUME NEW u, NEW t, NEW b \in Int
  PROVE  LET d == ValidateNotaryRequest(
                    AppCall("auction", "start",
                            <<PushData(u), PushData(t), PushInt(b)>>))
         IN \/ d.result = "panic" /\ b < 128
            \/ /\ d.result = "ok" /\ d.user = u /\ d.ticket = t
               /\ d.bet = b % 65536
<1>. DEFINE args == <<PushData(u), PushData(t), PushInt(b)>>
            ops == AppCall("auction", "start", args)
            read == SubSeq(ops, 1, Len(ops) - 6)
<1>1. /\ args \in Seq({PushData(u), PushData(t), PushInt(b)})
      /\ Len(args) = 3
      /\ args[1] = PushData(u) /\ args[2] = PushData(t) /\ args[3] = PushInt(b)
  OBVIOUS
<1>2. \A i \in 1..Len(args) : args[i].code <= PUSH16
  BY <1>1, BetPushed DEF PushData, Operation, PUSHDATA1, PUSH16
<1>. HIDE DEF args
<1>3. /\ CallValid(ops)
      /\ ops[Len(ops) - 2].param[1] = "start"
      /\ ops[Len(ops) - 1].param[1] = "auction"
      /\ Len(read) = Len(args)
      /\ \A i \in 1..Len(args) : read[i] = args[Len(args) + 1 - i]
  <2>1. ReadsBack(ops, "auction", "start", args)
    BY <1>1, <1>2, CallRead
  <2>. HIDE DEF ops
  <2>. QED  BY <1>1, <2>1 DEF ReadsBack
<1>. HIDE DEF ops, read
<1>4. /\ Len(read) = 3
      /\ read[1] = PushInt(b) /\ read[2] = PushData(t) /\ read[3] = PushData(u)
  BY <1>1, <1>3
<1>5. ValidateNotaryRequest(ops) = ValidateStartAuction("auction", read)
  BY <1>3 DEF ValidateNotaryRequest, read
<1>6. IF Len(PushInt(b).param) < 2
      THEN ValidateStartAuction("auction", read) = Failed("panic")
      ELSE ValidateStartAuction("auction", read)
             = [result |-> "ok", user |-> u, ticket |-> t,
                bet |-> Uint16(PushInt(b).param)]
  BY <1>4 DEF ValidateStartAuction, PushData, Operation
<1>. QED  BY <1>5, <1>6, BetPushed DEF ops, args, Failed

LEMMA MakeBetRead ==
  ASSUME NEW u, NEW b \in Int
  PROVE  LET d == ValidateNotaryRequest(
                    AppCall("auction", "makeBet", <<PushData(u), PushInt(b)>>))
         IN \/ d.result = "panic" /\ b < 128
            \/ d.result = "ok" /\ d.user = u /\ d.bet = b % 65536
<1>. DEFINE args == <<PushData(u), PushInt(b)>>
            ops == AppCall("auction", "makeBet", args)
            read == SubSeq(ops, 1, Len(ops) - 6)
<1>1. /\ args \in Seq({PushData(u), PushInt(b)})
      /\ Len(args) = 2
      /\ args[1] = PushData(u) /\ args[2] = PushInt(b)
  OBVIOUS
<1>2. \A i \in 1..Len(args) : args[i].code <= PUSH16
  BY <1>1, BetPushed DEF PushData, Operation, PUSHDATA1, PUSH16
<1>. HIDE DEF args
<1>3. /\ CallValid(ops)
      /\ ops[Len(ops) - 2].param[1] = "makeBet"
      /\ ops[Len(ops) - 1].param[1] = "auction"
      /\ Len(read) = Len(args)
      /\ \A i \in 1..Len(args) : read[i] = args[Len(args) + 1 - i]
  <2>1. ReadsBack(ops, "auction", "makeBet", args)
    BY <1>1, <1>2, CallRead
  <2>. HIDE DEF ops
  <2>. QED  BY <1>1, <2>1 DEF ReadsBack
<1>. HIDE DEF ops, read
<1>4. Len(read) = 2 /\ read[1] = PushInt(b) /\ read[2] = PushData(u)
  BY <1>1, <1>3
<1>5. ValidateNotaryRequest(ops) = ValidateMakeBet("auction", read)
  BY <1>3 DEF ValidateNotaryRequest, read
<1>6. IF Len(PushInt(b).param) < 2
      THEN ValidateMakeBet("auction", read) = Failed("panic")
      ELSE ValidateMakeBet("auction", read)
             = [result |-> "ok", user |-> u, bet |-> Uint16(PushInt(b).param)]
  BY <1>4 DEF ValidateMakeBet, PushData, Operation
<1>. QED  BY <1>5, <1>6, BetPushed DEF ops, args, Failed

LEMMA FinishRead ==
  ASSUME NEW u
  PROVE  ValidateNotaryRequest(AppCall("auction", "finish", <<PushData(u)>>))
           = [result |-> "ok"]
<1>. DEFINE args == <<PushData(u)>>
            ops == AppCall("auction", "finish", args)
            read == SubSeq(ops, 1, Len(ops) - 6)
<1>1. args \in Seq({PushData(u)}) /\ Len(args) = 1
  OBVIOUS
<1>2. \A i \in 1..Len(args) : args[i].code <= PUSH16
  BY DEF PushData, Operation, PUSHDATA1, PUSH16
<1>. HIDE DEF args
<1>3. /\ CallValid(ops)
      /\ ops[Len(ops) - 2].param[1] = "finish"
      /\ ops[Len(ops) - 1].param[1] = "auction"
      /\ Len(read) = 1
  <2>1. ReadsBack(ops, "auction", "finish", args)
    BY <1>1, <1>2, CallRead
  <2>. HIDE DEF ops
  <2>. QED  BY <1>1, <2>1 DEF ReadsBack
<1>. HIDE DEF ops, read
<1>4. ValidateNotaryRequest(ops) = ValidateFinishAuction("auction", read)
  BY <1>3 DEF ValidateNotaryRequest, read
<1>. QED  BY <1>3, <1>4 DEF ValidateFinishAuction, ops, args
-----------------------------------------------------------------------------
\* What the backend reads from the script of a request is the user, the ticket
\* and the bet (modulo 2^16) of the client's call, whatever method was called;
\* it fails at a bet below 128 only.
THEOREM Decoding == SysSpec => []DecodedAsSent
<1>1. SysInv => DecodedAsSent
  <2>. SUFFICES ASSUME SysInv, NEW i \in 1..Len(requests)
                PROVE  LET c == requests[i].call
                           d == Decoded(requests[i])
                       IN CASE d.result = "panic" ->
                                 c.op \in {"start", "makeBet"} /\ c.bet < 128
                            [] d.result = "ok" ->
                                 /\ c.op # "finish" => d.user = requests[i].user
                                 /\ c.op \in {"mint", "start"} =>
                                      d.ticket = c.ticket
                                 /\ c.op \in {"start", "makeBet"} =>
                                      d.bet = c.bet % 65536
                            [] OTHER -> FALSE
    BY DEF DecodedAsSent
  <2>. DEFINE u == requests[i].user
              c == requests[i].call
              d == Decoded(requests[i])
  <2>1. c \in Calls /\ d = ValidateNotaryRequest(Script(u, c))
    BY Typing DEF Requests, Decoded
  <2>2. \/ \E t \in Tickets : c = MintCall(t)
        \/ \E t \in Tickets, b \in Bets :
             c = [op |-> "start", ticket |-> t, bet |-> b]
        \/ \E b \in Bets : c = [op |-> "makeBet", bet |-> b]
        \/ c = [op |-> "finish"]
    BY <2>1 DEF Calls, AuctionCalls
  <2>. HIDE DEF u, c, d
  <2>3. \A b \in Bets : b \in Int
    BY AuctionAssumption
  <2>4. ASSUME NEW t \in Tickets, c = MintCall(t)
        PROVE  /\ c.op = "mint" /\ d.result = "ok"
               /\ d.user = u /\ d.ticket = c.ticket
    <3>1. c.op = "mint" /\ c.ticket = t
      BY <2>4 DEF MintCall
    <3>2. Script(u, c) = AppCall("nft", "mint", <<PushData(u), PushData(t)>>)
      BY <3>1 DEF Script
    <3>. QED  BY <2>1, <3>1, <3>2, MintRead
  <2>5. ASSUME NEW t \in Tickets, NEW b \in Bets,
               c = [op |-> "start", ticket |-> t, bet |-> b]
        PROVE  /\ c.op = "start"
               /\ \/ d.result = "panic" /\ c.bet < 128
                  \/ /\ d.result = "ok" /\ d.user = u /\ d.ticket = c.ticket
                     /\ d.bet = c.bet % 65536
    <3>1. c.op = "start" /\ c.ticket = t /\ c.bet = b
      BY <2>5
    <3>2. Script(u, c) = AppCall("auction", "start",
                                 <<PushData(u), PushData(t), PushInt(b)>>)
      BY <3>1 DEF Script
    <3>. QED  BY <2>1, <2>3, <3>1, <3>2, StartRead
  <2>6. ASSUME NEW b \in Bets, c = [op |-> "makeBet", bet |-> b]
        PROVE  /\ c.op = "makeBet"
               /\ \/ d.result = "panic" /\ c.bet < 128
                  \/ d.result = "ok" /\ d.user = u /\ d.bet = c.bet % 65536
    <3>1. c.op = "makeBet" /\ c.bet = b
      BY <2>6
    <3>2. Script(u, c) = AppCall("auction", "makeBet",
                                 <<PushData(u), PushInt(b)>>)
      BY <3>1 DEF Script
    <3>. QED  BY <2>1, <2>3, <3>1, <3>2, MakeBetRead
  <2>7. ASSUME c = [op |-> "finish"]
        PROVE  c.op = "finish" /\ d.result = "ok"
    <3>1. c.op = "finish"
      BY <2>7
    <3>2. Script(u, c) = AppCall("auction", "finish", <<PushData(u)>>)
      BY <3>1 DEF Script
    <3>. QED  BY <2>1, <3>1, <3>2, FinishRead
  <2>8. \/ d.result = "panic" /\ c.op \in {"start", "makeBet"} /\ c.bet < 128
        \/ /\ d.result = "ok"
           /\ c.op # "finish" => d.user = u
           /\ c.op \in {"mint", "start"} => d.ticket = c.ticket
           /\ c.op \in {"start", "makeBet"} => d.bet = c.bet % 65536
    BY <2>2, <2>4, <2>5, <2>6, <2>7
  <2>9. "panic" # "ok"
    OBVIOUS
  <2>. QED  BY <2>8, <2>9 DEF u, c, d
<1>. QED  BY <1>1, SysInitInv, SysNextInv, PTL DEF SysSpec
=============================================================================
