--------------------------- MODULE RequestScript ---------------------------
(***************************************************************************)
(* The script of a notary request: the Neo VM code a client compiles a call*)
(* to, and how the backend reads the call back from it.  An operation is an*)
(* opcode and its operand: the bytes of a number, lowest first, or the one *)
(* account, ticket, method or contract it pushes.                          *)
(*                                                                         *)
(* Left out are arguments that are arrays or booleans: no method has any.  *)
(***************************************************************************)
EXTENDS Integers, Sequences

PUSHDATA1 == 12
PUSH0 == 16
PUSH16 == 32
SYSCALL == 65
PACK == 192
-----------------------------------------------------------------------------
(* The client (client/main.go), and package emit of neo-go.                *)

Operation(code, param) == [code |-> code, param |-> param]

PushData(d) == Operation(PUSHDATA1, <<d>>)

\* emit.Int: PUSHM1..PUSH16 have no operand, PUSHINT8, 16 and 32 have the
\* number itself, in two's complement.
PushInt(n) ==
  LET byte(weight) == (n \div weight) % 256
  IN CASE n \in -1..16 -> Operation(PUSH0 + n, << >>)
       [] n \in (-128..-2) \cup (17..127) -> Operation(0, <<byte(1)>>)
       [] n \in (-32768..-129) \cup (128..32767) ->
            Operation(1, <<byte(1), byte(256)>>)
       [] OTHER ->
            Operation(2, <<byte(1), byte(256), byte(65536), byte(16777216)>>)

\* emit.AppCall pushes the arguments from the last to the first and packs them,
\* then pushes the call flags (all), the method and the contract.
AppCall(contract, method, args) ==
  [i \in 1..Len(args) |-> args[Len(args) + 1 - i]]
    \o << PushInt(Len(args)), Operation(PACK, << >>), PushInt(15),
          PushData(method), PushData(contract),
          Operation(SYSCALL, <<"System.Contract.Call">>) >>

\* The call c of the client of u.
Script(u, c) ==
  CASE c.op = "mint" ->
         AppCall("nft", c.op, <<PushData(u), PushData(c.ticket)>>)
    [] c.op = "start" ->
         AppCall("auction", c.op,
                 <<PushData(u), PushData(c.ticket), PushInt(c.bet)>>)
    [] c.op = "makeBet" ->
         AppCall("auction", c.op, <<PushData(u), PushInt(c.bet)>>)
    [] c.op = "finish" -> AppCall("auction", c.op, <<PushData(u)>>)
-----------------------------------------------------------------------------
(* The backend.                                                            *)

\* IntFromOpcode, of the opcodes PUSHM1..PUSH16; a call has fewer arguments.
IntFromOpcode(op) == op.code - PUSH0

\* validateParameterOpcodes with validateNestedArgs: pushes, as many as the
\* number before PACK says.
ParametersValid(ops) ==
  LET l == Len(ops)
  IN /\ ops[l].code = PACK
     /\ \A i \in 1..l - 2 : ops[i].code <= PUSH16
     /\ l - 2 = IntFromOpcode(ops[l - 1])

\* validateNotaryRequestPreProcessing: a contract call, with legal call flags.
CallValid(ops) ==
  LET l == Len(ops)
  IN /\ ops[l].param = <<"System.Contract.Call">>
     /\ ops[l - 3].code - PUSH0 \in 0..15
     /\ l > 4 => ParametersValid(SubSeq(ops, 1, l - 4))

\* Mutant of Uint16: the higher byte first.
BigEndianUint16(p) == 256 * p[1] + p[2]

\* binary.LittleEndian.Uint16, which panics on fewer than two bytes and does
\* not look at more.
Uint16(p) == p[1] + 256 * p[2]

\* How a function ends that does not return a call: with an error or a panic.
Failed(result) == [result |-> result]

\* The arguments of each method, in the order of the stack.  makeBet decodes
\* the bet before it counts the arguments, start after it has.
ValidateGetNft(contract, args) ==
  IF contract # "nft" \/ Len(args) # 2 THEN Failed("error")
  ELSE [result |-> "ok", user |-> args[2].param[1], ticket |-> args[1].param[1]]

ValidateStartAuction(contract, args) ==
  IF contract # "auction" \/ Len(args) # 3 THEN Failed("error")
  ELSE IF Len(args[1].param) < 2 THEN Failed("panic")
  ELSE [result |-> "ok", user |-> args[3].param[1],
        ticket |-> args[2].param[1], bet |-> Uint16(args[1].param)]

ValidateMakeBet(contract, args) ==
  IF Len(args[1].param) < 2 THEN Failed("panic")
  ELSE IF contract # "auction" \/ Len(args) # 2 THEN Failed("error")
  ELSE [result |-> "ok", user |-> args[2].param[1], bet |-> Uint16(args[1].param)]

ValidateFinishAuction(contract, args) ==
  IF contract # "auction" \/ Len(args) # 1 THEN Failed("error")
  ELSE [result |-> "ok"]

\* validateNotaryRequest: the method is the third operation from the end, the
\* contract the second.
ValidateNotaryRequest(ops) ==
  LET l == Len(ops)
      method == ops[l - 2].param[1]
      contract == ops[l - 1].param[1]
      args == SubSeq(ops, 1, l - 6)
  IN IF ~CallValid(ops) THEN Failed("error")
     ELSE CASE method = "mint" -> ValidateGetNft(contract, args)
            [] method = "start" -> ValidateStartAuction(contract, args)
            [] method = "makeBet" -> ValidateMakeBet(contract, args)
            [] method = "finish" -> ValidateFinishAuction(contract, args)
=============================================================================
