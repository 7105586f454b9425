-------------------------- MODULE MCAuctionHistory --------------------------
(***************************************************************************)
(* Two wallets, the auction contract and another contract: an auction has  *)
(* an organizer, rivals of both kinds and an outsider, and a wallet or a   *)
(* contract can be any of them.  Two tickets, so that a holder has another *)
(* one than the lot; four bets, one of them negative, so that a bet can be *)
(* refused and overtaken twice.                                            *)
(***************************************************************************)
EXTENDS AuctionHistory

CONSTANTS u1, u2

MCUsers == {u1, u2}
MCBets == {-1, 0, 1, 2}
=============================================================================
