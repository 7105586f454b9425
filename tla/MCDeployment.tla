---------------------------- MODULE MCDeployment ----------------------------
(***************************************************************************)
(* Two ticket contracts, one deployed after the other or both before the   *)
(* auction contract, and one ticket that can exist in each and belong to a *)
(* user or any of the contracts, who all can be passed as bidders.  A      *)
(* lease of one time unit, one renewal and one tick of the clock: a name   *)
(* can expire and be registered again, the TLD be renewed or not, and an   *)
(* auction started before is finished after any of it.  Three records: one *)
(* contract can be stored twice next to the other one, or both of them     *)
(* next to an alias.  Nothing tells the two ticket contracts apart.        *)
(***************************************************************************)
EXTENDS Deployment, TLC

CONSTANTS n1, n2

MCBets == {-1, 0, 1}
MCExchange == Permutations({n1, n2})
=============================================================================
