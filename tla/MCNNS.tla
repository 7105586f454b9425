------------------------------- MODULE MCNNS -------------------------------
(***************************************************************************)
(* A committee and a user, who sign alone or together; a TLD, a domain in  *)
(* it and a name below that domain, which only the owner of the domain can *)
(* register.  A lease of one time unit, one renewal and one tick of the    *)
(* clock: each of the names can be live, expired or free under each state  *)
(* of the ones above.                                                      *)
(***************************************************************************)
EXTENDS NNS

CONSTANTS c, u

MCHolders == {c, u}
MCSigners == {{c}, {u}, {c, u}}

auc == <<"auc">>
nft == <<"nft", "auc">>
sub == <<"a", "nft", "auc">>

MCNames == {auc, nft, sub}
MCAliases == {auc}
=============================================================================
