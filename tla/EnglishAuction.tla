--------------------------- MODULE EnglishAuction ---------------------------
(***************************************************************************)
(* What the auction promises its users (README.md: one sale at a time,     *)
(* every bid above the ones before it, the highest bidder takes the item), *)
(* said without the contracts: no storage keys, no indexes, no leader      *)
(* field.  A sale is its seller, its item, the least price and the set of  *)
(* the bids accepted so far; whoever made the highest of them wins.        *)
(***************************************************************************)
EXTENDS Integers

CONSTANTS
  Parties,    \* those who hold items, sell them and bid for them
  Receivers,  \* those of them to whom an item can be handed over
  Agent,      \* the party that holds the auction
  Items,      \* what can be sold
  Prices,     \* what can be bid
  Nobody,     \* holder of an item that has not been issued
  NoSale      \* value of sale between two sales

VARIABLES
  holder,  \* who holds each item
  sale     \* the sale that is open, or NoSale

Issue(p, i) ==
  /\ holder[i] = Nobody
  /\ holder' = [holder EXCEPT ![i] = p]
  /\ UNCHANGED sale

\* Nothing keeps the item of a sale with its seller.
Give(p, i) ==
  /\ holder[i] # Nobody
  /\ holder' = [holder EXCEPT ![i] = p]
  /\ UNCHANGED sale

Open(p, i, floor) ==
  /\ sale = NoSale
  /\ holder[i] = p
  /\ sale' = [seller |-> p, item |-> i, floor |-> floor, bids |-> {}]
  /\ UNCHANGED holder

Bid(p, price) ==
  /\ sale # NoSale
  /\ p # sale.seller
  /\ price > sale.floor
  /\ \A b \in sale.bids : price > b.price
  /\ sale' = [sale EXCEPT !.bids = @ \cup {[bidder |-> p, price |-> price]}]
  /\ UNCHANGED holder

\* The seller, when nobody bid; else who made a bid no other one exceeds.
Wins(p) ==
  \/ sale.bids = {} /\ p = sale.seller
  \/ \E b \in sale.bids :
       b.bidder = p /\ \A c \in sale.bids : c.price <= b.price

\* Anybody may close a sale.  The item is handed to the winner p only if it is
\* held by c, who closes, or by the agent; otherwise the sale just ends.
Close(c, p) ==
  /\ sale # NoSale
  /\ Wins(p)
  /\ IF holder[sale.item] \in {c, Agent}
       THEN p \in Receivers /\ holder' = [holder EXCEPT ![sale.item] = p]
       ELSE UNCHANGED holder
  /\ sale' = NoSale

Init == holder = [i \in Items |-> Nobody] /\ sale = NoSale

Next ==
  \/ \E p \in Parties, i \in Items : Issue(p, i)
  \/ \E p \in Receivers, i \in Items : Give(p, i)
  \/ \E p \in Parties, i \in Items, floor \in Prices : Open(p, i, floor)
  \/ \E p \in Parties, price \in Prices : Bid(p, price)
  \/ \E c, p \in Parties : Close(c, p)

Spec == Init /\ [][Next]_<<holder, sale>>
=============================================================================
