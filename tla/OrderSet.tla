------------------------------ MODULE OrderSet ------------------------------
(***************************************************************************)
(* What one side of a book promises: two sets of orders.  Posting an order *)
(* first drops one expired order, if there is one, and then the worst      *)
(* order of the side, if there is no room; removing takes the order with   *)
(* the key.  The crit-bit trees of OrderTree implement this.               *)
(***************************************************************************)
EXTENDS Integers, FiniteSets

CONSTANTS
  Components, Times, OraclePrices, Capacity,
  RankOf(_, _, _),      \* component, leaf, oracle price -> key at the price it trades at
  NodesOf(_)            \* number of orders -> nodes they need

VARIABLES orders, dropped, bids

vars == <<orders, dropped, bids>>

Init ==
  /\ orders = [c \in Components |-> {}]
  /\ dropped = {}
  /\ bids \in BOOLEAN

Room(o) == Capacity - NodesOf(o)

Earliest(S) == {l \in S : \A k \in S : l.expiry <= k.expiry}

Others(c) == Components \ {c}

\* Orders that may be dropped as expired: of this component, else of the other.
Expired(c, now) ==
  LET Of(S) == {l \in Earliest(S) : l.expiry < now}
  IN  IF Of(orders[c]) # {} THEN {c} \X Of(orders[c])
      ELSE UNION {{d} \X Of(orders[d]) : d \in Others(c)}

All(o) == UNION {{c} \X o[c] : c \in Components}

WorseThan(x, y, oracle) ==
  IF bids THEN RankOf(x[1], x[2], oracle) < RankOf(y[1], y[2], oracle)
  ELSE RankOf(x[1], x[2], oracle) > RankOf(y[1], y[2], oracle)

Worst(o, oracle) == {x \in All(o) : ~\E y \in All(o) : WorseThan(y, x, oracle)}

Without(o, gone) == [c \in Components |-> {l \in o[c] : <<c, l>> \notin gone}]

With(o, c, l) == [o EXCEPT ![c] = {k \in @ : k.key # l.key} \cup {l}]

Post(c, l, now, oracle) ==
  \E first \in IF Expired(c, now) = {} THEN {{}} ELSE {{x} : x \in Expired(c, now)} :
    LET left == Without(orders, first)
    IN  \E second \in {{}} \cup {{x} : x \in Worst(left, oracle)} :
          /\ second # {} => Room(left) <= 2
          /\ second = {} => Room(left) >= 1
          /\ orders' = With(Without(left, second), c, l)
          /\ dropped' = first \cup second
          /\ UNCHANGED bids

Remove(c, l) ==
  /\ orders' = [orders EXCEPT ![c] = @ \ {l}]
  /\ dropped' = {<<c, l>>}
  /\ UNCHANGED bids

Next ==
  \E c \in Components :
    \/ \E l \in orders[c] : Remove(c, l)
    \/ \E l \in orders'[c], now \in Times, oracle \in OraclePrices : Post(c, l, now, oracle)

Spec == Init /\ [][Next]_vars
=============================================================================
