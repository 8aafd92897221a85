---------------------------- MODULE MCPerpOrders ----------------------------
(* Instances of PerpOrders for TLC. *)
EXTENDS PerpOrders, TLC

CONSTANTS a1, a2

AccountSymmetry == Permutations(Accounts)

\* A limit bid for two lots without any restriction that bites.
PlainBid ==
  [side |-> "Bid", pegged |-> FALSE, queued |-> FALSE, place_type |-> "Limit",
   price |-> 2, peg_limit |-> -1, max_base_lots |-> 2, max_quote_lots |-> 9,
   expiry |-> 0, self_trade |-> "DecrementTake", reduce_only |-> FALSE,
   limit |-> 2]

\* Lots in motion: a bid for two lots, asks that take a part of it, all of it and
\* one that cancels own orders on its way.
LotRequests ==
  { PlainBid,
    [PlainBid EXCEPT !.side = "Ask", !.max_base_lots = 1],
    [PlainBid EXCEPT !.side = "Ask", !.place_type = "ImmediateOrCancel",
                     !.price = 1, !.max_base_lots = 3, !.max_quote_lots = 5,
                     !.self_trade = "CancelProvide"] }

\* Orders that lose their validity: an expiring fixed ask, a pegged ask with a
\* peg limit, a bid that takes or slides, and one bid that is short of quote.
ValidityRequests ==
  { [PlainBid EXCEPT !.side = "Ask", !.price = 2, !.expiry = 1, !.max_base_lots = 1],
    [PlainBid EXCEPT !.side = "Ask", !.pegged = TRUE, !.price = 0, !.peg_limit = 2,
                     !.max_base_lots = 1],
    [PlainBid EXCEPT !.price = 3, !.max_quote_lots = 5, !.limit = 1],
    [PlainBid EXCEPT !.place_type = "PostOnlySlide", !.price = 3,
                     !.max_base_lots = 1],
    [PlainBid EXCEPT !.side = "Ask", !.price = 1, !.max_quote_lots = 2,
                     !.self_trade = "AbortTransaction"] }

\* Both sides, with and without the reduce-only flag of the order.
ReduceOnlyRequests ==
  { PlainBid,
    [PlainBid EXCEPT !.side = "Ask", !.max_base_lots = 1],
    [PlainBid EXCEPT !.side = "Ask", !.reduce_only = TRUE],
    [PlainBid EXCEPT !.reduce_only = TRUE, !.max_base_lots = 1] }

\* One maker order, one taker order, taken in part or as a whole.
LiveRequests ==
  { PlainBid,
    [PlainBid EXCEPT !.side = "Ask", !.max_base_lots = 1] }

\* A bid, and market asks that take it directly and through the FIFO queue.
QueuedMarketRequests ==
  { PlainBid,
    [PlainBid EXCEPT !.side = "Ask", !.queued = TRUE, !.place_type = "Market"],
    [PlainBid EXCEPT !.side = "Ask", !.place_type = "Market"] }

\* A side with both trees in use.
FullSideRequests ==
  { PlainBid,
    [PlainBid EXCEPT !.price = 1],
    [PlainBid EXCEPT !.pegged = TRUE, !.price = -1] }
=============================================================================
