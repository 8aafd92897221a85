----------------------------- MODULE PerpOrders -----------------------------
(***************************************************************************)
(* Orders of one perp market: the order book (state/orderbook/), the event *)
(* queue that carries fills and removals to the maker and taker accounts,  *)
(* the open-order slots and the lot counters of the accounts, and the      *)
(* instructions that move orders between them: perp_place_order (all       *)
(* variants and the queued form), the cancels, perp_consume_events,        *)
(* perp_deactivate_position and the reduce-only switch of the market.      *)
(*                                                                         *)
(* perp_place_order is a loop over the opposing book.  PlaceBegin starts   *)
(* it, every iteration is one step, and a last step applies the collected  *)
(* changes, posts the remainder and ends the instruction; PlaceAbort is    *)
(* any error or panic, which the runtime rolls back.  cancel_all_orders is *)
(* a loop over the slots: CancelAllBegin and one CancelAllStep for each.   *)
(* The instruction holds the write locks of the market, the book and the   *)
(* queue, so every other action waits until it is over.                    *)
(*                                                                         *)
(* Fees, funding and native quote amounts are not part of this module.     *)
(* A definition marked "Fault" is a broken variant of the one that follows *)
(* it: with the variant in its place some property below must fail.        *)
(***************************************************************************)
EXTENDS Integers, Sequences, FiniteSetsExt

CONSTANTS
  Accounts,        \* mango accounts of the group
  NoAccount,       \* the account of an idle call
  NumSlots,        \* perp open-order slots of an account
  Requests,        \* the orders accounts may ask for, see Request
  MaxNodes,        \* MAX_ORDERTREE_NODES, shared by the two trees of a side
  MaxEvents,       \* MAX_NUM_EVENTS of the event queue
  DropLimit,       \* DROP_EXPIRED_ORDER_LIMIT
  MaxTif,          \* u16::MAX, the largest time in force
  MaxPrice,        \* i64::MAX as a price in lots
  OraclePrices,    \* oracle prices in lots
  AssetWeight,     \* maint_base_asset_weight, in percent
  LiabWeight,      \* maint_base_liab_weight, in percent
  CancelLimits,    \* limits that cancel-all calls pass
  ReduceOnlyModes, \* values of reduce_only the admin may set
  MaxOrders,       \* bound: the last order sequence number
  MaxTime          \* bound: the last timestamp of the clock

Sides == {"Bid", "Ask"}
Trees == {"Fixed", "OraclePegged"}
Slots == 0..(NumSlots - 1)
NoPegLimit == -1
Never == MaxTime + MaxTif + 1   \* expiry of an order without time in force

\* The arguments of a placement.  For a pegged order price is the offset from
\* the oracle price.  expiry is a timestamp (0: never), except that a queued
\* operation carries a time in force instead.
Request ==
  [side : Sides, pegged : BOOLEAN, queued : BOOLEAN,
   place_type : {"Limit", "ImmediateOrCancel", "PostOnly", "Market",
                 "PostOnlySlide"},
   price : Int, peg_limit : Int, max_base_lots : Nat, max_quote_lots : Nat,
   expiry : Nat, self_trade : {"DecrementTake", "CancelProvide",
                               "AbortTransaction"},
   reduce_only : BOOLEAN, limit : Nat]

\* The checks of the instructions' arguments in lib.rs.
ValidRequest(o) ==
  /\ o.peg_limit >= -1
  /\ o.pegged => o.place_type \notin {"ImmediateOrCancel", "Market"}
  /\ o.queued => ~o.pegged

ASSUME PerpOrdersAssumption ==
  /\ NoAccount \notin Accounts
  /\ NumSlots \in Nat \ {0}
  /\ MaxNodes \in Nat \ {0}
  /\ MaxEvents \in Nat
  /\ DropLimit \in Nat
  /\ MaxTif \in Nat
  /\ MaxPrice \in Nat \ {0}
  /\ OraclePrices \subseteq Nat \ {0}
  /\ OraclePrices # {}
  /\ AssetWeight \in Nat /\ LiabWeight \in Nat
  /\ CancelLimits \subseteq Nat
  /\ ReduceOnlyModes \subseteq BOOLEAN
  /\ MaxOrders \in Nat
  /\ MaxTime \in Nat
  /\ Requests \subseteq {o \in Request : ValidRequest(o)}

VARIABLES
  book,      \* the leaves of both sides, both trees
  bump,      \* per side: bump_index of the node pool, its high-water mark
  events,    \* the event queue
  position,  \* per account: its PerpPosition of this market
  oo,        \* per account: its PerpOpenOrder slots
  market,    \* seq_num, open_interest and reduce_only of the PerpMarket
  now,       \* Clock::get().unix_timestamp
  oracle,    \* the oracle price in lots
  call,      \* the placement that holds the locks
  sweep      \* the cancel-all loop that holds the locks

vars == <<book, bump, events, position, oo, market, now, oracle, call, sweep>>

invert_side(side) == IF side = "Bid" THEN "Ask" ELSE "Bid"
other_tree(tree) == IF tree = "Fixed" THEN "OraclePegged" ELSE "Fixed"

LeafNode ==
  [id : Nat \ {0}, side : Sides, tree : Trees, owner : Accounts, slot : Slots,
   price_data : Int, peg_limit : Int, quantity : Nat \ {0}, expiry : Nat]

\* Fill and out events.  side is the side of the book the order was on; an out
\* event has no taker and no price.
Event ==
  {e \in [type : {"Fill", "Out"}, side : Sides, owner : Accounts, slot : Slots,
          order_id : Nat \ {0}, quantity : Nat \ {0}, maker_out : BOOLEAN,
          taker : Accounts \cup {NoAccount}, price : Int] :
     e.type = "Fill" => e.taker \in Accounts}

PerpPosition ==
  [active : BOOLEAN, base : Int, bids : Int, asks : Int,
   taker_base : Int, taker_quote : Int]
ZeroPosition ==
  [active |-> FALSE, base |-> 0, bids |-> 0, asks |-> 0,
   taker_base |-> 0, taker_quote |-> 0]

\* id 0: the slot is free.
PerpOpenOrder ==
  [id : Nat, side : Sides, tree : Trees, quantity : Nat]
FreeSlot ==
  [id |-> 0, side |-> "Bid", tree |-> "Fixed", quantity |-> 0]
is_active(s) == s.id # 0

NoCall ==
  [account |-> NoAccount, order |-> <<>>, price |-> 0, max_base |-> 0,
   base |-> 0, quote |-> 0, limit |-> 0, dropped |-> 0,
   todo |-> {}, removed |-> {}, changed |-> {}, pushed |-> <<>>]
NoSweep == [account |-> NoAccount, slots |-> {}, limit |-> 0]

Idle == call.account = NoAccount /\ sweep.account = NoAccount
Placing == call.account # NoAccount

Init ==
  /\ book = {}
  /\ bump = [side \in Sides |-> 0]
  /\ events = <<>>
  /\ position = [a \in Accounts |-> ZeroPosition]
  /\ oo = [a \in Accounts |-> [s \in Slots |-> FreeSlot]]
  /\ market = [seq_num |-> 0, open_interest |-> 0, reduce_only |-> FALSE]
  /\ now = 0
  /\ oracle \in OraclePrices
  /\ call = NoCall
  /\ sweep = NoSweep

-----------------------------------------------------------------------------
(* Prices and the book. *)

is_price_better(side, p, q) == IF side = "Bid" THEN p > q ELSE p < q
is_price_within_limit(side, p, limit) ==
  IF side = "Bid" THEN p <= limit ELSE p >= limit

\* Prices outside 1..MaxPrice-1 are clamped, and the order is skipped.
Clamp(p) == IF p < 1 THEN 1 ELSE IF p > MaxPrice THEN MaxPrice ELSE p
PriceOf(o) == IF o.tree = "Fixed" THEN o.price_data
              ELSE Clamp(oracle + o.price_data)
IsSkipped(o) ==
  o.tree = "OraclePegged" /\ oracle + o.price_data \notin 1..(MaxPrice - 1)

is_expired(o) == now >= o.expiry
PegLimitHit(o) ==
  /\ o.tree = "OraclePegged"
  /\ o.peg_limit # NoPegLimit
  /\ is_price_better(o.side, PriceOf(o), o.peg_limit)
is_valid(o) == ~is_expired(o) /\ ~PegLimitHit(o)

BookSide(side) == {o \in book : o.side = side}

\* rank_orders: better price first, the older order at the same price.
Before(o, p) == \/ is_price_better(o.side, PriceOf(o), PriceOf(p))
                \/ PriceOf(o) = PriceOf(p) /\ o.id < p.id
Best(S) == {o \in S : \A p \in S \ {o} : Before(o, p)}

\* remove_worst: the last order of each tree, and of these two the worse one.
BeforeInTree(o, p) == \/ is_price_better(o.side, o.price_data, p.price_data)
                      \/ o.price_data = p.price_data /\ o.id < p.id
Worst(S) ==
  LET last == {o \in S : \A p \in S \ {o} : p.tree = o.tree => BeforeInTree(p, o)}
  IN {o \in last : \A p \in last \ {o} : Before(p, o)}

\* best_price: of the best valid order, if there is one.
best_price(side) ==
  LET valid == {o \in BookSide(side) : is_valid(o) /\ ~IsSkipped(o)}
  IN {PriceOf(o) : o \in Best(valid)}

\* A tree of n leaves has n - 1 inner nodes.
TreeNodes(S, tree) ==
  LET n == Cardinality({o \in S : o.tree = tree})
  IN IF n = 0 THEN 0 ELSE 2 * n - 1
UsedNodes(S) == TreeNodes(S, "Fixed") + TreeNodes(S, "OraclePegged")

\* free_list_len is the high-water mark less the nodes in use.
is_full(side, S) ==
  bump[side] - UsedNodes(S) <= 1 /\ bump[side] >= MaxNodes - 1

\* remove_one_expired: an order of the earliest expiry of the tree, if that is
\* past; only without one in the target tree it looks into the other.
ExpiredIn(S, tree) ==
  {o \in S : /\ o.tree = tree /\ o.expiry < now
             /\ \A p \in S : p.tree = tree => o.expiry <= p.expiry}
Droppable(S, tree) ==
  IF ExpiredIn(S, tree) # {} THEN ExpiredIn(S, tree)
  ELSE ExpiredIn(S, other_tree(tree))

OutEvent(o) ==
  [type |-> "Out", side |-> o.side, owner |-> o.owner, slot |-> o.slot,
   order_id |-> o.id, quantity |-> o.quantity, maker_out |-> TRUE,
   taker |-> NoAccount, price |-> 0]
\* Fault: the owner of a dropped or evicted order is not told.
OutEventsNone(S) == <<>>
\* The ways to take one element of S, or none if there is none.
AtMostOne(S) == IF S = {} THEN {{}} ELSE {{o} : o \in S}
\* One out event for the order of S, none if S is empty.
OutEvents(S) == IF S = {} THEN <<>> ELSE <<OutEvent(CHOOSE o \in S : TRUE)>>
FillEvent(o, lots, taker) ==
  [type |-> "Fill", side |-> o.side, owner |-> o.owner, slot |-> o.slot,
   order_id |-> o.id, quantity |-> lots, maker_out |-> lots = o.quantity,
   taker |-> taker, price |-> PriceOf(o)]

-----------------------------------------------------------------------------
(* Positions. *)

adjust_maker_lots(p, side, lots) ==
  IF side = "Bid" THEN [p EXCEPT !.bids = @ + lots]
                  ELSE [p EXCEPT !.asks = @ + lots]
Signed(side, lots) == IF side = "Bid" THEN lots ELSE -lots
add_taker_trade(p, side, base, quote) ==
  [p EXCEPT !.taker_base = @ + Signed(side, base),
            !.taker_quote = @ - Signed(side, quote)]
Abs(n) == IF n < 0 THEN -n ELSE n
effective_base_position_lots(p) == p.base + p.taker_base

\* ensure_perp_position: a new position starts from the default.
ensure_perp_position(p) ==
  IF p.active THEN p ELSE [ZeroPosition EXCEPT !.active = TRUE]

\* execute_perp_maker, execute_perp_taker and execute_perp_out_event on the
\* position; quantities of the event e.
ExecuteMakerOnTakerSide(p, e) ==   \* Fault
  adjust_maker_lots([p EXCEPT !.base = @ - Signed(e.side, e.quantity)],
                    e.side, -e.quantity)
execute_perp_maker(p, e) ==
  adjust_maker_lots([p EXCEPT !.base = @ + Signed(e.side, e.quantity)],
                    e.side, -e.quantity)
execute_perp_taker(p, e) ==
  LET side == invert_side(e.side)
      q == add_taker_trade(p, side, -e.quantity, -(e.quantity * e.price))
  IN [q EXCEPT !.base = @ + Signed(side, e.quantity)]
execute_perp_out_event(p, e) == adjust_maker_lots(p, e.side, -e.quantity)

\* Fault: the slot is settled without comparing the order id.
SettleSlotAnyId(s, e) ==
  IF ~is_active(s) THEN s
  ELSE IF e.maker_out THEN FreeSlot
  ELSE [s EXCEPT !.quantity = IF @ > e.quantity THEN @ - e.quantity ELSE 0]
\* Fault: a fill reduces the slot's quantity but does not free the slot.
SettleSlotKeepsFilled(s, e) ==
  IF ~is_active(s) \/ s.id # e.order_id THEN s
  ELSE IF e.type = "Out" THEN FreeSlot
  ELSE [s EXCEPT !.quantity = IF @ > e.quantity THEN @ - e.quantity ELSE 0]
\* Fault: a fill that leaves a part of the order does not touch the slot.
SettleSlotKeepsQuantity(s, e) ==
  IF is_active(s) /\ s.id = e.order_id /\ e.maker_out THEN FreeSlot ELSE s
\* What the event does to the slot it names: nothing if the slot was freed or
\* reused since.
SettleSlot(s, e) ==
  IF ~is_active(s) \/ s.id # e.order_id THEN s
  ELSE IF e.maker_out THEN FreeSlot
  ELSE [s EXCEPT !.quantity = IF @ > e.quantity THEN @ - e.quantity ELSE 0]

\* Fault: orders that are already open do not count in a reduce-only market.
ReduceOnlyIgnoresOpenOrders(p, o) ==
  LET effective == effective_base_position_lots(p)
      allowed == IF Signed(o.side, effective) >= 0 THEN 0 ELSE Abs(effective)
  IN Min({allowed, o.max_base_lots})
reduce_only_max_base_lots(p, o) ==
  LET effective == effective_base_position_lots(p)
      incl_open == IF o.side = "Bid" THEN -(effective + p.bids)
                                     ELSE effective - p.asks
      allowed == IF Signed(o.side, effective) >= 0 THEN 0
                 ELSE IF market.reduce_only THEN Max({0, incl_open})
                 ELSE Abs(effective)
  IN Min({allowed, o.max_base_lots})

-----------------------------------------------------------------------------
(* perp_place_order *)

is_post_only(o) == o.place_type \in {"PostOnly", "PostOnlySlide"}
has_post_target(o) == o.place_type \notin {"ImmediateOrCancel", "Market"}
TargetTree(o) == IF o.pegged THEN "OraclePegged" ELSE "Fixed"

market_order_limit_for_side(side) == IF side = "Bid" THEN MaxPrice ELSE 1

post_only_slide_limit(side, best_other, limit) ==
  IF side = "Bid" THEN Min({limit, best_other - 1})
                  ELSE Max({limit, best_other + 1})

\* Order::price.  order_from_params turns a queued market order into an
\* immediate-or-cancel order at the largest price.
OrderPrice(o) ==
  LET limit == IF o.pegged THEN oracle + o.price ELSE o.price
      others == best_price(invert_side(o.side))
  IN IF o.place_type = "Market"
     THEN IF o.queued THEN MaxPrice ELSE market_order_limit_for_side(o.side)
     ELSE IF o.place_type = "PostOnlySlide" /\ others # {}
     THEN post_only_slide_limit(o.side, CHOOSE p \in others : TRUE, limit)
     ELSE limit

\* tif_from_expiry: a time in force of at most MaxTif, and no order at all if
\* the expiry has passed.  tif_offset of a queued order starts now.
AlreadyExpired(o) == ~o.queued /\ o.expiry # 0 /\ o.expiry <= now
OrderExpiry(o) ==
  IF o.expiry = 0 THEN Never
  ELSE IF o.queued THEN now + Min({o.expiry, MaxTif})
  ELSE Min({o.expiry, now + MaxTif})

inside_price_limit(side, p) ==
  IF side = "Bid" THEN 100 * p <= LiabWeight * oracle
                  ELSE 100 * p >= AssetWeight * oracle

PlaceBegin(a, o) ==
  LET p == ensure_perp_position(position[a])
      max_base == IF o.reduce_only \/ market.reduce_only
                  THEN reduce_only_max_base_lots(p, o) ELSE o.max_base_lots
  IN /\ Idle
     /\ market.seq_num < MaxOrders
     /\ ~AlreadyExpired(o)
     /\ market.reduce_only => o.reduce_only \/ max_base = o.max_base_lots
     /\ OrderPrice(o) >= 1
     /\ call' = [NoCall EXCEPT
                   !.account = a, !.order = o, !.price = OrderPrice(o),
                   !.max_base = max_base, !.base = max_base,
                   !.quote = o.max_quote_lots, !.limit = o.limit,
                   !.todo = {n \in BookSide(invert_side(o.side)) : ~IsSkipped(n)}]
     /\ UNCHANGED <<book, bump, events, position, oo, market, now, oracle, sweep>>

\* The order the iteration is at, while there is something left to match.
Opposing ==
  IF Placing /\ call.base # 0 /\ call.quote # 0 THEN Best(call.todo) ELSE {}
Crossing(o) ==
  /\ is_valid(o)
  /\ is_price_within_limit(call.order.side, PriceOf(o), call.price)
\* post_target = None, break
Stopping(o) == Crossing(o) /\ (is_post_only(call.order) \/ call.limit = 0)
MaxMatchByQuote(o) == call.quote \div PriceOf(o)
Matching(o) == Crossing(o) /\ ~Stopping(o) /\ MaxMatchByQuote(o) # 0

QueueHasRoom(n) == Len(events) + Len(call.pushed) + n <= MaxEvents

\* An expired order, or one past its peg limit, is dropped on the way.
PlaceDropInvalid ==
  \E o \in Opposing :
    /\ ~is_valid(o)
    /\ \/ /\ call.dropped < DropLimit
          /\ QueueHasRoom(1)
          /\ call' = [call EXCEPT !.dropped = @ + 1,
                        !.todo = @ \ {o}, !.removed = @ \cup {o},
                        !.pushed = Append(@, OutEvent(o))]
       \/ /\ call.dropped >= DropLimit
          /\ call' = [call EXCEPT !.todo = @ \ {o}]
    /\ UNCHANGED <<book, bump, events, position, oo, market, now, oracle, sweep>>

PlaceCancelProvide ==
  \E o \in Opposing :
    /\ Matching(o)
    /\ o.owner = call.account /\ call.order.self_trade = "CancelProvide"
    /\ QueueHasRoom(1)
    /\ call' = [call EXCEPT !.todo = @ \ {o}, !.removed = @ \cup {o},
                           !.pushed = Append(@, OutEvent(o))]
    /\ UNCHANGED <<book, bump, events, position, oo, market, now, oracle, sweep>>

\* A self trade is matched only with DecrementTake; AbortTransaction is an error.
PlaceMatch ==
  \E o \in Opposing :
    LET lots == Min({call.base, o.quantity, MaxMatchByQuote(o)})
        out == lots = o.quantity
    IN /\ Matching(o)
       /\ o.owner = call.account => call.order.self_trade = "DecrementTake"
       /\ QueueHasRoom(1)
       /\ call' = [call EXCEPT
                     !.base = @ - lots, !.quote = @ - lots * PriceOf(o),
                     !.limit = @ - 1, !.todo = @ \ {o},
                     !.removed = IF out THEN @ \cup {o} ELSE @,
                     !.changed = IF out THEN @
                       ELSE @ \cup {[o EXCEPT !.quantity = @ - lots]},
                     !.pushed = Append(@, FillEvent(o, lots, call.account))]
       /\ UNCHANGED <<book, bump, events, position, oo, market, now, oracle, sweep>>

LoopOver == Placing /\ \A o \in Opposing : is_valid(o) /\ ~Matching(o)

\* Apply changes to matched orders, then delete.
MatchedBook ==
  {o \in book \ call.removed : \A c \in call.changed : c.id # o.id}
    \cup call.changed

BookBaseQuantity == Min({call.base, call.quote \div call.price})
\* Fault: an order stopped by the match limit or by post-only is posted.
PostsAlways ==
  /\ has_post_target(call.order)
  /\ BookBaseQuantity > 0
  /\ inside_price_limit(call.order.side, call.price)
Posts ==
  /\ has_post_target(call.order)
  /\ \A o \in Opposing : ~Stopping(o)
  /\ BookBaseQuantity > 0
  /\ inside_price_limit(call.order.side, call.price)

\* Fault: what is posted is recorded as taken.
TakerPositionWholeOrder ==
  add_taker_trade(ensure_perp_position(position[call.account]),
                  call.order.side, call.max_base,
                  call.order.max_quote_lots - call.quote)
\* add_taker_trade for everything taken, in the position that
\* ensure_perp_position has created if there was none.
TakerPosition ==
  add_taker_trade(ensure_perp_position(position[call.account]),
                  call.order.side, call.max_base - call.base,
                  call.order.max_quote_lots - call.quote)

NewLeaf(slot) ==
  [id |-> market.seq_num + 1, side |-> call.order.side,
   tree |-> TargetTree(call.order), owner |-> call.account, slot |-> slot,
   price_data |-> IF call.order.pegged THEN call.price - oracle ELSE call.price,
   peg_limit |-> IF call.order.pegged THEN call.order.peg_limit ELSE NoPegLimit,
   quantity |-> BookBaseQuantity, expiry |-> OrderExpiry(call.order)]

IsFree(a, slot) == ~is_active(oo[a][slot])
\* perp_next_order_slot: the first free one.
NextOrderSlots(a) ==
  {s \in Slots : IsFree(a, s) /\ \A t \in Slots : t < s => ~IsFree(a, t)}

\* add_perp_order
OpenOrder(leaf) ==
  [id |-> leaf.id, side |-> leaf.side, tree |-> leaf.tree,
   quantity |-> leaf.quantity]

PlaceWithoutPost ==
  /\ LoopOver /\ ~Posts
  /\ book' = MatchedBook
  /\ events' = events \o call.pushed
  /\ position' = [position EXCEPT ![call.account] = TakerPosition]
  /\ market' = [market EXCEPT !.seq_num = @ + 1]
  /\ call' = NoCall
  /\ UNCHANGED <<bump, oo, now, oracle, sweep>>

\* The orders that make room for the new one: an expired order in any case, and
\* the worst one if the side is still full, which must have a worse price.
PlaceAndPost ==
  /\ LoopOver /\ Posts
  /\ LET side == call.order.side
         own == BookSide(side)
     IN \E dropped \in AtMostOne(Droppable(own, TargetTree(call.order))) :
        \E evicted \in IF is_full(side, own \ dropped)
                       THEN {{o} : o \in Worst(own \ dropped)} ELSE {{}} :
        \E slot \in NextOrderSlots(call.account) :
          LET leaf == NewLeaf(slot)
              outs == OutEvents(dropped) \o OutEvents(evicted)
              used == UsedNodes((own \ (dropped \cup evicted)) \cup {leaf})
          IN /\ \A w \in evicted : is_price_better(side, call.price, PriceOf(w))
             /\ QueueHasRoom(Len(outs))
             /\ used <= MaxNodes
             /\ book' = (MatchedBook \ (dropped \cup evicted)) \cup {leaf}
             /\ bump' = [bump EXCEPT ![side] = Max({@, used})]
             /\ events' = (events \o call.pushed) \o outs
             /\ position' = [position EXCEPT ![call.account] =
                  adjust_maker_lots(TakerPosition, side, leaf.quantity)]
             /\ oo' = [oo EXCEPT ![call.account][slot] = OpenOrder(leaf)]
  /\ market' = [market EXCEPT !.seq_num = @ + 1]
  /\ call' = NoCall
  /\ UNCHANGED <<now, oracle, sweep>>

\* Any error or panic, among them a failing health check at the end.
PlaceAbort ==
  /\ Placing
  /\ call' = NoCall
  /\ UNCHANGED <<book, bump, events, position, oo, market, now, oracle, sweep>>

PlaceStep == \/ PlaceDropInvalid \/ PlaceCancelProvide \/ PlaceMatch
             \/ PlaceWithoutPost \/ PlaceAndPost \/ PlaceAbort

-----------------------------------------------------------------------------
(* Cancels *)

\* The leaf that remove_by_key finds for a slot.
LeafOf(s) ==
  {o \in book : o.id = s.id /\ o.side = s.side /\ o.tree = s.tree}

\* Fault: the lots of the slot are freed, those in flight among them.
CancelSlotQuantity(a, slot) ==
  LET s == oo[a][slot]
  IN /\ is_active(s) /\ position[a].active
     /\ book' = book \ LeafOf(s)
     /\ position' = [position EXCEPT ![a] = adjust_maker_lots(@, s.side, -s.quantity)]
     /\ oo' = [oo EXCEPT ![a][slot] = FreeSlot]
\* cancel_order_by_slot.  An order that is off the book is cancelled only in its
\* slot: its lots are left to the event that is on the queue.
cancel_order_by_slot(a, slot) ==
  LET s == oo[a][slot]
  IN /\ is_active(s)
     /\ \A o \in LeafOf(s) : o.slot = slot /\ o.owner = a
     /\ LeafOf(s) = {} => s.quantity # 0
     /\ position[a].active
     /\ book' = book \ LeafOf(s)
     /\ position' = [position EXCEPT ![a] = adjust_maker_lots(@, s.side,
          -(IF LeafOf(s) = {} THEN 0 ELSE (CHOOSE o \in LeafOf(s) : TRUE).quantity))]
     /\ oo' = [oo EXCEPT ![a][slot] = FreeSlot]

\* perp_cancel_order names the order by its id, the cancel by client order id
\* (also as a queued operation) by a number of the client; either finds a slot.
perp_cancel_order(a, slot) ==
  /\ Idle
  /\ cancel_order_by_slot(a, slot)
  /\ UNCHANGED <<bump, events, market, now, oracle, call, sweep>>

\* perp_cancel_all_orders, its by-side form, and perp_liq_force_cancel_orders
\* once it may act.  With nothing to cancel the call does nothing; limit - 1
\* panics at limit 0.
CancelAllBegin(a, sides, limit) ==
  LET slots == {s \in Slots : is_active(oo[a][s]) /\ oo[a][s].side \in sides}
  IN /\ Idle
     /\ slots # {} /\ limit > 0
     /\ sweep' = [account |-> a, slots |-> slots, limit |-> limit]
     /\ UNCHANGED <<book, bump, events, position, oo, market, now, oracle, call>>

CancelAllStep ==
  /\ sweep.account # NoAccount
  /\ LET slot == Min(sweep.slots)
         rest == sweep.slots \ {slot}
         s == oo[sweep.account][slot]
     IN /\ IF LeafOf(s) = {} /\ s.quantity = 0   \* PerpOrderIdNotFound
           THEN UNCHANGED <<book, position, oo>>
           ELSE cancel_order_by_slot(sweep.account, slot)
        /\ sweep' = IF rest = {} \/ sweep.limit = 1 THEN NoSweep
                    ELSE [sweep EXCEPT !.slots = rest, !.limit = @ - 1]
  /\ UNCHANGED <<bump, events, market, now, oracle, call>>

-----------------------------------------------------------------------------
(* Events, positions, environment *)

\* One iteration of perp_consume_events; a call is up to eight of them, and ends
\* early, keeping what was done, when an account is missing.
perp_consume_events ==
  /\ Idle /\ events # <<>>
  /\ LET e == Head(events)
         involved == {e.owner} \cup (IF e.type = "Fill" THEN {e.taker} ELSE {})
         maker == IF e.type = "Fill" THEN execute_perp_maker(position[e.owner], e)
                  ELSE execute_perp_out_event(position[e.owner], e)
         Moved(a) == Abs(position'[a].base) - Abs(position[a].base)
         self == e.taker = e.owner
     IN /\ \A a \in involved : position[a].active
        /\ position' =
             IF e.type = "Out" THEN [position EXCEPT ![e.owner] = maker]
             ELSE IF self
             THEN [position EXCEPT ![e.owner] = execute_perp_taker(maker, e)]
             ELSE [position EXCEPT ![e.owner] = maker,
                                   ![e.taker] = execute_perp_taker(@, e)]
        /\ oo' = [oo EXCEPT ![e.owner][e.slot] = SettleSlot(@, e)]
        /\ market' = [market EXCEPT !.open_interest = @ + Moved(e.owner) +
                        IF e.type = "Fill" /\ ~self THEN Moved(e.taker) ELSE 0]
        /\ events' = Tail(events)
  /\ UNCHANGED <<book, bump, now, oracle, call, sweep>>

\* Fault: open orders do not keep the position.
DeactivateWithOrders(a) ==
  /\ Idle
  /\ position[a].active /\ position[a].base = 0 /\ position[a].taker_base = 0
  /\ position' = [position EXCEPT ![a].active = FALSE]
  /\ UNCHANGED <<book, bump, events, oo, market, now, oracle, call, sweep>>
\* perp_deactivate_position; whether the quote position is zero is not known
\* here.
perp_deactivate_position(a) ==
  /\ Idle
  /\ position[a] = [ZeroPosition EXCEPT !.active = TRUE]
  /\ position' = [position EXCEPT ![a].active = FALSE]
  /\ UNCHANGED <<book, bump, events, oo, market, now, oracle, call, sweep>>

\* perp_edit_market may switch reduce-only on, and off with the group's admin.
perp_edit_market ==
  /\ Idle
  /\ \E mode \in ReduceOnlyModes \ {market.reduce_only} :
       market' = [market EXCEPT !.reduce_only = mode]
  /\ UNCHANGED <<book, bump, events, position, oo, now, oracle, call, sweep>>

Tick ==
  /\ Idle /\ now < MaxTime
  /\ now' = now + 1
  /\ UNCHANGED <<book, bump, events, position, oo, market, oracle, call, sweep>>

MoveOracle ==
  /\ Idle
  /\ oracle' \in OraclePrices \ {oracle}
  /\ UNCHANGED <<book, bump, events, position, oo, market, now, call, sweep>>

Next ==
  \/ \E a \in Accounts, o \in Requests : PlaceBegin(a, o)
  \/ PlaceStep
  \/ \E a \in Accounts, slot \in Slots : perp_cancel_order(a, slot)
  \/ \E a \in Accounts, sides \in {{"Bid"}, {"Ask"}, Sides},
        limit \in CancelLimits : CancelAllBegin(a, sides, limit)
  \/ CancelAllStep
  \/ perp_consume_events
  \/ \E a \in Accounts : perp_deactivate_position(a)
  \/ perp_edit_market
  \/ Tick
  \/ MoveOracle

Spec == Init /\ [][Next]_vars

-----------------------------------------------------------------------------
(* Properties *)

Call ==
  [account : Accounts \cup {NoAccount}, order : Requests \cup {<<>>},
   price : Nat, max_base : Nat, base : Nat, quote : Nat, limit : Nat,
   dropped : Nat, todo : SUBSET LeafNode, removed : SUBSET LeafNode,
   changed : SUBSET LeafNode, pushed : Seq(Event)]

\* Every component has its type; the lots still wanted by a placement and the
\* quantities of orders never go negative.
TypeOK ==
  /\ book \subseteq LeafNode
  /\ bump \in [Sides -> 0..MaxNodes]
  /\ events \in Seq(Event) /\ Len(events) <= MaxEvents
  /\ position \in [Accounts -> PerpPosition]
  /\ oo \in [Accounts -> [Slots -> PerpOpenOrder]]
  /\ market \in [seq_num : 0..MaxOrders, open_interest : Int,
                 reduce_only : BOOLEAN]
  /\ now \in 0..MaxTime
  /\ oracle \in OraclePrices
  /\ call \in Call
  /\ Placing =>
       /\ call.order \in Requests
       /\ call.price # 0 /\ call.base <= call.max_base /\ call.dropped <= DropLimit
       /\ call.todo \cup call.removed \subseteq book
  /\ sweep \in [account : Accounts \cup {NoAccount}, slots : SUBSET Slots,
                limit : Nat]

\* The event that ends the life of an order on its owner's account.
Closes(e, a, slot, id) ==
  e.maker_out /\ e.owner = a /\ e.slot = slot /\ e.order_id = id

\* Every order on the book is held by the slot its leaf names: events of earlier
\* orders in that slot never free it (execute_perp_maker and
\* execute_perp_out_event compare ids), so the require_eq in
\* cancel_order_by_slot cannot fail and every resting order can be cancelled.
BookSlotsAgree ==
  \A o \in book :
    LET s == oo[o.owner][o.slot]
    IN s.id = o.id /\ s.side = o.side /\ s.tree = o.tree

\* An open-order slot is never leaked: its order is on the book, or exactly one
\* event that frees the slot is on its way, and never both.
SlotsAreReleased ==
  \A a \in Accounts, slot \in Slots :
    is_active(oo[a][slot]) =>
      LET id == oo[a][slot].id
          onBook == \E o \in book : o.id = id
          closing == {i \in DOMAIN events : Closes(events[i], a, slot, id)}
      IN IF onBook THEN closing = {} ELSE \E i \in closing : closing = {i}

\* Orders B, events E, slots O and the last id n fit together: ids are unique,
\* an order and its slot name each other, no order on the book is closed by an
\* event, no order is closed twice, and a slot whose order is gone is about to
\* be freed.
Linked(B, E, O, n) ==
  /\ \A o \in B : o.id <= n /\ \A p \in B : o.id = p.id => o = p
  /\ \A o \in B :
       LET s == O[o.owner][o.slot]
       IN s.id = o.id /\ s.side = o.side /\ s.tree = o.tree
  /\ \A a \in Accounts, slot \in Slots :
       /\ O[a][slot].id <= n
       /\ \A o \in B : o.id = O[a][slot].id => o.owner = a /\ o.slot = slot
  /\ \A i \in DOMAIN E :
       /\ E[i].order_id <= n
       /\ E[i].maker_out => \A o \in B : o.id # E[i].order_id
       /\ E[i].maker_out => \A j \in DOMAIN E :
            E[j].maker_out /\ E[j].order_id = E[i].order_id => j = i
  /\ \A a \in Accounts, slot \in Slots :
       is_active(O[a][slot]) =>
         \/ \E o \in B : o.id = O[a][slot].id
         \/ \E i \in DOMAIN E : Closes(E[i], a, slot, O[a][slot].id)

\* During a placement the same holds of the book and the queue that it would
\* leave if it ended here; what it has not looked at yet is untouched, and it
\* touches only the opposing side.
PlacingInv ==
  /\ Linked(MatchedBook, events \o call.pushed, oo, market.seq_num)
  /\ call.todo \cap call.removed = {}
  /\ \A c \in call.changed :
       /\ \A o \in call.todo : c.id # o.id
       /\ \E o \in book : o.id = c.id /\ o.side = c.side
  /\ \A o \in call.todo \cup call.removed \cup call.changed :
       o.side = invert_side(call.order.side)
  /\ QueueHasRoom(0)
  /\ IsFiniteSet(call.changed)
  /\ market.seq_num < MaxOrders

\* The inductive invariant behind TypeOK, BookSlotsAgree and SlotsAreReleased.
\* That fixed prices are positive keeps the division by a price defined.
IndInv ==
  /\ TypeOK
  /\ IsFiniteSet(book)
  /\ \A o \in book \cup (IF Placing THEN call.changed ELSE {}) :
       o.tree = "Fixed" => o.price_data > 0
  /\ Linked(book, events, oo, market.seq_num)
  /\ Placing => PlacingInv /\ sweep.account = NoAccount
  /\ sweep.account # NoAccount => sweep.slots # {} /\ sweep.limit > 0

\* The quantity in a slot is what is left on the book plus what is in flight for
\* that order.  So it is positive: an order that is off the book can be
\* cancelled from its slot at once, and PerpOrderIdNotFound cannot happen.
SlotQuantities ==
  \A a \in Accounts, slot \in Slots :
    LET s == oo[a][slot]
        onBook == {o \in book : o.id = s.id}
        inFlight == {i \in DOMAIN events : events[i].order_id = s.id}
    IN is_active(s) =>
         s.quantity = MapThenSumSet(LAMBDA o : o.quantity, onBook)
                    + MapThenSumSet(LAMBDA i : events[i].quantity, inFlight)

\* bids_base_lots and asks_base_lots of an account are exactly its lots on the
\* book and the lots in events it owns, also after cancels that came before the
\* events of the same order.
MakerLots(a, side) ==
  MapThenSumSet(LAMBDA o : o.quantity,
                {o \in book : o.owner = a /\ o.side = side})
  + MapThenSumSet(LAMBDA i : events[i].quantity,
      {i \in DOMAIN events : events[i].owner = a /\ events[i].side = side})
MakerLotsTracked ==
  \A a \in Accounts : position[a].active =>
    /\ position[a].bids = MakerLots(a, "Bid")
    /\ position[a].asks = MakerLots(a, "Ask")

\* The taker lots of an account are exactly its unprocessed fills as taker.
TakerFills(a) ==
  {i \in DOMAIN events : events[i].type = "Fill" /\ events[i].taker = a}
TakerLotsTracked ==
  \A a \in Accounts : position[a].active =>
    /\ position[a].taker_base = MapThenSumSet(LAMBDA i :
         -Signed(events[i].side, events[i].quantity), TakerFills(a))
    /\ position[a].taker_quote = MapThenSumSet(LAMBDA i :
         Signed(events[i].side, events[i].quantity * events[i].price), TakerFills(a))

\* perp_deactivate_position never strands an order: the owner of every order on
\* the book, and of every event that settles one, keeps its position.
MakersHavePositions ==
  /\ \A o \in book : position[o.owner].active
  /\ \A i \in DOMAIN events : position[events[i].owner].active

\* Longs and shorts balance, and open_interest counts them all.
PositionsBalance ==
  /\ MapThenSumSet(LAMBDA a : position[a].base, Accounts) = 0
  /\ market.open_interest = MapThenSumSet(LAMBDA a : Abs(position[a].base), Accounts)

\* While the market is reduce-only, no step makes the largest position an account
\* can reach through its fills and open orders larger.
Reach(p) ==
  LET effective == effective_base_position_lots(p)
  IN Max({Abs(effective + p.bids), Abs(effective - p.asks)})
ReduceOnlyNeverGrows ==
  [][market.reduce_only /\ market'.reduce_only =>
       \A a \in Accounts : Reach(position'[a]) <= Reach(position[a])]_vars

\* A new order never rests across a valid opposing order.  The exception is an
\* ask whose remaining quote lots do not pay for one lot at the best bid: the
\* match loop stops there, and what they pay for at its own price is posted.
StoppedByQuote == \E o \in Opposing : Crossing(o) /\ MaxMatchByQuote(o) = 0
PostsDoNotCross ==
  [][\A o \in book' \ book, p \in book' :
       /\ o.id > market.seq_num
       /\ p.side # o.side /\ is_valid(p) /\ ~IsSkipped(p)
       /\ ~(o.side = "Ask" /\ StoppedByQuote)
       => ~is_price_within_limit(o.side, PriceOf(p), PriceOf(o))]_vars

\* "perp position still has events on event queue": a position that is
\* deactivated has none, so perp_consume_events never fails for want of it.
TakersHavePositions ==
  \A i \in DOMAIN events :
    events[i].type = "Fill" => position[events[i].taker].active

\* A slot whose order has left the book is freed by the queue, unless the queue
\* is blocked by a fill whose taker has deactivated its position.
SlotsFreed ==
  []TakersHavePositions =>
    \A a \in Accounts, slot \in Slots, id \in 1..MaxOrders :
      (oo[a][slot].id = id /\ \A o \in book : o.id # id) ~> oo[a][slot].id # id

\* Instructions run to their end, and a keeper that keeps sending
\* perp_consume_events gets the locks between other instructions.
FairSpec ==
  Spec /\ WF_vars(PlaceStep) /\ WF_vars(CancelAllStep)
       /\ SF_vars(perp_consume_events)

-----------------------------------------------------------------------------
(* What comments in the code say and the code does not do. *)

\* "This takes into account base lots from unprocessed events": the effective
\* position is the one all events on the queue lead to.
MakerFills(a) ==
  {i \in DOMAIN events : events[i].type = "Fill" /\ events[i].owner = a}
EffectivePositionCountsEvents ==
  \A a \in Accounts : position[a].active =>
    effective_base_position_lots(position[a]) = position[a].base
      + MapThenSumSet(LAMBDA i : Signed(events[i].side, events[i].quantity),
                      MakerFills(a))
      + MapThenSumSet(LAMBDA i : -Signed(events[i].side, events[i].quantity),
                      TakerFills(a))

\* "Ignore price and take orders up to max_base_quantity and
\* max_quote_quantity": a market order stops only when its quantities or its
\* limit are used up, or nothing it can pay for is left.
MarketOrdersTake ==
  (LoopOver /\ call.order.place_type = "Market" /\ call.base > 0 /\ call.limit > 0)
    => \A o \in call.todo : is_valid(o) => call.quote < PriceOf(o)

\* "If this bid is higher than lowest bid, boot that bid and insert this one": a
\* full side always has room for an order at a better price.
FullSideMakesRoom ==
  LET side == call.order.side
      own == BookSide(side)
  IN /\ LoopOver /\ Posts
     /\ Droppable(own, TargetTree(call.order)) = {}
     /\ is_full(side, own)
     /\ NextOrderSlots(call.account) # {}
     => \A w \in Worst(own) : is_price_better(side, call.price, PriceOf(w)) =>
          UsedNodes((own \ {w}) \cup {NewLeaf(0)}) <= MaxNodes
=============================================================================
