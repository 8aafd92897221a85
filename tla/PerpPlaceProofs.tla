-------------------------- MODULE PerpPlaceProofs ---------------------------
(* The beginning and the end of perp_place_order keep the invariant of       *)
(* PerpOrders.                                                               *)
EXTENDS PerpMatchProofs

-----------------------------------------------------------------------------
(* Beginning and ending a placement *)

\* ensure_perp_position returns a position, an old or a new one.
LEMMA EnsureType ==
  ASSUME NEW p \in PerpPosition
  PROVE  ensure_perp_position(p) \in PerpPosition
<1>1. ZeroPosition \in PerpPosition
  BY DEF ZeroPosition, PerpPosition
<1>2. [ZeroPosition EXCEPT !.active = TRUE] \in PerpPosition
  BY <1>1, Zenon DEF PerpPosition
<1> QED
  BY <1>2 DEF ensure_perp_position

\* The reduce-only limit is a number of lots, also when open orders exceed the
\* position.
LEMMA ReduceOnlyType ==
  ASSUME NEW p \in PerpPosition, NEW o \in Requests
  PROVE  reduce_only_max_base_lots(p, o) \in Nat
<1> DEFINE effective == effective_base_position_lots(p)
           incl_open == IF o.side = "Bid" THEN -(effective + p.bids)
                                          ELSE effective - p.asks
           allowed == IF Signed(o.side, effective) >= 0 THEN 0
                      ELSE IF market.reduce_only THEN Max({0, incl_open})
                      ELSE Abs(effective)
<1>1. effective \in Int /\ incl_open \in Int
  BY DEF effective_base_position_lots, PerpPosition
<1>2. Max({0, incl_open}) \in Nat
  <2>1. Max({0, incl_open}) \in {0, incl_open} /\ Max({0, incl_open}) >= 0
    BY <1>1, 0 \in Int, MinMaxPair, Zenon
  <2> QED
    BY <1>1, <2>1
<1>3. allowed \in Nat
  BY <1>1, <1>2 DEF Abs
<1>4. Min({allowed, o.max_base_lots}) \in {allowed, o.max_base_lots}
  <2>1. allowed \in Int /\ o.max_base_lots \in Int
    BY <1>3, RequestFacts
  <2> QED
    BY <2>1, MinMaxPair, Zenon
<1> QED
  BY <1>3, <1>4, RequestFacts DEF reduce_only_max_base_lots

\* Order::price is a whole number of lots.
LEMMA OrderPriceType ==
  ASSUME IndInv, NEW o \in Requests
  PROVE  OrderPrice(o) \in Int
<1> DEFINE limit == IF o.pegged THEN oracle + o.price ELSE o.price
           others == best_price(invert_side(o.side))
<1>1. oracle \in Nat /\ MaxPrice \in Nat
  BY PerpOrdersAssumption DEF IndInv, TypeOK, PerpOrdersAssumption
<1>2. limit \in Int
  BY <1>1, RequestFacts
<1>3. others \subseteq Int
  <2>1. \A p \in book : PriceOf(p) \in Int
    BY PriceFacts DEF IndInv, TypeOK
  <2> QED
    BY <2>1 DEF best_price, Best, BookSide
<1>4. others # {} => (CHOOSE p \in others : TRUE) \in Int
  BY <1>3
<1>5. \A q \in Int : post_only_slide_limit(o.side, q, limit) \in Int
  <2> SUFFICES ASSUME NEW q \in Int
               PROVE  post_only_slide_limit(o.side, q, limit) \in Int
    OBVIOUS
  <2>1. q - 1 \in Int /\ q + 1 \in Int
    OBVIOUS
  <2> HIDE DEF limit
  <2>2. Min({limit, q - 1}) \in {limit, q - 1} /\ Max({limit, q + 1}) \in {limit, q + 1}
    BY <1>2, <2>1, MinMaxPair, Zenon
  <2> QED
    BY <1>2, <2>1, <2>2 DEF post_only_slide_limit
<1> QED
  BY <1>1, <1>2, <1>4, <1>5 DEF OrderPrice, market_order_limit_for_side

\* PlaceBegin: nothing is collected yet, so book and queue are as they were.
LEMMA BeginInv ==
  ASSUME IndInv, NEW a \in Accounts, NEW o \in Requests, PlaceBegin(a, o)
  PROVE  IndInv'
<1> DEFINE p == ensure_perp_position(position[a])
           max_base == IF o.reduce_only \/ market.reduce_only
                       THEN reduce_only_max_base_lots(p, o) ELSE o.max_base_lots
           todo == {n \in BookSide(invert_side(o.side)) : ~IsSkipped(n)}
           next == [account |-> a, order |-> o, price |-> OrderPrice(o),
                    max_base |-> max_base, base |-> max_base,
                    quote |-> o.max_quote_lots, limit |-> o.limit, dropped |-> 0,
                    todo |-> todo, removed |-> {}, changed |-> {}, pushed |-> <<>>]
<1>1. /\ Idle /\ market.seq_num < MaxOrders /\ OrderPrice(o) >= 1 /\ call' = next
      /\ UNCHANGED <<book, bump, events, position, oo, market, now, oracle, sweep>>
  BY Zenon DEF PlaceBegin, NoCall
<1>2. /\ book \in SUBSET LeafNode /\ events \in Seq(Event) /\ Len(events) <= MaxEvents
      /\ position[a] \in PerpPosition /\ DropLimit \in Nat
  BY PerpOrdersAssumption, Zenon DEF IndInv, TypeOK, PerpOrdersAssumption
<1>3. p \in PerpPosition
  BY <1>2, EnsureType
<1>4. max_base \in Nat
  BY <1>3, ReduceOnlyType, RequestFacts
<1>5. todo \in SUBSET book /\ todo \in SUBSET LeafNode
      /\ \A n \in todo : n.side = invert_side(o.side)
  BY <1>2 DEF BookSide
<1>6. OrderPrice(o) \in Nat /\ OrderPrice(o) # 0
  BY <1>1, OrderPriceType
<1> HIDE DEF max_base, todo, p
<1>7. /\ call' \in Call /\ call'.account # NoAccount
      /\ call'.order = o /\ call'.price # 0 /\ call'.base = call'.max_base
      /\ call'.base \in Nat /\ call'.dropped = 0 /\ call'.todo = todo
      /\ call'.removed = {} /\ call'.changed = {} /\ call'.pushed = <<>>
  BY <1>1, <1>4, <1>5, <1>6, RequestFacts, PerpOrdersAssumption
  DEF Call, PerpOrdersAssumption
<1> HIDE DEF next
<1>8. TypeOK'
  <2>1. /\ call'.order \in Requests /\ call'.base <= call'.max_base
        /\ call'.dropped <= DropLimit /\ call'.todo \cup call'.removed \subseteq book'
    BY <1>1, <1>2, <1>5, <1>7
  <2> QED
    BY <1>1, <1>7, <2>1, Zenon DEF IndInv, TypeOK
<1>9. MatchedBook' = book /\ (events \o call.pushed)' = events
  BY <1>1, <1>2, <1>7 DEF MatchedBook
<1>10. PlacingInv'
  <2>1. Linked(MatchedBook, events \o call.pushed, oo, market.seq_num)'
    BY <1>1, <1>9 DEF IndInv
  <2>2. QueueHasRoom(0)'
    BY <1>1, <1>2, <1>7, PerpOrdersAssumption DEF QueueHasRoom, PerpOrdersAssumption
  <2>3. IsFiniteSet(call.changed)'
    BY <1>7, FS_EmptySet
  <2> QED
    BY <1>1, <1>5, <1>7, <2>1, <2>2, <2>3 DEF PlacingInv
<1> QED
  BY <1>1, <1>7, <1>8, <1>10, Zenon DEF IndInv, Idle, Placing

\* The trees of a side use a natural number of nodes.
LEMMA UsedNodesType ==
  ASSUME NEW S, IsFiniteSet(S)
  PROVE  UsedNodes(S) \in Nat
<1>1. ASSUME NEW tree PROVE TreeNodes(S, tree) \in Nat
  <2> DEFINE T == {o \in S : o.tree = tree}
  <2>1. IsFiniteSet(T)
    BY FS_Subset
  <2>2. Cardinality(T) \in Nat
    BY <2>1, FS_CardinalityType
  <2> QED
    BY <2>2 DEF TreeNodes
<1> QED
  BY <1>1 DEF UsedNodes

\* What a placement leaves if it ends here: the fields that both endings share.
LEMMA EndTypes ==
  ASSUME IndInv, Placing
  PROVE  /\ IsFiniteSet(MatchedBook)
         /\ \A o \in MatchedBook : o.tree = "Fixed" => o.price_data > 0
         /\ TakerPosition \in PerpPosition
         /\ Len(events \o call.pushed) <= MaxEvents
         /\ call.base \in Nat /\ call.quote \in Nat /\ call.price \in Nat \ {0}
         /\ NoCall \in Call /\ NoCall.account = NoAccount
         /\ [market EXCEPT !.seq_num = @ + 1] \in
              [seq_num : 0..MaxOrders, open_interest : Int, reduce_only : BOOLEAN]
<1>1. MatchedBook \subseteq book \cup call.changed
  BY DEF MatchedBook
<1>2. IsFiniteSet(MatchedBook)
  BY <1>1, PlacingTypes, FS_Union, FS_Subset, Zenon DEF IndInv, PlacingInv
<1>3. \A o \in MatchedBook : o.tree = "Fixed" => o.price_data > 0
  BY <1>1 DEF IndInv
<1>4. /\ call.base \in Nat /\ call.quote \in Nat /\ call.max_base \in Nat
      /\ call.price \in Nat \ {0}
  BY DEF IndInv, TypeOK, Call
<1>5. TakerPosition \in PerpPosition
  <2>1. position[call.account] \in PerpPosition
    BY PlacingTypes, Zenon DEF IndInv, TypeOK
  <2>2. ensure_perp_position(position[call.account]) \in PerpPosition
    BY <2>1, EnsureType
  <2>3. /\ call.max_base - call.base \in Int
        /\ call.order.max_quote_lots - call.quote \in Int
    BY <1>4, PlacingTypes, RequestFacts
  <2> QED
    BY <2>2, <2>3, PlacingTypes, PositionTypes, Zenon DEF TakerPosition
<1>6. Len(events \o call.pushed) <= MaxEvents
  BY PlacingTypes, PerpOrdersAssumption DEF PlacingInv, QueueHasRoom, PerpOrdersAssumption
<1>7. NoCall \in Call /\ NoCall.account = NoAccount
  BY DEF NoCall, Call
<1>8. [market EXCEPT !.seq_num = @ + 1] \in
        [seq_num : 0..MaxOrders, open_interest : Int, reduce_only : BOOLEAN]
  <2>1. market \in [seq_num : 0..MaxOrders, open_interest : Int, reduce_only : BOOLEAN]
    BY DEF IndInv, TypeOK
  <2>2. market.seq_num + 1 \in 0..MaxOrders
    BY <2>1, PlacingTypes, PerpOrdersAssumption DEF PlacingInv, PerpOrdersAssumption
  <2> QED
    BY <2>1, <2>2
<1> QED
  BY <1>2, <1>3, <1>4, <1>5, <1>6, <1>7, <1>8

\* PlaceWithoutPost leaves the matched book and queue, and uses up an id.
LEMMA WithoutPostInv == ASSUME IndInv, PlaceWithoutPost PROVE IndInv'
<1>1. /\ Placing /\ book' = MatchedBook /\ events' = events \o call.pushed
      /\ position' = [position EXCEPT ![call.account] = TakerPosition]
      /\ market' = [market EXCEPT !.seq_num = @ + 1] /\ call' = NoCall
      /\ UNCHANGED <<bump, oo, now, oracle, sweep>>
  BY DEF PlaceWithoutPost, LoopOver
<1>2. ~Placing'
  BY <1>1, EndTypes DEF Placing
<1>3. position' \in [Accounts -> PerpPosition]
  BY <1>1, EndTypes, PlacingTypes DEF IndInv, TypeOK
<1>4. TypeOK'
  BY <1>1, <1>2, <1>3, EndTypes, PlacingTypes, Zenon DEF IndInv, TypeOK
<1>5. Linked(book, events, oo, market.seq_num)'
  <2>1. market'.seq_num = market.seq_num + 1
    BY <1>1 DEF IndInv, TypeOK
  <2>2. Linked(MatchedBook, events \o call.pushed, oo, market.seq_num + 1)
    BY <1>1, PlacingTypes, SkipLinked, Zenon DEF PlacingInv
  <2> QED
    BY <1>1, <2>1, <2>2
<1> QED
  BY <1>1, <1>2, <1>4, <1>5, EndTypes DEF IndInv

\* At most one order leaves the book with its out event.
LEMMA OutLinked ==
  ASSUME NEW B \in SUBSET LeafNode, NEW E \in Seq(Event), NEW O \in OpenOrders,
         NEW n \in Nat, Linked(B, E, O, n),
         NEW S \in SUBSET B, S = {} \/ \E o \in B : S = {o}
  PROVE  /\ OutEvents(S) \in Seq(Event)
         /\ Linked(B \ S, E \o OutEvents(S), O, n)
<1>1. CASE S = {}
  <2>1. OutEvents(S) = <<>> /\ B \ S = B /\ E \o <<>> = E /\ <<>> \in Seq(Event)
    BY <1>1 DEF OutEvents
  <2> QED
    BY <2>1, Zenon
<1>2. CASE S # {}
  <2>1. PICK o \in B : S = {o}
    BY <1>2
  <2>2. OutEvents(S) = <<OutEvent(o)>>
    BY <2>1 DEF OutEvents
  <2>3. OutEvent(o) \in Event /\ Closes(OutEvent(o), o.owner, o.slot, o.id)
    BY EventTypes
  <2>4. E \o <<OutEvent(o)>> = Append(E, OutEvent(o)) /\ <<OutEvent(o)>> \in Seq(Event)
    BY <2>3
  <2>5. Linked(B \ {o}, Append(E, OutEvent(o)), O, n)
    BY <2>3, CloseLinked
  <2> QED
    BY <2>1, <2>2, <2>4, <2>5, Zenon
<1> QED
  BY <1>1, <1>2

\* The own side of the book is not touched by matching.
LEMMA OwnSide ==
  ASSUME IndInv, Placing
  PROVE  BookSide(call.order.side) \subseteq MatchedBook
<1> SUFFICES ASSUME NEW o \in book, o.side = call.order.side
             PROVE  o \in MatchedBook
  BY DEF BookSide
<1>1. o.side # invert_side(call.order.side)
  BY PlacingTypes DEF invert_side, Sides
<1>2. o \notin call.removed
  BY <1>1, PlacingTypes DEF PlacingInv
<1>3. \A c \in call.changed : c.id # o.id
  <2> SUFFICES ASSUME NEW c \in call.changed, c.id = o.id PROVE FALSE
    OBVIOUS
  <2>1. PICK p \in book : p.id = c.id /\ p.side = c.side
    BY PlacingTypes DEF PlacingInv
  <2>2. p = o /\ c.side = invert_side(call.order.side)
    BY <2>1, PlacingTypes DEF PlacingInv
  <2> QED
    BY <1>1, <2>1, <2>2
<1> QED
  BY <1>2, <1>3 DEF MatchedBook

\* The leaf that is posted is a leaf node with the next id.
LEMMA NewLeafType ==
  ASSUME IndInv, Placing, BookBaseQuantity > 0, NEW slot \in Slots
  PROVE  /\ NewLeaf(slot) \in LeafNode /\ NewLeaf(slot).id = market.seq_num + 1
         /\ NewLeaf(slot).owner = call.account /\ NewLeaf(slot).slot = slot
         /\ NewLeaf(slot).side = call.order.side
         /\ NewLeaf(slot).tree = "Fixed" => NewLeaf(slot).price_data > 0
<1>1. /\ call.order \in Requests /\ market.seq_num \in Nat /\ call.account \in Accounts
      /\ call.base \in Nat /\ call.quote \in Nat /\ call.price \in Nat \ {0}
  BY PlacingTypes, EndTypes
<1>2. /\ oracle \in Nat /\ now \in Nat /\ MaxTif \in Nat /\ MaxTime \in Nat
  BY PerpOrdersAssumption DEF IndInv, TypeOK, PerpOrdersAssumption
<1>3. BookBaseQuantity \in Nat \ {0}
  <2>1. call.quote \div call.price \in Nat
    BY <1>1
  <2>2. call.base \in Int /\ call.quote \div call.price \in Int
    BY <1>1, <2>1
  <2>3. Min({call.base, call.quote \div call.price}) \in
          {call.base, call.quote \div call.price}
    BY <2>2, MinMaxPair, Zenon
  <2> QED
    BY <1>1, <2>1, <2>3 DEF BookBaseQuantity
<1>4. OrderExpiry(call.order) \in Nat
  <2> DEFINE x == call.order.expiry
  <2>1. x \in Nat /\ now + MaxTif \in Nat
    BY <1>1, <1>2, RequestFacts
  <2>2. x \in Int /\ MaxTif \in Int /\ now + MaxTif \in Int
    BY <1>2, <2>1
  <2> HIDE DEF x
  <2>3. Min({x, MaxTif}) \in {x, MaxTif} /\ Min({x, now + MaxTif}) \in {x, now + MaxTif}
    BY <2>2, MinMaxPair, Zenon
  <2>4. now + Min({x, MaxTif}) \in Nat /\ Min({x, now + MaxTif}) \in Nat /\ Never \in Nat
    BY <1>2, <2>1, <2>3 DEF Never
  <2> QED
    BY <2>4 DEF OrderExpiry, x
<1>5. /\ call.order.side \in Sides /\ call.order.peg_limit \in Int
      /\ call.order.pegged \in BOOLEAN
  BY <1>1, RequestFacts
<1> DEFINE price_data == IF call.order.pegged THEN call.price - oracle ELSE call.price
           peg_limit == IF call.order.pegged THEN call.order.peg_limit ELSE NoPegLimit
<1>6. /\ TargetTree(call.order) \in Trees /\ price_data \in Int /\ peg_limit \in Int
      /\ TargetTree(call.order) = "Fixed" => price_data > 0
  BY <1>1, <1>2, <1>5 DEF TargetTree, Trees, NoPegLimit
<1>7. NewLeaf(slot) =
        [id |-> market.seq_num + 1, side |-> call.order.side,
         tree |-> TargetTree(call.order), owner |-> call.account, slot |-> slot,
         price_data |-> price_data, peg_limit |-> peg_limit,
         quantity |-> BookBaseQuantity, expiry |-> OrderExpiry(call.order)]
  BY DEF NewLeaf
<1>8. market.seq_num + 1 \in Nat \ {0}
  BY <1>1
<1> HIDE DEF price_data, peg_limit
<1> QED
  BY <1>1, <1>3, <1>4, <1>5, <1>6, <1>7, <1>8 DEF LeafNode

\* PlaceAndPost: an expired order and the worst one leave with their events, and
\* the new order takes a free slot.
LEMMA AndPostInv == ASSUME IndInv, PlaceAndPost PROVE IndInv'
<1> DEFINE side == call.order.side
           own == BookSide(side)
<1>1. /\ Placing /\ Posts /\ call' = NoCall
      /\ market' = [market EXCEPT !.seq_num = @ + 1]
      /\ UNCHANGED <<now, oracle, sweep>>
  BY DEF PlaceAndPost, LoopOver
<1>2. PICK dropped \in AtMostOne(Droppable(own, TargetTree(call.order))) :
        \E evicted \in IF is_full(side, own \ dropped)
                       THEN {{o} : o \in Worst(own \ dropped)} ELSE {{}} :
        \E slot \in NextOrderSlots(call.account) :
          LET leaf == NewLeaf(slot)
              outs == OutEvents(dropped) \o OutEvents(evicted)
              used == UsedNodes((own \ (dropped \cup evicted)) \cup {leaf})
          IN /\ QueueHasRoom(Len(outs))
             /\ used <= MaxNodes
             /\ book' = (MatchedBook \ (dropped \cup evicted)) \cup {leaf}
             /\ bump' = [bump EXCEPT ![side] = Max({@, used})]
             /\ events' = (events \o call.pushed) \o outs
             /\ position' = [position EXCEPT ![call.account] =
                  adjust_maker_lots(TakerPosition, side, leaf.quantity)]
             /\ oo' = [oo EXCEPT ![call.account][slot] = OpenOrder(leaf)]
  BY Zenon DEF PlaceAndPost
<1>3. PICK evicted \in IF is_full(side, own \ dropped)
                       THEN {{o} : o \in Worst(own \ dropped)} ELSE {{}} :
        \E slot \in NextOrderSlots(call.account) :
          LET leaf == NewLeaf(slot)
              outs == OutEvents(dropped) \o OutEvents(evicted)
              used == UsedNodes((own \ (dropped \cup evicted)) \cup {leaf})
          IN /\ QueueHasRoom(Len(outs))
             /\ used <= MaxNodes
             /\ book' = (MatchedBook \ (dropped \cup evicted)) \cup {leaf}
             /\ bump' = [bump EXCEPT ![side] = Max({@, used})]
             /\ events' = (events \o call.pushed) \o outs
             /\ position' = [position EXCEPT ![call.account] =
                  adjust_maker_lots(TakerPosition, side, leaf.quantity)]
             /\ oo' = [oo EXCEPT ![call.account][slot] = OpenOrder(leaf)]
  BY <1>2, Zenon
<1> DEFINE outs == OutEvents(dropped) \o OutEvents(evicted)
           rest == MatchedBook \ (dropped \cup evicted)
<1>4. PICK slot \in NextOrderSlots(call.account) :
          LET leaf == NewLeaf(slot)
              used == UsedNodes((own \ (dropped \cup evicted)) \cup {leaf})
          IN /\ QueueHasRoom(Len(outs))
             /\ used <= MaxNodes
             /\ book' = rest \cup {leaf}
             /\ bump' = [bump EXCEPT ![side] = Max({@, used})]
             /\ events' = (events \o call.pushed) \o outs
             /\ position' = [position EXCEPT ![call.account] =
                  adjust_maker_lots(TakerPosition, side, leaf.quantity)]
             /\ oo' = [oo EXCEPT ![call.account][slot] = OpenOrder(leaf)]
  BY <1>3, Zenon
<1> DEFINE leaf == NewLeaf(slot)
           used == UsedNodes((own \ (dropped \cup evicted)) \cup {leaf})
<1>5. slot \in Slots /\ ~is_active(oo[call.account][slot])
  BY DEF NextOrderSlots, IsFree
<1>6. /\ leaf \in LeafNode /\ leaf.id = market.seq_num + 1
      /\ leaf.owner = call.account /\ leaf.slot = slot
      /\ leaf.tree = "Fixed" => leaf.price_data > 0
  BY <1>1, <1>5, NewLeafType DEF Posts
<1>7. /\ dropped \in SUBSET MatchedBook
      /\ dropped = {} \/ \E o \in MatchedBook : dropped = {o}
  <2>1. Droppable(own, TargetTree(call.order)) \subseteq MatchedBook
    BY <1>1, OwnSide DEF Droppable, ExpiredIn
  <2> QED
    BY <1>2, <2>1 DEF AtMostOne
<1>8. /\ evicted \in SUBSET (MatchedBook \ dropped)
      /\ evicted = {} \/ \E o \in MatchedBook \ dropped : evicted = {o}
  <2>1. Worst(own \ dropped) \subseteq MatchedBook \ dropped
    BY <1>1, OwnSide DEF Worst
  <2>2. CASE is_full(side, own \ dropped)
    <3>1. PICK o \in Worst(own \ dropped) : evicted = {o}
      BY <2>2
    <3> QED
      BY <2>1, <3>1
  <2>3. CASE ~is_full(side, own \ dropped)
    BY <2>3
  <2> QED
    BY <2>2, <2>3
<1> DEFINE E == events \o call.pushed
           n == market.seq_num
<1>9. /\ E \in Seq(Event) /\ Linked(MatchedBook, E, oo, n) /\ oo \in OpenOrders
      /\ n \in Nat /\ MatchedBook \in SUBSET LeafNode
  BY <1>1, PlacingTypes DEF PlacingInv
<1> HIDE DEF E, n
<1>10. OutEvents(dropped) \in Seq(Event)
       /\ Linked(MatchedBook \ dropped, E \o OutEvents(dropped), oo, n)
  BY <1>7, <1>9, OutLinked, Zenon
<1>11. OutEvents(evicted) \in Seq(Event)
       /\ Linked((MatchedBook \ dropped) \ evicted,
                 (E \o OutEvents(dropped)) \o OutEvents(evicted), oo, n)
  <2>1. MatchedBook \ dropped \in SUBSET LeafNode /\ E \o OutEvents(dropped) \in Seq(Event)
    BY <1>9, <1>10
  <2> QED
    BY <1>8, <1>9, <1>10, <2>1, OutLinked, Zenon
<1>12. /\ (E \o OutEvents(dropped)) \o OutEvents(evicted) = E \o outs
       /\ outs \in Seq(Event) /\ E \o outs \in Seq(Event)
       /\ (MatchedBook \ dropped) \ evicted = rest /\ rest \in SUBSET LeafNode
  BY <1>9, <1>10, <1>11
<1> HIDE DEF outs, rest, leaf, used
<1>13. Linked(book, events, oo, market.seq_num)'
  <2>1. market'.seq_num = n + 1
    BY <1>1 DEF IndInv, TypeOK, n
  <2>2. Linked(rest, E \o outs, oo, n)
    BY <1>11, <1>12, Zenon
  <2>3. leaf.id = n + 1 /\ ~is_active(oo[leaf.owner][leaf.slot])
    BY <1>5, <1>6 DEF n
  <2>4. Linked(rest \cup {leaf}, E \o outs,
               [oo EXCEPT ![leaf.owner][leaf.slot] = OpenOrder(leaf)], n + 1)
    BY <1>6, <1>9, <1>12, <2>2, <2>3, PostLinked, Zenon
  <2>5. /\ book' = rest \cup {leaf} /\ events' = E \o outs
        /\ oo' = [oo EXCEPT ![leaf.owner][leaf.slot] = OpenOrder(leaf)]
    BY <1>4, <1>6 DEF E, leaf
  <2> QED
    BY <2>1, <2>4, <2>5
<1>14. IsFiniteSet(rest) /\ IsFiniteSet(rest \cup {leaf})
  <2>1. IsFiniteSet(rest)
    BY <1>1, EndTypes, FS_Subset DEF rest
  <2> QED
    BY <2>1, FS_AddElement
<1>15. bump' \in [Sides -> 0..MaxNodes]
  <2>1. IsFiniteSet((own \ (dropped \cup evicted)) \cup {leaf})
    <3>1. own \ (dropped \cup evicted) \subseteq book
      BY DEF BookSide
    <3>2. IsFiniteSet(own \ (dropped \cup evicted))
      BY <3>1, FS_Subset, Zenon DEF IndInv
    <3> QED
      BY <3>2, FS_AddElement
  <2>2. used \in Nat
    BY <2>1, UsedNodesType DEF used
  <2>3. used <= MaxNodes /\ bump' = [bump EXCEPT ![side] = Max({bump[side], used})]
    BY <1>4 DEF used, leaf
  <2>4. bump \in [Sides -> 0..MaxNodes] /\ side \in Sides /\ MaxNodes \in Nat
    BY <1>1, PlacingTypes, PerpOrdersAssumption, Zenon
    DEF IndInv, TypeOK, PerpOrdersAssumption
  <2>5. bump[side] \in 0..MaxNodes /\ bump[side] \in Int /\ used \in Int
    BY <2>2, <2>4
  <2>6. Max({bump[side], used}) \in {bump[side], used}
    BY <2>5, MinMaxPair, Zenon
  <2>7. Max({bump[side], used}) \in 0..MaxNodes
    BY <2>2, <2>3, <2>4, <2>5, <2>6
  <2> QED
    BY <2>3, <2>4, <2>7
<1>16. position' \in [Accounts -> PerpPosition]
  <2>1. leaf.quantity \in Int /\ side \in Sides
    BY <1>1, <1>6, PlacingTypes DEF LeafNode
  <2>2. adjust_maker_lots(TakerPosition, side, leaf.quantity) \in PerpPosition
    BY <1>1, <2>1, EndTypes, PositionTypes, Zenon
  <2>3. position' = [position EXCEPT ![call.account] =
                       adjust_maker_lots(TakerPosition, side, leaf.quantity)]
    BY <1>4 DEF leaf
  <2> QED
    BY <2>2, <2>3, Zenon DEF IndInv, TypeOK
<1>17. oo' \in [Accounts -> [Slots -> PerpOpenOrder]]
  <2>1. OpenOrder(leaf) \in PerpOpenOrder
    BY <1>6 DEF OpenOrder, PerpOpenOrder, LeafNode
  <2>2. oo' = [oo EXCEPT ![call.account][slot] = OpenOrder(leaf)]
    BY <1>4 DEF leaf
  <2> QED
    BY <1>9, <2>1, <2>2, Zenon DEF OpenOrders
<1>18. events' \in Seq(Event) /\ Len(events') <= MaxEvents
  <2>1. events' = E \o outs /\ QueueHasRoom(Len(outs))
    BY <1>4 DEF E
  <2>2. Len(E) = Len(events) + Len(call.pushed)
    BY <1>1, PlacingTypes DEF E
  <2>3. Len(E \o outs) = Len(E) + Len(outs)
    BY <1>9, <1>12
  <2> QED
    BY <1>12, <2>1, <2>2, <2>3 DEF QueueHasRoom
<1>19. book' = rest \cup {leaf} /\ book' \subseteq LeafNode
       /\ \A o \in book' : o.tree = "Fixed" => o.price_data > 0
  <2>1. book' = rest \cup {leaf}
    BY <1>4 DEF leaf
  <2> QED
    BY <1>1, <1>6, <1>12, <2>1, EndTypes DEF rest
<1>20. ~Placing'
  BY <1>1, EndTypes DEF Placing
<1>21. TypeOK'
  BY <1>1, <1>15, <1>16, <1>17, <1>18, <1>19, <1>20, EndTypes DEF IndInv, TypeOK
<1> QED
  BY <1>1, <1>13, <1>14, <1>19, <1>20, <1>21 DEF IndInv
=============================================================================
