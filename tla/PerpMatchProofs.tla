-------------------------- MODULE PerpMatchProofs ---------------------------
(* Every iteration of the match loop of perp_place_order keeps the invariant *)
(* of PerpOrders.                                                            *)
EXTENDS PerpLinksProofs

-----------------------------------------------------------------------------
(* The match loop *)

\* The types of what a placement has collected so far.
LEMMA PlacingTypes ==
  ASSUME IndInv, Placing
  PROVE  /\ PlacingInv /\ call \in Call /\ call.account \in Accounts
         /\ call.order \in Requests /\ call.order.side \in Sides
         /\ call.todo \subseteq book /\ call.removed \subseteq book
         /\ book \in SUBSET LeafNode /\ call.changed \in SUBSET LeafNode
         /\ MatchedBook \in SUBSET LeafNode
         /\ events \in Seq(Event) /\ call.pushed \in Seq(Event)
         /\ events \o call.pushed \in Seq(Event)
         /\ oo \in OpenOrders /\ market.seq_num \in Nat
         /\ \A o, p \in book : o.id = p.id => o = p
<1>1. /\ PlacingInv /\ call \in Call /\ call.order \in Requests
      /\ call.todo \subseteq book /\ call.removed \subseteq book
      /\ book \in SUBSET LeafNode /\ events \in Seq(Event) /\ oo \in OpenOrders
  BY DEF IndInv, TypeOK, OpenOrders
<1>2. /\ call.account \in Accounts /\ call.changed \in SUBSET LeafNode
      /\ call.pushed \in Seq(Event)
  BY <1>1 DEF Call, Placing
<1>3. market.seq_num \in Nat
  BY PerpOrdersAssumption DEF IndInv, TypeOK, PerpOrdersAssumption
<1>4. MatchedBook \in SUBSET LeafNode
  BY <1>1, <1>2 DEF MatchedBook
<1>5. \A o, p \in book : o.id = p.id => o = p
  BY DEF IndInv, Linked
<1>6. events \o call.pushed \in Seq(Event)
  BY <1>1, <1>2
<1> QED
  BY <1>1, <1>2, <1>3, <1>4, <1>5, <1>6, RequestFacts

\* An iteration that takes the order o off the opposing side.
LEMMA RemoveStep ==
  ASSUME IndInv, Placing, NEW o \in call.todo,
         NEW e \in Event, Closes(e, o.owner, o.slot, o.id), QueueHasRoom(1),
         UNCHANGED <<book, events, oo, market>>,
         call'.todo = call.todo \ {o}, call'.removed = call.removed \cup {o},
         call'.changed = call.changed, call'.pushed = Append(call.pushed, e),
         call'.order = call.order
  PROVE  PlacingInv'
<1>1. PlacingInv /\ o \in book /\ o \notin call.removed
      /\ \A c \in call.changed : c.id # o.id
  BY PlacingTypes DEF PlacingInv
<1>2. o \in MatchedBook /\ MatchedBook' = MatchedBook \ {o}
  BY <1>1, PlacingTypes DEF MatchedBook
<1>3. (events \o call.pushed)' = Append(events \o call.pushed, e)
  <2>1. events \in Seq(Event) /\ call.pushed \in Seq(Event)
    BY PlacingTypes
  <2>2. events \o Append(call.pushed, e) = Append(events \o call.pushed, e)
    BY <2>1, PushLast, Zenon
  <2> QED
    BY <2>2, Zenon
<1>4. Linked(MatchedBook, events \o call.pushed, oo, market.seq_num)'
  <2>1. Linked(MatchedBook \ {o}, Append(events \o call.pushed, e), oo, market.seq_num)
    BY <1>1, <1>2, PlacingTypes, CloseLinked, Zenon DEF PlacingInv
  <2> QED
    BY <1>2, <1>3, <2>1
<1>5. QueueHasRoom(0)'
  BY PlacingTypes, PerpOrdersAssumption DEF QueueHasRoom, PerpOrdersAssumption
<1>6. (call.todo \cap call.removed = {})'
  BY <1>1 DEF PlacingInv
<1> QED
  BY <1>1, <1>4, <1>5, <1>6 DEF PlacingInv

\* An iteration that fills the order o in part and leaves c of it.
LEMMA ReduceStep ==
  ASSUME IndInv, Placing, NEW o \in call.todo, NEW c \in LeafNode,
         c.id = o.id, c.side = o.side, c.tree = o.tree, c.owner = o.owner,
         c.slot = o.slot,
         NEW e \in Event, ~e.maker_out, e.order_id = o.id, QueueHasRoom(1),
         UNCHANGED <<book, events, oo, market>>,
         call'.todo = call.todo \ {o}, call'.removed = call.removed,
         call'.changed = call.changed \cup {c},
         call'.pushed = Append(call.pushed, e), call'.order = call.order
  PROVE  PlacingInv'
<1>1. PlacingInv /\ o \in book /\ o \notin call.removed
      /\ \A d \in call.changed : d.id # o.id
  BY PlacingTypes DEF PlacingInv
<1>2. o \in MatchedBook /\ MatchedBook' = (MatchedBook \ {o}) \cup {c}
  <2>1. \A p \in book : c.id # p.id <=> p # o
    BY <1>1, PlacingTypes
  <2>2. MatchedBook' = {p \in book \ call.removed :
                          /\ \A d \in call.changed : d.id # p.id
                          /\ c.id # p.id} \cup call.changed \cup {c}
    BY DEF MatchedBook
  <2> QED
    BY <1>1, <2>1, <2>2 DEF MatchedBook
<1>3. (events \o call.pushed)' = Append(events \o call.pushed, e)
  <2>1. events \in Seq(Event) /\ call.pushed \in Seq(Event)
    BY PlacingTypes
  <2>2. events \o Append(call.pushed, e) = Append(events \o call.pushed, e)
    BY <2>1, PushLast, Zenon
  <2> QED
    BY <2>2, Zenon
<1>4. Linked(MatchedBook, events \o call.pushed, oo, market.seq_num)'
  <2>1. Linked((MatchedBook \ {o}) \cup {c}, Append(events \o call.pushed, e),
               oo, market.seq_num)
    BY <1>1, <1>2, PlacingTypes, ReduceLinked, Zenon DEF PlacingInv
  <2> QED
    BY <1>2, <1>3, <2>1
<1>5. QueueHasRoom(0)'
  BY PlacingTypes, PerpOrdersAssumption DEF QueueHasRoom, PerpOrdersAssumption
<1>6. IsFiniteSet(call.changed)'
  BY <1>1, FS_AddElement DEF PlacingInv
<1>7. \A d \in call'.changed :
        /\ \A p \in call'.todo : d.id # p.id
        /\ \E p \in book' : p.id = d.id /\ p.side = d.side
  BY <1>1, PlacingTypes DEF PlacingInv
<1>8. \A p \in call'.todo \cup call'.removed \cup call'.changed :
        p.side = invert_side(call'.order.side)
  BY <1>1 DEF PlacingInv
<1> QED
  BY <1>1, <1>4, <1>5, <1>6, <1>7, <1>8 DEF PlacingInv

\* What an iteration has to keep beyond PlacingInv.
LEMMA LoopInv ==
  ASSUME IndInv, Placing, PlacingInv', call' \in Call,
         UNCHANGED <<book, bump, events, position, oo, market, now, oracle, sweep>>,
         call'.account = call.account, call'.order = call.order,
         call'.price = call.price, call'.base <= call'.max_base,
         call'.dropped <= DropLimit, call'.todo \cup call'.removed \subseteq book,
         \A c \in call'.changed : c.tree = "Fixed" => c.price_data > 0
  PROVE  IndInv'
<1>1. TypeOK'
  BY DEF IndInv, TypeOK, Placing
<1>2. Placing'
  BY DEF Placing
<1> QED
  BY <1>1, <1>2 DEF IndInv

\* PlaceDropInvalid drops an invalid order, or leaves it where it is.
LEMMA DropInv == ASSUME IndInv, PlaceDropInvalid PROVE IndInv'
<1>1. PICK o \in Opposing :
        /\ \/ /\ call.dropped < DropLimit
              /\ QueueHasRoom(1)
              /\ call' = [call EXCEPT !.dropped = @ + 1,
                            !.todo = @ \ {o}, !.removed = @ \cup {o},
                            !.pushed = Append(@, OutEvent(o))]
           \/ /\ call.dropped >= DropLimit
              /\ call' = [call EXCEPT !.todo = @ \ {o}]
        /\ UNCHANGED <<book, bump, events, position, oo, market, now, oracle, sweep>>
  BY Zenon DEF PlaceDropInvalid
<1>2. Placing /\ o \in call.todo
  BY DEF Opposing, Best
<1>3. /\ o \in book /\ o \in LeafNode /\ call \in Call /\ call.dropped \in Nat
      /\ call.todo \in SUBSET LeafNode /\ call.removed \in SUBSET LeafNode
      /\ call.pushed \in Seq(Event) /\ call.base <= call.max_base
      /\ call.dropped <= DropLimit /\ DropLimit \in Nat
      /\ \A c \in call.changed : c.tree = "Fixed" => c.price_data > 0
  BY <1>2, PlacingTypes, PerpOrdersAssumption, Zenon
     DEF IndInv, TypeOK, Call, PerpOrdersAssumption
<1>4. OutEvent(o) \in Event /\ Closes(OutEvent(o), o.owner, o.slot, o.id)
  BY <1>3, EventTypes
<1>5. CASE call.dropped < DropLimit
  <2>1. /\ call'.dropped = call.dropped + 1
        /\ call'.todo = call.todo \ {o} /\ call'.removed = call.removed \cup {o}
        /\ call'.changed = call.changed /\ call'.pushed = Append(call.pushed, OutEvent(o))
        /\ call'.order = call.order /\ call'.account = call.account
        /\ call'.price = call.price /\ call'.base = call.base
        /\ call'.max_base = call.max_base /\ QueueHasRoom(1)
    <3>1. call' = [call EXCEPT !.dropped = @ + 1,
                     !.todo = @ \ {o}, !.removed = @ \cup {o},
                     !.pushed = Append(@, OutEvent(o))] /\ QueueHasRoom(1)
      BY <1>1, <1>3, <1>5
    <3> QED
      BY <1>3, <3>1 DEF Call
  <2>2. call' \in Call
    <3>1. /\ call.dropped + 1 \in Nat /\ call.todo \ {o} \in SUBSET LeafNode
          /\ call.removed \cup {o} \in SUBSET LeafNode
          /\ Append(call.pushed, OutEvent(o)) \in Seq(Event)
      BY <1>3, <1>4
    <3>2. call' = [call EXCEPT !.dropped = call.dropped + 1,
                     !.todo = call.todo \ {o}, !.removed = call.removed \cup {o},
                     !.pushed = Append(call.pushed, OutEvent(o))]
      BY <1>1, <1>3, <1>5
    <3> QED
      BY <1>3, <3>1, <3>2, Zenon DEF Call
  <2>3. PlacingInv'
    BY <1>1, <1>2, <1>4, <2>1, RemoveStep
  <2> QED
    BY <1>1, <1>2, <1>3, <1>5, <2>1, <2>2, <2>3, LoopInv, PlacingTypes
<1>6. CASE call.dropped >= DropLimit
  <2>1. /\ call'.dropped = call.dropped
        /\ call'.todo = call.todo \ {o} /\ call'.removed = call.removed
        /\ call'.changed = call.changed /\ call'.pushed = call.pushed
        /\ call'.order = call.order /\ call'.account = call.account
        /\ call'.price = call.price /\ call'.base = call.base
        /\ call'.max_base = call.max_base
    BY <1>1, <1>3, <1>6 DEF Call
  <2>2. call' \in Call
    BY <1>1, <1>3, <1>6 DEF Call
  <2>3. MatchedBook' = MatchedBook /\ (QueueHasRoom(0) <=> QueueHasRoom(0)')
    BY <1>1, <2>1 DEF MatchedBook, QueueHasRoom
  <2>4. PlacingInv'
    BY <1>1, <1>2, <2>1, <2>3, PlacingTypes DEF PlacingInv
  <2> QED
    BY <1>1, <1>2, <1>3, <2>1, <2>2, <2>4, LoopInv, PlacingTypes
<1> QED
  BY <1>3, <1>5, <1>6

\* PlaceCancelProvide takes an own order off the book instead of matching it.
LEMMA CancelProvideInv == ASSUME IndInv, PlaceCancelProvide PROVE IndInv'
<1>1. PICK o \in Opposing :
        /\ QueueHasRoom(1)
        /\ call' = [call EXCEPT !.todo = @ \ {o}, !.removed = @ \cup {o},
                               !.pushed = Append(@, OutEvent(o))]
        /\ UNCHANGED <<book, bump, events, position, oo, market, now, oracle, sweep>>
  BY Zenon DEF PlaceCancelProvide
<1>2. Placing /\ o \in call.todo
  BY DEF Opposing, Best
<1>3. /\ o \in book /\ o \in LeafNode /\ call \in Call
      /\ call.todo \in SUBSET LeafNode /\ call.removed \in SUBSET LeafNode
      /\ call.pushed \in Seq(Event) /\ call.base <= call.max_base
      /\ call.dropped <= DropLimit
      /\ \A c \in call.changed : c.tree = "Fixed" => c.price_data > 0
  BY <1>2, PlacingTypes, Zenon DEF IndInv, TypeOK, Call
<1>4. OutEvent(o) \in Event /\ Closes(OutEvent(o), o.owner, o.slot, o.id)
  BY <1>3, EventTypes
<1>5. /\ call'.todo = call.todo \ {o} /\ call'.removed = call.removed \cup {o}
      /\ call'.changed = call.changed /\ call'.pushed = Append(call.pushed, OutEvent(o))
      /\ call'.order = call.order /\ call'.account = call.account
      /\ call'.price = call.price /\ call'.base = call.base
      /\ call'.max_base = call.max_base /\ call'.dropped = call.dropped
  BY <1>1, <1>3 DEF Call
<1>6. call' \in Call
  <2>1. /\ call.todo \ {o} \in SUBSET LeafNode
        /\ call.removed \cup {o} \in SUBSET LeafNode
        /\ Append(call.pushed, OutEvent(o)) \in Seq(Event)
    BY <1>3, <1>4
  <2> QED
    BY <1>1, <1>3, <2>1, Zenon DEF Call
<1>7. PlacingInv'
  BY <1>1, <1>2, <1>4, <1>5, RemoveStep
<1> QED
  BY <1>1, <1>2, <1>3, <1>5, <1>6, <1>7, LoopInv, PlacingTypes

\* PlaceMatch fills the best opposing order, as a whole or in part, and never
\* spends more base or quote lots than the order has left.
LEMMA MatchInv == ASSUME IndInv, PlaceMatch PROVE IndInv'
<1>1. PICK o \in Opposing :
        LET lots == Min({call.base, o.quantity, MaxMatchByQuote(o)})
            out == lots = o.quantity
        IN /\ Matching(o) /\ QueueHasRoom(1)
           /\ call' = [call EXCEPT
                         !.base = @ - lots, !.quote = @ - lots * PriceOf(o),
                         !.limit = @ - 1, !.todo = @ \ {o},
                         !.removed = IF out THEN @ \cup {o} ELSE @,
                         !.changed = IF out THEN @
                           ELSE @ \cup {[o EXCEPT !.quantity = @ - lots]},
                         !.pushed = Append(@, FillEvent(o, lots, call.account))]
           /\ UNCHANGED <<book, bump, events, position, oo, market, now, oracle, sweep>>
  BY Zenon DEF PlaceMatch
<1> DEFINE lots == Min({call.base, o.quantity, MaxMatchByQuote(o)})
           c == [o EXCEPT !.quantity = o.quantity - lots]
           e == FillEvent(o, lots, call.account)
<1>2. Placing /\ o \in call.todo /\ call.base # 0 /\ call.quote # 0
  BY DEF Opposing, Best
<1>3. /\ o \in book /\ o \in LeafNode /\ call \in Call
      /\ call.base \in Nat /\ call.quote \in Nat /\ call.limit \in Nat
      /\ call.todo \in SUBSET LeafNode /\ call.removed \in SUBSET LeafNode
      /\ call.changed \in SUBSET LeafNode /\ call.account \in Accounts
      /\ call.pushed \in Seq(Event) /\ call.base <= call.max_base
      /\ call.max_base \in Nat /\ call.dropped <= DropLimit
      /\ \A d \in call.changed : d.tree = "Fixed" => d.price_data > 0
      /\ o.quantity \in Nat \ {0} /\ (o.tree = "Fixed" => o.price_data > 0)
  <2>1. o \in book /\ o \in LeafNode /\ call \in Call /\ call.account \in Accounts
    BY <1>2, PlacingTypes
  <2>2. /\ call.base <= call.max_base /\ call.dropped <= DropLimit
        /\ \A d \in call.changed : d.tree = "Fixed" => d.price_data > 0
        /\ o.tree = "Fixed" => o.price_data > 0
    BY <1>2, <2>1 DEF IndInv, TypeOK
  <2> QED
    BY <2>1, <2>2, Zenon DEF Call, LeafNode
<1>4. PriceOf(o) \in Nat \ {0} /\ MaxMatchByQuote(o) \in Nat \ {0} /\ call.limit # 0
  <2>1. PriceOf(o) \in Nat \ {0}
    BY <1>3, PriceFacts DEF IndInv, TypeOK
  <2>2. MaxMatchByQuote(o) # 0 /\ call.limit # 0
    BY <1>1 DEF Matching, Stopping
  <2>3. call.quote \div PriceOf(o) \in Nat
    BY <1>3, <2>1
  <2> QED
    BY <2>1, <2>2, <2>3 DEF MaxMatchByQuote
<1>5. lots \in Nat \ {0} /\ lots <= call.base /\ lots <= o.quantity
      /\ lots <= call.quote \div PriceOf(o)
  <2>1. /\ lots \in {call.base, o.quantity, MaxMatchByQuote(o)}
        /\ lots <= call.base /\ lots <= o.quantity /\ lots <= MaxMatchByQuote(o)
    <3>1. call.base \in Int /\ o.quantity \in Int /\ MaxMatchByQuote(o) \in Int
      BY <1>3, <1>4
    <3> QED
      BY <3>1, MinTriple, Zenon
  <2> HIDE DEF lots
  <2>2. lots \in Nat \ {0}
    BY <1>2, <1>3, <1>4, <2>1
  <2> QED
    BY <2>1, <2>2 DEF MaxMatchByQuote
<1> HIDE DEF lots
<1>6. call.quote - lots * PriceOf(o) \in Nat
  BY <1>3, <1>4, <1>5, QuoteSuffices
<1>7. /\ e \in Event /\ e.order_id = o.id
      /\ IF lots = o.quantity THEN Closes(e, o.owner, o.slot, o.id)
         ELSE ~e.maker_out
  BY <1>3, <1>4, <1>5, EventTypes
<1>8. lots # o.quantity =>
        /\ c \in LeafNode /\ c.id = o.id /\ c.side = o.side /\ c.tree = o.tree
        /\ c.owner = o.owner /\ c.slot = o.slot /\ c.price_data = o.price_data
  <2> SUFFICES ASSUME lots # o.quantity
               PROVE  /\ c \in LeafNode /\ c.id = o.id /\ c.side = o.side
                      /\ c.tree = o.tree /\ c.owner = o.owner /\ c.slot = o.slot
                      /\ c.price_data = o.price_data
    OBVIOUS
  <2>1. o.quantity - lots \in Nat \ {0}
    BY <1>3, <1>5
  <2> QED
    BY <1>3, <2>1, Zenon DEF LeafNode
<1>9. QueueHasRoom(1)
      /\ UNCHANGED <<book, bump, events, position, oo, market, now, oracle, sweep>>
  BY <1>1
<1> HIDE DEF c, e
<1>10. CASE lots = o.quantity
  <2>1. call' = [call EXCEPT !.base = call.base - lots,
                   !.quote = call.quote - lots * PriceOf(o),
                   !.limit = call.limit - 1, !.todo = call.todo \ {o},
                   !.removed = call.removed \cup {o}, !.changed = call.changed,
                   !.pushed = Append(call.pushed, e)]
    BY <1>1, <1>3, <1>10 DEF lots, e
  <2>2. /\ call'.base = call.base - lots
        /\ call'.todo = call.todo \ {o} /\ call'.removed = call.removed \cup {o}
        /\ call'.changed = call.changed /\ call'.pushed = Append(call.pushed, e)
        /\ call'.order = call.order /\ call'.account = call.account
        /\ call'.price = call.price
        /\ call'.max_base = call.max_base /\ call'.dropped = call.dropped
    BY <1>3, <2>1 DEF Call
  <2>3. call' \in Call
    <3>1. /\ call.base - lots \in Nat /\ call.limit - 1 \in Nat
          /\ call.todo \ {o} \in SUBSET LeafNode
          /\ call.removed \cup {o} \in SUBSET LeafNode
          /\ Append(call.pushed, e) \in Seq(Event)
      BY <1>3, <1>4, <1>5, <1>7
    <3> QED
      BY <1>3, <1>6, <2>1, <3>1, Zenon DEF Call
  <2>4. PlacingInv'
    BY <1>2, <1>7, <1>9, <1>10, <2>2, RemoveStep
  <2>5. call'.base <= call'.max_base
    BY <1>3, <1>5, <2>2
  <2> QED
    BY <1>2, <1>3, <1>9, <2>2, <2>3, <2>4, <2>5, LoopInv, PlacingTypes
<1>11. CASE lots # o.quantity
  <2>1. call' = [call EXCEPT !.base = call.base - lots,
                   !.quote = call.quote - lots * PriceOf(o),
                   !.limit = call.limit - 1, !.todo = call.todo \ {o},
                   !.removed = call.removed, !.changed = call.changed \cup {c},
                   !.pushed = Append(call.pushed, e)]
    BY <1>1, <1>3, <1>11 DEF lots, e, c
  <2>2. /\ call'.base = call.base - lots
        /\ call'.todo = call.todo \ {o} /\ call'.removed = call.removed
        /\ call'.changed = call.changed \cup {c}
        /\ call'.pushed = Append(call.pushed, e)
        /\ call'.order = call.order /\ call'.account = call.account
        /\ call'.price = call.price
        /\ call'.max_base = call.max_base /\ call'.dropped = call.dropped
    BY <1>3, <2>1 DEF Call
  <2>3. call' \in Call
    <3>1. call.base - lots \in Nat /\ call.limit - 1 \in Nat
      <4>1. call.base \in Nat /\ call.limit \in Nat /\ call.limit # 0
        BY <1>3, <1>4, Zenon
      <4>2. lots \in Nat /\ lots <= call.base
        BY <1>5, Zenon
      <4> QED
        BY <4>1, <4>2
    <3>2. /\ call.todo \ {o} \in SUBSET LeafNode
          /\ call.changed \cup {c} \in SUBSET LeafNode
      BY <1>3, <1>8, <1>11
    <3>3. Append(call.pushed, e) \in Seq(Event)
      BY <1>3, <1>7
    <3> QED
      BY <1>3, <1>6, <2>1, <3>1, <3>2, <3>3, Zenon DEF Call
  <2>4. PlacingInv'
    BY <1>2, <1>7, <1>8, <1>9, <1>11, <2>2, ReduceStep
  <2>5. call'.base <= call'.max_base
    BY <1>3, <1>5, <2>2
  <2> QED
    BY <1>2, <1>3, <1>8, <1>9, <1>11, <2>2, <2>3, <2>4, <2>5, LoopInv, PlacingTypes
<1> QED
  BY <1>10, <1>11

\* PlaceAbort: nothing but the call is undone, for nothing else was changed.
LEMMA AbortInv == ASSUME IndInv, PlaceAbort PROVE IndInv'
<1>1. call' = NoCall /\ ~Placing'
      /\ UNCHANGED <<book, bump, events, position, oo, market, now, oracle, sweep>>
  BY DEF PlaceAbort, Placing, NoCall
<1>2. NoCall \in Call
  BY DEF NoCall, Call
<1> QED
  BY <1>1, <1>2, Zenon DEF IndInv, TypeOK
=============================================================================
