-------------------------- MODULE PerpOrdersProofs --------------------------
(* Proofs about PerpOrders: type correctness, and that orders on the book,   *)
(* events on the queue and open-order slots of the accounts always fit       *)
(* together.                                                                 *)
EXTENDS PerpPlaceProofs, WellFoundedInduction

-----------------------------------------------------------------------------
(* Cancels *)

\* cancel_order_by_slot frees a slot and takes its order off the book.
LEMMA CancelSlotInv ==
  ASSUME IndInv, ~Placing, NEW a \in Accounts, NEW slot \in Slots,
         cancel_order_by_slot(a, slot),
         UNCHANGED <<bump, events, market, now, oracle, call>>,
         sweep' \in [account : Accounts \cup {NoAccount}, slots : SUBSET Slots, limit : Nat],
         sweep'.account # NoAccount => sweep'.slots # {} /\ sweep'.limit > 0
  PROVE  IndInv'
<1> DEFINE s == oo[a][slot]
           lots == IF LeafOf(s) = {} THEN 0 ELSE (CHOOSE o \in LeafOf(s) : TRUE).quantity
<1>1. /\ book' = book \ LeafOf(s)
      /\ position' = [position EXCEPT ![a] = adjust_maker_lots(position[a], s.side, -lots)]
      /\ oo' = [oo EXCEPT ![a][slot] = FreeSlot]
  BY DEF cancel_order_by_slot
<1>2. /\ book \in SUBSET LeafNode /\ events \in Seq(Event) /\ oo \in OpenOrders
      /\ market.seq_num \in Nat /\ Linked(book, events, oo, market.seq_num)
      /\ position \in [Accounts -> PerpPosition]
  BY PerpOrdersAssumption DEF IndInv, TypeOK, OpenOrders, PerpOrdersAssumption
<1>3. book' = {o \in book : o.id # oo[a][slot].id}
  <2>1. \A o \in book : o.id = s.id => o.side = s.side /\ o.tree = s.tree
    BY <1>2 DEF Linked
  <2> QED
    BY <1>1, <2>1 DEF LeafOf
<1>4. Linked(book, events, oo, market.seq_num)'
  <2>0. /\ book' \in SUBSET LeafNode
        /\ \A o : o \in book' <=> o \in book /\ o.id # oo[a][slot].id
        /\ oo'[a][slot] = FreeSlot
        /\ \A b \in Accounts, t \in Slots : b # a \/ t # slot => oo'[b][t] = oo[b][t]
    BY <1>1, <1>2, <1>3, Zenon DEF OpenOrders
  <2>0a. Frees(book, book', oo, oo', a, slot)
    BY <2>0 DEF Frees
  <2>1. Linked(book', events, oo', market.seq_num)
    BY <1>2, <2>0, <2>0a, FreeLinked, Zenon
  <2> QED
    BY <2>1
<1>5. position' \in [Accounts -> PerpPosition]
  <2>1. lots \in Int
    <3>1. CASE LeafOf(s) = {}
      BY <3>1
    <3>2. CASE LeafOf(s) # {}
      <4>1. (CHOOSE o \in LeafOf(s) : TRUE) \in LeafNode
        BY <1>2, <3>2 DEF LeafOf
      <4> QED
        BY <3>2, <4>1 DEF LeafNode
    <3> QED
      BY <3>1, <3>2
  <2>2. s.side \in Sides
    BY <1>2 DEF OpenOrders, PerpOpenOrder
  <2> HIDE DEF lots, s
  <2>3. position[a] \in PerpPosition /\ -lots \in Int
    BY <1>2, <2>1
  <2>4. adjust_maker_lots(position[a], s.side, -lots) \in PerpPosition
    BY <2>2, <2>3, PositionTypes, Zenon
  <2> QED
    BY <1>1, <1>2, <2>4
<1>6. oo' \in [Accounts -> [Slots -> PerpOpenOrder]]
  <2>1. FreeSlot \in PerpOpenOrder
    BY DEF FreeSlot, PerpOpenOrder, Sides, Trees
  <2> QED
    BY <1>1, <1>2, <2>1 DEF OpenOrders
<1>7. IsFiniteSet(book')
  BY <1>3, FS_Subset DEF IndInv
<1>8. book' \subseteq book /\ ~Placing'
  BY <1>3 DEF Placing
<1>9. TypeOK'
  BY <1>5, <1>6, <1>8, Zenon DEF IndInv, TypeOK
<1> QED
  BY <1>4, <1>7, <1>8, <1>9 DEF IndInv

\* perp_cancel_order and the cancel by client order id.
LEMMA CancelInv ==
  ASSUME IndInv, NEW a \in Accounts, NEW slot \in Slots, perp_cancel_order(a, slot)
  PROVE  IndInv'
<1>1. ~Placing /\ cancel_order_by_slot(a, slot)
      /\ UNCHANGED <<bump, events, market, now, oracle, call, sweep>>
  BY DEF perp_cancel_order, Idle, Placing
<1>2. sweep' \in [account : Accounts \cup {NoAccount}, slots : SUBSET Slots, limit : Nat]
  BY <1>1, Zenon DEF IndInv, TypeOK
<1>3. sweep'.account # NoAccount => sweep'.slots # {} /\ sweep'.limit > 0
  BY <1>1 DEF IndInv
<1> QED
  BY <1>1, <1>2, <1>3, CancelSlotInv

\* CancelAllBegin notes the slots that the loop will visit.
LEMMA CancelAllBeginInv ==
  ASSUME IndInv, NEW a \in Accounts, NEW sides, NEW limit \in CancelLimits,
         CancelAllBegin(a, sides, limit)
  PROVE  IndInv'
<1> DEFINE slots == {s \in Slots : is_active(oo[a][s]) /\ oo[a][s].side \in sides}
<1>1. /\ ~Placing /\ sweep' = [account |-> a, slots |-> slots, limit |-> limit]
      /\ UNCHANGED <<book, bump, events, position, oo, market, now, oracle, call>>
  BY DEF CancelAllBegin, Idle, Placing
<1>2. slots \in SUBSET Slots /\ slots # {} /\ limit \in Nat /\ limit > 0
  BY PerpOrdersAssumption DEF CancelAllBegin, PerpOrdersAssumption
<1> HIDE DEF slots
<1>3. sweep' \in [account : Accounts \cup {NoAccount}, slots : SUBSET Slots, limit : Nat]
  BY <1>1, <1>2
<1>4. MatchedBook' = MatchedBook /\ ~Placing'
  BY <1>1 DEF MatchedBook, Placing
<1>5. TypeOK'
  BY <1>1, <1>3, <1>4, Zenon DEF IndInv, TypeOK
<1> QED
  BY <1>1, <1>2, <1>4, <1>5, Zenon DEF IndInv

\* The first slot of a set of slots is one of them.
LEMMA FirstSlot ==
  ASSUME NEW S \in SUBSET Slots, S # {}
  PROVE  Min(S) \in S
<1>1. S \subseteq Nat
  BY PerpOrdersAssumption DEF Slots, PerpOrdersAssumption
<1>2. \E x \in S : \A y \in S : x <= y
  <2>1. PICK x \in S : \A y \in S : ~(<<y, x>> \in OpToRel(<, Nat))
    BY <1>1, NatLessThanWellFounded, WFMin, Zenon
  <2>2. \A y \in S : ~(y < x)
    BY <1>1, <2>1, Zenon DEF OpToRel
  <2> QED
    BY <1>1, <2>2
<1> QED
  BY <1>2 DEF Min

\* CancelAllStep cancels the first slot that is left, or passes over it.
LEMMA CancelAllStepInv == ASSUME IndInv, CancelAllStep PROVE IndInv'
<1> DEFINE slot == Min(sweep.slots)
           s == oo[sweep.account][slot]
           rest == sweep.slots \ {slot}
<1>1. /\ sweep.account # NoAccount
      /\ IF LeafOf(s) = {} /\ s.quantity = 0
         THEN UNCHANGED <<book, position, oo>>
         ELSE cancel_order_by_slot(sweep.account, slot)
      /\ sweep' = IF rest = {} \/ sweep.limit = 1 THEN NoSweep
                  ELSE [sweep EXCEPT !.slots = rest, !.limit = @ - 1]
      /\ UNCHANGED <<bump, events, market, now, oracle, call>>
  BY DEF CancelAllStep
<1>2. /\ sweep \in [account : Accounts \cup {NoAccount}, slots : SUBSET Slots, limit : Nat]
      /\ sweep.account \in Accounts /\ ~Placing
  BY <1>1 DEF IndInv, TypeOK
<1>3. /\ sweep.slots \in SUBSET Slots /\ sweep.slots # {} /\ sweep.limit \in Nat \ {0}
  BY <1>1, <1>2 DEF IndInv
<1>4. slot \in Slots
  BY <1>3, FirstSlot
<1> HIDE DEF slot
<1>5. /\ sweep' \in [account : Accounts \cup {NoAccount}, slots : SUBSET Slots, limit : Nat]
      /\ sweep'.account # NoAccount => sweep'.slots # {} /\ sweep'.limit > 0
  <2>1. CASE rest = {} \/ sweep.limit = 1
    BY <1>1, <2>1 DEF NoSweep
  <2>2. CASE rest # {} /\ sweep.limit # 1
    <3>1. rest \in SUBSET Slots /\ sweep.limit - 1 \in Nat /\ sweep.limit - 1 > 0
      BY <1>3, <2>2
    <3>2. sweep' = [sweep EXCEPT !.slots = rest, !.limit = sweep.limit - 1]
      BY <1>1, <2>2
    <3> HIDE DEF rest
    <3> QED
      BY <1>2, <2>2, <3>1, <3>2, Zenon
  <2> QED
    BY <2>1, <2>2
<1>6. CASE LeafOf(s) = {} /\ s.quantity = 0
  <2>1. UNCHANGED <<book, bump, events, position, oo, market, now, oracle, call>>
    BY <1>1, <1>6
  <2>2. ~Placing'
    BY <1>2, <2>1 DEF Placing
  <2>3. TypeOK'
    BY <1>5, <2>1, <2>2, Zenon DEF IndInv, TypeOK
  <2> QED
    BY <1>5, <2>1, <2>2, <2>3 DEF IndInv
<1>7. CASE ~(LeafOf(s) = {} /\ s.quantity = 0)
  <2>1. cancel_order_by_slot(sweep.account, slot)
    BY <1>1, <1>7
  <2> QED
    BY <1>1, <1>2, <1>4, <1>5, <2>1, CancelSlotInv
<1> QED
  BY <1>6, <1>7

-----------------------------------------------------------------------------
(* Events and the environment *)

\* perp_consume_events settles the oldest event.
LEMMA ConsumeInv == ASSUME IndInv, perp_consume_events PROVE IndInv'
<1> DEFINE e == Head(events)
           maker == IF e.type = "Fill" THEN execute_perp_maker(position[e.owner], e)
                    ELSE execute_perp_out_event(position[e.owner], e)
           Moved(a) == Abs(position'[a].base) - Abs(position[a].base)
           self == e.taker = e.owner
           other == IF e.type = "Fill" /\ ~self THEN Moved(e.taker) ELSE 0
<1>1. /\ call.account = NoAccount /\ sweep.account = NoAccount /\ events # <<>>
      /\ position' =
           IF e.type = "Out" THEN [position EXCEPT ![e.owner] = maker]
           ELSE IF self
           THEN [position EXCEPT ![e.owner] = execute_perp_taker(maker, e)]
           ELSE [position EXCEPT ![e.owner] = maker,
                                 ![e.taker] = execute_perp_taker(@, e)]
      /\ oo' = [oo EXCEPT ![e.owner][e.slot] = SettleSlot(@, e)]
      /\ events' = Tail(events)
      /\ UNCHANGED <<book, bump, now, oracle, call, sweep>>
  BY Zenon DEF perp_consume_events, Idle
<1>2. market' = [market EXCEPT !.open_interest =
                   market.open_interest + Moved(e.owner) + other]
  BY Zenon DEF perp_consume_events
<1>3. /\ events \in Seq(Event) /\ Len(events) <= MaxEvents
      /\ book \in SUBSET LeafNode /\ oo \in OpenOrders
      /\ position \in [Accounts -> PerpPosition]
      /\ market \in [seq_num : 0..MaxOrders, open_interest : Int, reduce_only : BOOLEAN]
      /\ Linked(book, events, oo, market.seq_num)
      /\ MaxEvents \in Nat /\ MaxOrders \in Nat
  BY PerpOrdersAssumption, Zenon DEF IndInv, TypeOK, OpenOrders, PerpOrdersAssumption
<1>4. /\ e \in Event /\ events' \in Seq(Event) /\ Len(events') <= MaxEvents
  BY <1>1, <1>3
<1> HIDE DEF e
<1>5. /\ e.owner \in Accounts /\ e.slot \in Slots /\ e.type \in {"Fill", "Out"}
      /\ e.type = "Fill" => e.taker \in Accounts
  BY <1>4 DEF Event
<1>6. position' \in [Accounts -> PerpPosition]
  <2>1. position[e.owner] \in PerpPosition
    BY <1>3, <1>5
  <2>2. maker \in PerpPosition
    BY <1>4, <2>1, ExecuteTypes
  <2> HIDE DEF maker
  <2>3. execute_perp_taker(maker, e) \in PerpPosition
    BY <1>4, <2>2, ExecuteTypes
  <2>4. CASE e.type = "Out"
    BY <1>1, <1>3, <2>2, <2>4, Zenon
  <2>5. CASE e.type = "Fill" /\ self
    BY <1>1, <1>3, <2>3, <2>5, Zenon
  <2>6. CASE e.type = "Fill" /\ ~self
    <3>1. position[e.taker] \in PerpPosition
      BY <1>3, <1>5, <2>6
    <3>2. execute_perp_taker(position[e.taker], e) \in PerpPosition
      BY <1>4, <3>1, ExecuteTypes
    <3>3. position' = [position EXCEPT ![e.owner] = maker,
                         ![e.taker] = execute_perp_taker(position[e.taker], e)]
      BY <1>1, <1>3, <1>5, <2>6
    <3> QED
      BY <1>3, <2>2, <3>2, <3>3, Zenon
  <2> QED
    BY <1>5, <2>4, <2>5, <2>6
<1>7. /\ market' \in [seq_num : 0..MaxOrders, open_interest : Int, reduce_only : BOOLEAN]
      /\ market'.seq_num = market.seq_num
  <2>1. ASSUME NEW a \in Accounts PROVE Moved(a) \in Int
    <3>1. position[a] \in PerpPosition /\ position'[a] \in PerpPosition
      BY <1>3, <1>6
    <3>2. position[a].base \in Int /\ position'[a].base \in Int
      BY <3>1 DEF PerpPosition
    <3> QED
      BY <3>2 DEF Abs
  <2> HIDE DEF Moved
  <2>2. Moved(e.owner) \in Int /\ other \in Int
    BY <1>5, <2>1
  <2> HIDE DEF other
  <2>3. market.open_interest + Moved(e.owner) + other \in Int
    BY <1>3, <2>2
  <2> QED
    BY <1>2, <1>3, <2>3
<1>8. /\ oo' \in OpenOrders
      /\ oo'[e.owner][e.slot] = SettleSlot(oo[e.owner][e.slot], e)
      /\ \A a \in Accounts, t \in Slots :
           a # e.owner \/ t # e.slot => oo'[a][t] = oo[a][t]
  <2>1. oo[e.owner][e.slot] \in PerpOpenOrder
    BY <1>3, <1>5 DEF OpenOrders
  <2>2. SettleSlot(oo[e.owner][e.slot], e) \in PerpOpenOrder
    BY <1>4, <2>1, SettleType
  <2> QED
    BY <1>1, <1>3, <1>5, <2>2, Zenon DEF OpenOrders
<1>9. Linked(book', events', oo', market'.seq_num)
  <2>1. Settles(oo, oo', Head(events))
    BY <1>8, Zenon DEF Settles, e
  <2>2. market.seq_num \in Nat
    BY <1>3
  <2>3. Linked(book, Tail(events), oo', market.seq_num)
    BY <1>1, <1>3, <1>8, <2>1, <2>2, SettleLinked, Zenon
  <2> QED
    BY <1>1, <1>7, <2>3
<1>10. ~Placing /\ ~Placing'
  BY <1>1 DEF Placing
<1>11. TypeOK'
  BY <1>1, <1>3, <1>4, <1>6, <1>7, <1>8, <1>10, Zenon DEF IndInv, TypeOK, OpenOrders
<1> QED
  BY <1>1, <1>9, <1>10, <1>11, SMTT(20) DEF IndInv

\* perp_deactivate_position, perp_edit_market, the clock and the oracle change one
\* variable each, between instructions.
LEMMA OtherInv ==
  ASSUME IndInv,
         \/ \E a \in Accounts : perp_deactivate_position(a)
         \/ perp_edit_market \/ Tick \/ MoveOracle
  PROVE  IndInv'
<1>1. CASE \E a \in Accounts : perp_deactivate_position(a)
  <2>1. PICK a \in Accounts : perp_deactivate_position(a)
    BY <1>1
  <2>2. ~Placing /\ ~Placing'
    BY <2>1 DEF perp_deactivate_position, Idle, Placing
  <2>3. position' \in [Accounts -> PerpPosition]
    <3>1. position \in [Accounts -> PerpPosition] /\ position[a] \in PerpPosition
      BY Zenon DEF IndInv, TypeOK
    <3>2. [position[a] EXCEPT !.active = FALSE] \in PerpPosition
      BY <3>1, Zenon DEF PerpPosition
    <3>3. position' = [position EXCEPT ![a] = [position[a] EXCEPT !.active = FALSE]]
      BY <2>1, <3>1 DEF perp_deactivate_position
    <3> QED
      BY <3>1, <3>2, <3>3
  <2>4. TypeOK'
    BY <2>1, <2>2, <2>3 DEF perp_deactivate_position, IndInv, TypeOK
  <2> QED
    BY <2>1, <2>2, <2>4 DEF perp_deactivate_position, IndInv
<1>2. CASE perp_edit_market
  <2>1. ~Placing /\ ~Placing'
    BY <1>2 DEF perp_edit_market, Idle, Placing
  <2>2. /\ market' \in [seq_num : 0..MaxOrders, open_interest : Int, reduce_only : BOOLEAN]
        /\ market'.seq_num = market.seq_num
    BY <1>2, PerpOrdersAssumption, Zenon
    DEF perp_edit_market, IndInv, TypeOK, PerpOrdersAssumption
  <2>3. TypeOK'
    BY <1>2, <2>1, <2>2, SMTT(20) DEF perp_edit_market, IndInv, TypeOK
  <2> QED
    BY <1>2, <2>1, <2>2, <2>3 DEF perp_edit_market, IndInv
<1>3. CASE Tick
  <2>1. ~Placing /\ ~Placing'
    BY <1>3 DEF Tick, Idle, Placing
  <2>2. now' \in 0..MaxTime
    BY <1>3, PerpOrdersAssumption DEF Tick, IndInv, TypeOK, PerpOrdersAssumption
  <2>3. TypeOK'
    BY <1>3, <2>1, <2>2, Zenon DEF Tick, IndInv, TypeOK
  <2> QED
    BY <1>3, <2>1, <2>3 DEF Tick, IndInv
<1>4. CASE MoveOracle
  <2>1. ~Placing /\ ~Placing'
    BY <1>4, Zenon DEF MoveOracle, Idle, Placing
  <2>2. TypeOK'
    BY <1>4, <2>1, Zenon DEF MoveOracle, IndInv, TypeOK
  <2> QED
    BY <1>4, <2>1, <2>2, Zenon DEF MoveOracle, IndInv
<1> QED
  BY <1>1, <1>2, <1>3, <1>4, Zenon

-----------------------------------------------------------------------------
(* The theorems *)

\* A new market has an empty book, no events and free slots.
LEMMA InitInv == Init => IndInv
<1> SUFFICES ASSUME Init PROVE IndInv
  OBVIOUS
<1>1. /\ MaxNodes \in Nat /\ MaxEvents \in Nat /\ MaxTime \in Nat /\ MaxOrders \in Nat
      /\ NoAccount \notin Accounts
  BY PerpOrdersAssumption DEF PerpOrdersAssumption
<1>2. ~Placing /\ sweep.account = NoAccount
  BY Zenon DEF Init, NoCall, NoSweep, Placing
<1>3. call \in Call
  BY DEF Init, NoCall, Call
<1>4. sweep \in [account : Accounts \cup {NoAccount}, slots : SUBSET Slots, limit : Nat]
  BY DEF Init, NoSweep
<1>5. position \in [Accounts -> PerpPosition]
  BY DEF Init, ZeroPosition, PerpPosition
<1>6. oo \in [Accounts -> [Slots -> PerpOpenOrder]]
  BY DEF Init, FreeSlot, PerpOpenOrder, Sides, Trees
<1>7. events \in Seq(Event) /\ Len(events) <= MaxEvents /\ DOMAIN events = {}
  BY <1>1 DEF Init
<1>8. TypeOK
  BY <1>1, <1>2, <1>3, <1>4, <1>5, <1>6, <1>7 DEF Init, TypeOK
<1>9. IsFiniteSet(book)
  BY FS_EmptySet DEF Init
<1>10. Linked(book, events, oo, market.seq_num)
  BY <1>7 DEF Init, Linked, FreeSlot, is_active
<1> QED
  BY <1>2, <1>8, <1>9, <1>10, Zenon DEF Init, IndInv

\* Every step of every instruction keeps the invariant.
LEMMA StepInv == IndInv /\ [Next]_vars => IndInv'
<1> SUFFICES ASSUME IndInv, [Next]_vars PROVE IndInv'
  OBVIOUS
<1>1. CASE \E a \in Accounts, o \in Requests : PlaceBegin(a, o)
  BY <1>1, BeginInv
<1>2. CASE PlaceStep
  BY <1>2, DropInv, CancelProvideInv, MatchInv, WithoutPostInv, AndPostInv, AbortInv
  DEF PlaceStep
<1>3. CASE \E a \in Accounts, slot \in Slots : perp_cancel_order(a, slot)
  BY <1>3, CancelInv
<1>4. CASE \E a \in Accounts, sides \in {{"Bid"}, {"Ask"}, Sides},
              limit \in CancelLimits : CancelAllBegin(a, sides, limit)
  BY <1>4, CancelAllBeginInv
<1>5. CASE CancelAllStep
  BY <1>5, CancelAllStepInv
<1>6. CASE perp_consume_events
  BY <1>6, ConsumeInv
<1>7. CASE \/ \E a \in Accounts : perp_deactivate_position(a)
           \/ perp_edit_market \/ Tick \/ MoveOracle
  BY <1>7, OtherInv
<1>8. CASE UNCHANGED vars
  BY <1>8, Zenon DEF vars, IndInv, TypeOK, Placing, Idle, PlacingInv, MatchedBook, QueueHasRoom
<1> QED
  BY <1>1, <1>2, <1>3, <1>4, <1>5, <1>6, <1>7, <1>8 DEF Next

\* The inductive invariant holds in every reachable state of the market.
THEOREM Invariance == Spec => []IndInv
  BY InitInv, StepInv, PTL DEF Spec

\* Every component keeps its type: the lots a placement still wants and the
\* quantities of resting orders never go negative, and the event queue never
\* holds more than its capacity.
THEOREM TypeCorrect == Spec => []TypeOK
<1>1. IndInv => TypeOK
  BY DEF IndInv
<1> QED
  BY <1>1, Invariance, PTL

\* The slot that a resting order names holds that order, whatever cancels, slot
\* reuse and late events came between.
THEOREM BookAndSlotsAgree == Spec => []BookSlotsAgree
<1>1. IndInv => BookSlotsAgree
  BY Zenon DEF IndInv, Linked, BookSlotsAgree
<1> QED
  BY <1>1, Invariance, PTL

\* No open-order slot leaks: its order rests on the book, or exactly one event
\* on the queue frees the slot, and never both.
THEOREM SlotsReleased == Spec => []SlotsAreReleased
<1>1. IndInv => SlotsAreReleased
  <2> SUFFICES ASSUME IndInv, NEW a \in Accounts, NEW slot \in Slots,
                      is_active(oo[a][slot])
               PROVE  LET id == oo[a][slot].id
                          onBook == \E o \in book : o.id = id
                          closing == {i \in DOMAIN events : Closes(events[i], a, slot, id)}
                      IN IF onBook THEN closing = {} ELSE \E i \in closing : closing = {i}
    BY Zenon DEF SlotsAreReleased
  <2> DEFINE id == oo[a][slot].id
             closing == {i \in DOMAIN events : Closes(events[i], a, slot, id)}
  <2>1. Linked(book, events, oo, market.seq_num)
    BY Zenon DEF IndInv
  <2>2. ASSUME NEW o \in book, o.id = id PROVE closing = {}
    BY <2>1, <2>2 DEF Linked, Closes
  <2>3. ASSUME ~\E o \in book : o.id = id PROVE \E i \in closing : closing = {i}
    <3>1. PICK i \in DOMAIN events : Closes(events[i], a, slot, id)
      BY <2>1, <2>3, Zenon DEF Linked
    <3>2. \A j \in closing : j = i
      BY <2>1, <3>1 DEF Linked, Closes
    <3> QED
      BY <3>1, <3>2
  <2> QED
    BY <2>2, <2>3, Zenon
<1> QED
  BY <1>1, Invariance, PTL
=============================================================================
