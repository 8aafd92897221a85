-------------------------- MODULE PerpLinksProofs ---------------------------
(* Lemmas about PerpOrders: what one change of the book, the event queue or  *)
(* a slot does to Linked, and that the operations return values of the       *)
(* right type.                                                               *)
EXTENDS PerpOrders, FiniteSetTheorems, TLAPS

OpenOrders == [Accounts -> [Slots -> PerpOpenOrder]]

-----------------------------------------------------------------------------
(* What one change of the book, the queue or a slot does to Linked *)

\* An order leaves the book and its closing event joins the queue: an order that
\* is dropped, evicted, cancelled by a self trade, or filled completely.
LEMMA CloseLinked ==
  ASSUME NEW B \in SUBSET LeafNode, NEW E \in Seq(Event), NEW O \in OpenOrders,
         NEW n \in Nat, Linked(B, E, O, n),
         NEW o \in B, NEW e \in Event, Closes(e, o.owner, o.slot, o.id)
  PROVE  Linked(B \ {o}, Append(E, e), O, n)
<1> DEFINE F == Append(E, e)
<1>1. /\ DOMAIN F = DOMAIN E \cup {Len(E) + 1} /\ Len(E) + 1 \notin DOMAIN E
      /\ F[Len(E) + 1] = e
      /\ \A i \in DOMAIN E : F[i] = E[i]
  OBVIOUS
<1> HIDE DEF F
<1>2. \A p \in B \ {o} : p \in B /\ p.id # o.id
  BY DEF Linked
<1>3. \A p \in B \ {o} : p.id <= n /\ \A q \in B \ {o} : p.id = q.id => p = q
  BY DEF Linked
<1>4. \A i \in DOMAIN F :
        /\ F[i].order_id <= n
        /\ F[i].maker_out => \A p \in B \ {o} : p.id # F[i].order_id
        /\ F[i].maker_out => \A j \in DOMAIN F :
             F[j].maker_out /\ F[j].order_id = F[i].order_id => j = i
  BY <1>1, <1>2 DEF Linked, Closes
<1>5. ASSUME NEW a \in Accounts, NEW slot \in Slots, is_active(O[a][slot])
      PROVE  \/ \E p \in B \ {o} : p.id = O[a][slot].id
             \/ \E i \in DOMAIN F : Closes(F[i], a, slot, O[a][slot].id)
  <2>1. CASE O[a][slot].id = o.id
    BY <1>1, <2>1 DEF Linked
  <2>2. CASE O[a][slot].id # o.id
    BY <1>1, <1>5, <2>2 DEF Linked
  <2> QED
    BY <2>1, <2>2
<1> QED
  BY <1>3, <1>4, <1>5, SMTT(20) DEF Linked, F

\* An order is filled in part: its quantity changes and the fill joins the queue.
LEMMA ReduceLinked ==
  ASSUME NEW B \in SUBSET LeafNode, NEW E \in Seq(Event), NEW O \in OpenOrders,
         NEW n \in Nat, Linked(B, E, O, n),
         NEW o \in B, NEW c \in LeafNode,
         c.id = o.id, c.side = o.side, c.tree = o.tree, c.owner = o.owner,
         c.slot = o.slot,
         NEW e \in Event, ~e.maker_out, e.order_id = o.id
  PROVE  Linked((B \ {o}) \cup {c}, Append(E, e), O, n)
<1> DEFINE F == Append(E, e)
           C == (B \ {o}) \cup {c}
<1>1. /\ DOMAIN F = DOMAIN E \cup {Len(E) + 1} /\ Len(E) + 1 \notin DOMAIN E
      /\ F[Len(E) + 1] = e
      /\ \A i \in DOMAIN E : F[i] = E[i]
  OBVIOUS
<1>2. \A p \in C : \E q \in B : /\ p.id = q.id /\ p.side = q.side /\ p.tree = q.tree
                                /\ p.owner = q.owner /\ p.slot = q.slot
  OBVIOUS
<1>3. \A q \in B : \E p \in C : p.id = q.id
  OBVIOUS
<1>4. \A p, q \in C : p.id = q.id => p = q
  BY DEF Linked
<1> HIDE DEF F, C
<1>5. \A p \in C : p.id <= n /\ \A q \in C : p.id = q.id => p = q
  BY <1>2, <1>4 DEF Linked
<1>6. \A p \in C : LET s == O[p.owner][p.slot]
                   IN s.id = p.id /\ s.side = p.side /\ s.tree = p.tree
  BY <1>2 DEF Linked
<1>7. \A a \in Accounts, slot \in Slots :
        /\ O[a][slot].id <= n
        /\ \A p \in C : p.id = O[a][slot].id => p.owner = a /\ p.slot = slot
  BY <1>2 DEF Linked
<1>8. \A i \in DOMAIN F :
        /\ F[i].order_id <= n
        /\ F[i].maker_out => \A p \in C : p.id # F[i].order_id
        /\ F[i].maker_out => \A j \in DOMAIN F :
             F[j].maker_out /\ F[j].order_id = F[i].order_id => j = i
  BY <1>1, <1>2 DEF Linked
<1>9. \A a \in Accounts, slot \in Slots :
        is_active(O[a][slot]) =>
          \/ \E p \in C : p.id = O[a][slot].id
          \/ \E i \in DOMAIN F : Closes(F[i], a, slot, O[a][slot].id)
  BY <1>1, <1>3 DEF Linked
<1> QED
  BY <1>5, <1>6, <1>7, <1>8, <1>9 DEF Linked, F, C

\* A new order takes the next id and a free slot (add_perp_order).
LEMMA PostLinked ==
  ASSUME NEW B \in SUBSET LeafNode, NEW E \in Seq(Event), NEW O \in OpenOrders,
         NEW n \in Nat, Linked(B, E, O, n),
         NEW o \in LeafNode, o.id = n + 1, ~is_active(O[o.owner][o.slot])
  PROVE  Linked(B \cup {o}, E, [O EXCEPT ![o.owner][o.slot] = OpenOrder(o)], n + 1)
<1> DEFINE P == [O EXCEPT ![o.owner][o.slot] = OpenOrder(o)]
           C == B \cup {o}
<1>1. /\ o.owner \in Accounts /\ o.slot \in Slots
      /\ \A p \in B : p.owner \in Accounts /\ p.slot \in Slots /\ p.id \in Nat \ {0}
      /\ \A a \in Accounts, slot \in Slots : O[a][slot].id \in Nat
      /\ \A i \in DOMAIN E : E[i].order_id \in Nat
  <2>1. \A p \in LeafNode : p.owner \in Accounts /\ p.slot \in Slots /\ p.id \in Nat \ {0}
    BY DEF LeafNode
  <2>2. \A a \in Accounts, slot \in Slots : O[a][slot] \in PerpOpenOrder
    BY DEF OpenOrders
  <2>3. \A s \in PerpOpenOrder : s.id \in Nat
    BY DEF PerpOpenOrder
  <2>4. \A i \in DOMAIN E : E[i] \in Event
    OBVIOUS
  <2>5. \A e \in Event : e.order_id \in Nat
    BY DEF Event
  <2> QED
    BY <2>1, <2>2, <2>3, <2>4, <2>5
<1>2. P[o.owner][o.slot] = OpenOrder(o)
  BY <1>1 DEF OpenOrders
<1>3. \A a \in Accounts, slot \in Slots :
        a # o.owner \/ slot # o.slot => P[a][slot] = O[a][slot]
  BY <1>1 DEF OpenOrders
<1>4. /\ OpenOrder(o).id = n + 1 /\ OpenOrder(o).side = o.side
      /\ OpenOrder(o).tree = o.tree
  BY DEF OpenOrder
<1> HIDE DEF P
<1>5. \A p \in B : p.id <= n /\ p.id # n + 1 /\ (p.owner # o.owner \/ p.slot # o.slot)
  BY <1>1 DEF Linked, is_active
<1>6. \A p \in C : p.id <= n + 1 /\ \A q \in C : p.id = q.id => p = q
  BY <1>1, <1>5 DEF Linked
<1>7. \A p \in C : LET s == P[p.owner][p.slot]
                   IN s.id = p.id /\ s.side = p.side /\ s.tree = p.tree
  BY <1>1, <1>2, <1>3, <1>4, <1>5 DEF Linked
<1>8. ASSUME NEW a \in Accounts, NEW slot \in Slots
      PROVE  /\ P[a][slot].id <= n + 1
             /\ \A p \in C : p.id = P[a][slot].id => p.owner = a /\ p.slot = slot
             /\ is_active(P[a][slot]) =>
                  \/ \E p \in C : p.id = P[a][slot].id
                  \/ \E i \in DOMAIN E : Closes(E[i], a, slot, P[a][slot].id)
  <2>1. CASE a = o.owner /\ slot = o.slot
    BY <1>1, <1>2, <1>4, <1>5, <2>1
  <2>2. CASE a # o.owner \/ slot # o.slot
    <3>1. P[a][slot] = O[a][slot] /\ O[a][slot].id <= n /\ O[a][slot].id \in Nat
      BY <1>1, <1>3, <2>2 DEF Linked
    <3> QED
      BY <3>1 DEF Linked
  <2> QED
    BY <2>1, <2>2
<1>9. \A i \in DOMAIN E :
        /\ E[i].order_id <= n + 1
        /\ E[i].maker_out => \A p \in C : p.id # E[i].order_id
        /\ E[i].maker_out => \A j \in DOMAIN E :
             E[j].maker_out /\ E[j].order_id = E[i].order_id => j = i
  BY <1>1 DEF Linked
<1>10. Linked(C, E, P, n + 1)
  BY <1>6, <1>7, <1>8, <1>9 DEF Linked
<1> QED
  BY <1>10, Zenon DEF P, C

\* C and P are B and O after slot of a was freed and its order, if it was on the
\* book, taken off.
Frees(B, C, O, P, a, slot) ==
  /\ \A o : o \in C <=> o \in B /\ o.id # O[a][slot].id
  /\ P[a][slot] = FreeSlot
  /\ \A b \in Accounts, t \in Slots : b # a \/ t # slot => P[b][t] = O[b][t]

\* A slot is freed: by its event, when its order is off the book and that event
\* is the head of the queue, or by a cancel that takes the order off the book.
LEMMA FreeLinked ==
  ASSUME NEW B \in SUBSET LeafNode, NEW E \in Seq(Event), NEW O \in OpenOrders,
         NEW n \in Nat, Linked(B, E, O, n),
         NEW a \in Accounts, NEW slot \in Slots,
         NEW C \in SUBSET LeafNode, NEW P, Frees(B, C, O, P, a, slot)
  PROVE  Linked(C, E, P, n)
<1>0. \A o : o \in C <=> o \in B /\ o.id # O[a][slot].id
  BY DEF Frees
<1>1. P[a][slot].id = 0
  BY DEF FreeSlot, Frees
<1>2. \A b \in Accounts, t \in Slots : b # a \/ t # slot => P[b][t] = O[b][t]
  BY DEF Frees
<1>3. \A o \in B : o.owner \in Accounts /\ o.slot \in Slots /\ o.id \in Nat \ {0}
  BY DEF LeafNode
<1>4. \A o \in C : o.owner # a \/ o.slot # slot
  BY <1>0, <1>3 DEF Linked
<1>5. \A o \in C : LET s == P[o.owner][o.slot]
                   IN s.id = o.id /\ s.side = o.side /\ s.tree = o.tree
  BY <1>0, <1>2, <1>3, <1>4 DEF Linked
<1>6. ASSUME NEW b \in Accounts, NEW t \in Slots
      PROVE  /\ P[b][t].id <= n
             /\ \A o \in C : o.id = P[b][t].id => o.owner = b /\ o.slot = t
             /\ is_active(P[b][t]) =>
                  \/ \E o \in C : o.id = P[b][t].id
                  \/ \E i \in DOMAIN E : Closes(E[i], b, t, P[b][t].id)
  <2>1. CASE b = a /\ t = slot
    BY <1>0, <1>1, <1>3, <2>1 DEF is_active
  <2>2. CASE b # a \/ t # slot
    <3>1. P[b][t] = O[b][t]
      BY <1>2, <2>2
    <3>2. ASSUME NEW o \in B, o.id = O[b][t].id PROVE o \in C
      BY <1>0, <2>2, <3>2 DEF Linked
    <3>3. /\ O[b][t].id <= n
          /\ \A o \in B : o.id = O[b][t].id => o.owner = b /\ o.slot = t
          /\ is_active(O[b][t]) =>
               \/ \E o \in B : o.id = O[b][t].id
               \/ \E i \in DOMAIN E : Closes(E[i], b, t, O[b][t].id)
      BY DEF Linked
    <3> QED
      BY <1>0, <3>1, <3>2, <3>3
  <2> QED
    BY <2>1, <2>2
<1>7. \A o \in C : o.id <= n /\ \A p \in C : o.id = p.id => o = p
  BY <1>0 DEF Linked
<1>8. \A i \in DOMAIN E :
        /\ E[i].order_id <= n
        /\ E[i].maker_out => \A o \in C : o.id # E[i].order_id
        /\ E[i].maker_out => \A j \in DOMAIN E :
             E[j].maker_out /\ E[j].order_id = E[i].order_id => j = i
  BY <1>0 DEF Linked
<1> QED
  BY <1>5, <1>6, <1>7, <1>8 DEF Linked

\* The head of the queue is dropped, once no slot needs it any more.
LEMMA PopLinked ==
  ASSUME NEW B \in SUBSET LeafNode, NEW E \in Seq(Event), NEW O \in OpenOrders,
         NEW n \in Nat, Linked(B, E, O, n), E # <<>>,
         Closes(Head(E), Head(E).owner, Head(E).slot, Head(E).order_id) =>
           O[Head(E).owner][Head(E).slot].id # Head(E).order_id
  PROVE  Linked(B, Tail(E), O, n)
<1> DEFINE F == Tail(E)
<1>1. /\ Head(E) = E[1] /\ Head(E) \in Event
      /\ \A i \in DOMAIN F : i + 1 \in DOMAIN E /\ F[i] = E[i + 1] /\ i \in Nat
      /\ \A i \in DOMAIN E : i # 1 => i - 1 \in DOMAIN F /\ F[i - 1] = E[i]
  <2>1. Len(E) \in Nat \ {0} /\ DOMAIN E = 1..Len(E)
    OBVIOUS
  <2>2. DOMAIN F = 1..(Len(E) - 1) /\ \A i \in 1..(Len(E) - 1) : F[i] = E[i + 1]
    BY <2>1
  <2>3. Head(E) = E[1] /\ Head(E) \in Event
    BY <2>1
  <2> HIDE DEF F
  <2>4. \A i \in DOMAIN E : i # 1 => i - 1 \in 1..(Len(E) - 1) /\ (i - 1) + 1 = i
    BY <2>1
  <2> QED
    BY <2>1, <2>2, <2>3, <2>4
<1> HIDE DEF F
<1>2. \A i \in DOMAIN F :
        /\ F[i].order_id <= n
        /\ F[i].maker_out => \A o \in B : o.id # F[i].order_id
  BY <1>1 DEF Linked
<1>3. ASSUME NEW i \in DOMAIN F, NEW j \in DOMAIN F, F[i].maker_out, F[j].maker_out,
             F[j].order_id = F[i].order_id
      PROVE  j = i
  <2>1. i \in Nat /\ j \in Nat /\ i + 1 \in DOMAIN E /\ j + 1 \in DOMAIN E
        /\ F[i] = E[i + 1] /\ F[j] = E[j + 1]
    BY <1>1
  <2>2. i + 1 = j + 1
    BY <1>3, <2>1 DEF Linked
  <2> QED
    BY <2>1, <2>2
<1>4. ASSUME NEW a \in Accounts, NEW slot \in Slots, is_active(O[a][slot])
      PROVE  \/ \E o \in B : o.id = O[a][slot].id
             \/ \E i \in DOMAIN F : Closes(F[i], a, slot, O[a][slot].id)
  <2>1. CASE \E o \in B : o.id = O[a][slot].id
    BY <2>1
  <2>2. CASE \E i \in DOMAIN E : Closes(E[i], a, slot, O[a][slot].id)
    <3>1. PICK i \in DOMAIN E : Closes(E[i], a, slot, O[a][slot].id)
      BY <2>2
    <3>2. i # 1
      BY <1>1, <3>1 DEF Closes
    <3> QED
      BY <1>1, <3>1, <3>2
  <2> QED
    BY <1>4, <2>1, <2>2 DEF Linked
<1> QED
  BY <1>2, <1>3, <1>4 DEF Linked, F

\* An id that was given to no order does no harm.
LEMMA SkipLinked ==
  ASSUME NEW B \in SUBSET LeafNode, NEW E \in Seq(Event), NEW O \in OpenOrders,
         NEW n \in Nat, Linked(B, E, O, n)
  PROVE  Linked(B, E, O, n + 1)
<1>1. /\ \A o \in LeafNode : o.id \in Nat
      /\ \A e \in Event : e.order_id \in Nat
      /\ \A s \in PerpOpenOrder : s.id \in Nat
  BY DEF LeafNode, Event, PerpOpenOrder
<1>2. \A a \in Accounts, slot \in Slots : O[a][slot] \in PerpOpenOrder
  BY DEF OpenOrders
<1>3. \A i \in DOMAIN E : E[i] \in Event
  OBVIOUS
<1> QED
  BY <1>1, <1>2, <1>3 DEF Linked

\* Only the id, the side and the tree of a slot matter for Linked.
LEMMA SameLinked ==
  ASSUME NEW B \in SUBSET LeafNode, NEW E, NEW O, NEW P, NEW n, Linked(B, E, O, n),
         \A a \in Accounts, slot \in Slots :
           /\ P[a][slot].id = O[a][slot].id /\ P[a][slot].side = O[a][slot].side
           /\ P[a][slot].tree = O[a][slot].tree
  PROVE  Linked(B, E, P, n)
<1>1. \A o \in B : o.owner \in Accounts /\ o.slot \in Slots
  BY Zenon DEF LeafNode
<1> QED
  BY <1>1 DEF Linked, is_active

\* P are the slots O after the event e settled the slot it names.
Settles(O, P, e) ==
  /\ P[e.owner][e.slot] = SettleSlot(O[e.owner][e.slot], e)
  /\ \A a \in Accounts, t \in Slots :
       a # e.owner \/ t # e.slot => P[a][t] = O[a][t]

\* An event settles its slot and leaves the queue: it frees the slot of the order
\* it closes and no other.
LEMMA SettleLinked ==
  ASSUME NEW B \in SUBSET LeafNode, NEW E \in Seq(Event), NEW O \in OpenOrders,
         NEW n \in Nat, Linked(B, E, O, n), E # <<>>,
         NEW P \in OpenOrders, Settles(O, P, Head(E))
  PROVE  Linked(B, Tail(E), P, n)
<1> DEFINE e == Head(E)
           s == O[e.owner][e.slot]
<1>1. e = E[1] /\ 1 \in DOMAIN E /\ e \in Event
  OBVIOUS
<1>1a. /\ P[e.owner][e.slot] = SettleSlot(s, e)
       /\ \A a \in Accounts, t \in Slots :
            a # e.owner \/ t # e.slot => P[a][t] = O[a][t]
  BY Zenon DEF Settles
<1> HIDE DEF e
<1>2. e.owner \in Accounts /\ e.slot \in Slots /\ e.order_id \in Nat \ {0}
  BY <1>1 DEF Event
<1>3. s \in PerpOpenOrder
  BY <1>2 DEF OpenOrders
<1>4. CASE s.id = e.order_id /\ e.maker_out
  <2>1. P[e.owner][e.slot] = FreeSlot /\ P[e.owner][e.slot].id # e.order_id
    BY <1>1a, <1>2, <1>4 DEF SettleSlot, is_active, FreeSlot
  <2>2. Frees(B, B, O, P, e.owner, e.slot)
    <3>1. \A o \in B : o.id # s.id
      BY <1>1, <1>4 DEF Linked
    <3> QED
      BY <1>1a, <2>1, <3>1, Zenon DEF Frees
  <2>3. Linked(B, E, P, n)
    BY <1>2, <2>2, FreeLinked
  <2> QED
    BY <2>1, <2>3, PopLinked DEF e
<1>5. CASE ~(s.id = e.order_id /\ e.maker_out)
  <2>1. SettleSlot(s, e).id = s.id /\ SettleSlot(s, e).side = s.side
        /\ SettleSlot(s, e).tree = s.tree
    BY <1>3, <1>5 DEF SettleSlot, PerpOpenOrder
  <2>2. \A a \in Accounts, t \in Slots :
          /\ P[a][t].id = O[a][t].id /\ P[a][t].side = O[a][t].side
          /\ P[a][t].tree = O[a][t].tree
    BY <1>1a, <2>1, Zenon
  <2>3. Linked(B, E, P, n)
    BY <2>2, SameLinked
  <2>4. Closes(e, e.owner, e.slot, e.order_id) => P[e.owner][e.slot].id # e.order_id
    BY <1>1a, <1>5, <2>1, Zenon DEF Closes
  <2> QED
    BY <2>3, <2>4, PopLinked, SMTT(20) DEF e
<1> QED
  BY <1>4, <1>5, Zenon

\* Event queue and pushed events together grow at their end.
LEMMA PushLast ==
  ASSUME NEW s \in Seq(Event), NEW t \in Seq(Event), NEW e \in Event
  PROVE  s \o Append(t, e) = Append(s \o t, e)
  OBVIOUS

-----------------------------------------------------------------------------
(* Arithmetic and types *)

\* Min and Max of two or three lots.
LEMMA MinMaxPair ==
  ASSUME NEW m \in Int, NEW n \in Int
  PROVE  /\ Min({m, n}) \in {m, n} /\ Min({m, n}) <= m /\ Min({m, n}) <= n
         /\ Max({m, n}) \in {m, n} /\ Max({m, n}) >= m /\ Max({m, n}) >= n
<1>1. \E x \in {m, n} : \A y \in {m, n} : x <= y
  OBVIOUS
<1>2. \E x \in {m, n} : \A y \in {m, n} : x >= y
  OBVIOUS
<1>3. Min({m, n}) \in {m, n} /\ \A y \in {m, n} : Min({m, n}) <= y
  BY <1>1 DEF Min
<1>4. Max({m, n}) \in {m, n} /\ \A y \in {m, n} : Max({m, n}) >= y
  BY <1>2 DEF Max
<1> QED
  BY <1>3, <1>4

LEMMA MinTriple ==
  ASSUME NEW k \in Int, NEW m \in Int, NEW n \in Int
  PROVE  /\ Min({k, m, n}) \in {k, m, n}
         /\ Min({k, m, n}) <= k /\ Min({k, m, n}) <= m /\ Min({k, m, n}) <= n
<1>1. \E x \in {k, m, n} : \A y \in {k, m, n} : x <= y
  OBVIOUS
<1>2. Min({k, m, n}) \in {k, m, n} /\ \A y \in {k, m, n} : Min({k, m, n}) <= y
  BY <1>1 DEF Min
<1> QED
  BY <1>2

\* Lots that the remaining quote pays for do not cost more than it.
LEMMA QuoteSuffices ==
  ASSUME NEW quote \in Nat, NEW price \in Nat \ {0}, NEW lots \in Nat,
         lots <= quote \div price
  PROVE  lots * price \in Nat /\ quote - lots * price \in Nat
<1>1. quote = price * (quote \div price) + (quote % price) /\ quote % price \in 0..(price - 1)
      /\ quote \div price \in Nat
  OBVIOUS
<1> DEFINE q == quote \div price
<1> HIDE DEF q
<1>2. lots * price <= price * q /\ lots * price \in Nat
  BY <1>1 DEF q
<1>3. price * q <= quote /\ price * q \in Nat
  BY <1>1 DEF q
<1> QED
  BY <1>2, <1>3

\* What lib.rs has checked of a request.
LEMMA RequestFacts ==
  ASSUME NEW o \in Requests
  PROVE  /\ o.side \in Sides /\ o.pegged \in BOOLEAN /\ o.queued \in BOOLEAN
         /\ o.price \in Int /\ o.peg_limit \in Int /\ o.reduce_only \in BOOLEAN
         /\ o.max_base_lots \in Nat /\ o.max_quote_lots \in Nat
         /\ o.expiry \in Nat /\ o.limit \in Nat
BY PerpOrdersAssumption DEF PerpOrdersAssumption, Request

\* The price of an order on the book is positive.
LEMMA PriceFacts ==
  ASSUME NEW o \in LeafNode, o.tree = "Fixed" => o.price_data > 0,
         oracle \in OraclePrices
  PROVE  PriceOf(o) \in Nat \ {0}
<1>1. o.price_data \in Int /\ oracle \in Nat \ {0} /\ MaxPrice \in Nat \ {0}
  BY PerpOrdersAssumption DEF PerpOrdersAssumption, LeafNode
<1> QED
  BY <1>1 DEF PriceOf, Clamp

\* Events about an order on the book are events.
LEMMA EventTypes ==
  ASSUME NEW o \in LeafNode
  PROVE  /\ OutEvent(o) \in Event
         /\ Closes(OutEvent(o), o.owner, o.slot, o.id)
         /\ \A lots \in Nat \ {0}, taker \in Accounts :
              PriceOf(o) \in Int =>
              /\ FillEvent(o, lots, taker) \in Event
              /\ FillEvent(o, lots, taker).order_id = o.id
              /\ IF lots = o.quantity
                 THEN Closes(FillEvent(o, lots, taker), o.owner, o.slot, o.id)
                 ELSE ~FillEvent(o, lots, taker).maker_out
<1>1. /\ o.id \in Nat \ {0} /\ o.side \in Sides /\ o.owner \in Accounts
      /\ o.slot \in Slots /\ o.quantity \in Nat \ {0}
  BY DEF LeafNode
<1>2. OutEvent(o) \in Event /\ Closes(OutEvent(o), o.owner, o.slot, o.id)
  BY <1>1 DEF OutEvent, Event, Closes
<1>3. ASSUME NEW lots \in Nat \ {0}, NEW taker \in Accounts, PriceOf(o) \in Int
      PROVE  /\ FillEvent(o, lots, taker) \in Event
             /\ FillEvent(o, lots, taker).order_id = o.id
             /\ IF lots = o.quantity
                THEN Closes(FillEvent(o, lots, taker), o.owner, o.slot, o.id)
                ELSE ~FillEvent(o, lots, taker).maker_out
  BY <1>1, <1>3, Zenon DEF FillEvent, Event, Closes
<1> QED
  BY <1>2, <1>3

\* The operations on a position return a position.
LEMMA PositionTypes ==
  ASSUME NEW p \in PerpPosition, NEW side \in Sides, NEW base \in Int, NEW quote \in Int
  PROVE  /\ adjust_maker_lots(p, side, base) \in PerpPosition
         /\ add_taker_trade(p, side, base, quote) \in PerpPosition
         /\ [p EXCEPT !.base = p.base + Signed(side, base)] \in PerpPosition
<1>1. Signed(side, base) \in Int /\ Signed(side, quote) \in Int
  BY DEF Signed
<1>3. adjust_maker_lots(p, side, base) \in PerpPosition
  BY DEF adjust_maker_lots, PerpPosition
<1>4. add_taker_trade(p, side, base, quote) \in PerpPosition
  <2>1. p.taker_base + Signed(side, base) \in Int /\ p.taker_quote - Signed(side, quote) \in Int
    BY <1>1 DEF PerpPosition
  <2> QED
    BY <2>1, Zenon DEF add_taker_trade, PerpPosition
<1>5. [p EXCEPT !.base = p.base + Signed(side, base)] \in PerpPosition
  <2>1. p.base + Signed(side, base) \in Int
    BY <1>1 DEF PerpPosition
  <2> QED
    BY <2>1 DEF PerpPosition
<1> QED
  BY <1>3, <1>4, <1>5

\* A settled slot is a slot.
LEMMA SettleType ==
  ASSUME NEW s \in PerpOpenOrder, NEW e \in Event
  PROVE  SettleSlot(s, e) \in PerpOpenOrder
<1>1. FreeSlot \in PerpOpenOrder
  BY DEF FreeSlot, PerpOpenOrder, Sides, Trees
<1>2. (IF s.quantity > e.quantity THEN s.quantity - e.quantity ELSE 0) \in Nat
  BY DEF PerpOpenOrder, Event
<1>3. [s EXCEPT !.quantity = IF @ > e.quantity THEN @ - e.quantity ELSE 0] \in PerpOpenOrder
  BY <1>2 DEF PerpOpenOrder
<1> QED
  BY <1>1, <1>3 DEF SettleSlot

\* The events change a position to a position.
LEMMA ExecuteTypes ==
  ASSUME NEW p \in PerpPosition, NEW e \in Event
  PROVE  /\ execute_perp_maker(p, e) \in PerpPosition
         /\ execute_perp_taker(p, e) \in PerpPosition
         /\ execute_perp_out_event(p, e) \in PerpPosition
<1> DEFINE side == invert_side(e.side)
           quote == e.quantity * e.price
           q == add_taker_trade(p, side, -e.quantity, -quote)
<1>1. /\ e.side \in Sides /\ side \in Sides
      /\ e.quantity \in Int /\ -e.quantity \in Int /\ e.price \in Int
  BY DEF Event, Sides, invert_side
<1>2. quote \in Int /\ -quote \in Int
  BY <1>1
<1> HIDE DEF side, quote
<1>3. execute_perp_maker(p, e) \in PerpPosition
  <2>1. [p EXCEPT !.base = p.base + Signed(e.side, e.quantity)] \in PerpPosition
    BY <1>1, PositionTypes
  <2> QED
    BY <1>1, <2>1, PositionTypes, Zenon DEF execute_perp_maker
<1>4. execute_perp_taker(p, e) \in PerpPosition
  <2>1. q \in PerpPosition
    BY <1>1, <1>2, PositionTypes, Zenon
  <2> HIDE DEF q
  <2>2. [q EXCEPT !.base = q.base + Signed(side, e.quantity)] \in PerpPosition
    BY <1>1, <2>1, PositionTypes
  <2> QED
    BY <2>2 DEF execute_perp_taker, q, side, quote
<1>5. execute_perp_out_event(p, e) \in PerpPosition
  BY <1>1, PositionTypes, Zenon DEF execute_perp_out_event
<1> QED
  BY <1>3, <1>4, <1>5
=============================================================================
