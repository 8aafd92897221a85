------------------------------ MODULE SerumDex ------------------------------
(***************************************************************************)
(* The external order-matching program, as the program uses it through     *)
(* serum3_cpi.rs: what its calls do to an open orders account, to the      *)
(* resting orders and to the tokens paid in or out.  Matching goes on      *)
(* between the calls: a fill of a resting order is an event first, and the *)
(* open orders account shows it once the event is consumed.                *)
(***************************************************************************)
EXTENDS Integers, FiniteSets, FiniteSetsExt, Sequences

CONSTANTS
  TAKER_FEE,    \* quote tokens a taker pays for a lot
  REBATE        \* what of it goes to the referrer

DexAssumption == TAKER_FEE \in Nat /\ REBATE \in 0..TAKER_FEE

Tokens == {"base", "quote"}
Sides == {"bid", "ask"}
Payer(side) == IF side = "bid" THEN "quote" ELSE "base"
Receiver(side) == IF side = "bid" THEN "base" ELSE "quote"
Zero == [t \in Tokens |-> 0]

Order(Owners, Prices) ==
  [id : Nat, owner : Owners, side : Sides, price : Prices, qty : Nat]

\* Slots are numbered; an order gets the first free one.  A slot stays taken until the event that ends the order is consumed.
OpenOrders ==
  [free : [Tokens -> Nat], total : [Tokens -> Nat], rebates : Nat,
   slots : SUBSET [n : Nat, id : Nat, side : Sides]]
EmptyOpenOrders == [free |-> Zero, total |-> Zero, rebates |-> 0, slots |-> {}]

reserved(oo, t) == oo.total[t] - oo.free[t]
FirstFree(oo) == Min({n \in 0 .. Cardinality(oo.slots) : \A s \in oo.slots : s.n # n})
HasSide(oo, side) == \E s \in oo.slots : s.side = side

\* What an order of qty lots locks, and what it gives when they trade.
Locks(side, price, qty) == IF side = "bid" THEN price * qty ELSE qty
Gives(side, price, qty) == IF side = "bid" THEN qty ELSE price * qty

Better(side, at, limit) == IF side = "bid" THEN at <= limit ELSE at >= limit
Crosses(side, limit, o) ==
  o.side # side /\ (IF side = "bid" THEN o.price <= limit ELSE o.price >= limit)

\* max_native_quote_qty_including_fees of a bid, the lots of an ask.
MaxLocked(side, limit, qty) ==
  IF side = "bid" THEN (limit + TAKER_FEE) * qty ELSE qty

\* All that may be needed is locked, first from the free tokens.  "taken" lots
\* trade at once at the price "at"; the rest is posted or given up.
NewOrder(oo, a, id, side, limit, qty, taken, at, post) ==
  LET pay == Payer(side)
      get == Receiver(side)
      max == MaxLocked(side, limit, qty)
      unpaid == IF max > oo.free[pay] THEN max - oo.free[pay] ELSE 0
      spent == IF side = "bid" THEN (at + TAKER_FEE) * taken ELSE taken
      got == IF side = "bid" THEN taken ELSE (at - TAKER_FEE) * taken
      rest == IF post THEN qty - taken ELSE 0
  IN  [paid |-> unpaid,
       posted |-> IF rest = 0 THEN {}
                  ELSE {[id |-> id, owner |-> a, side |-> side, price |-> limit, qty |-> rest]},
       oo |-> [oo EXCEPT
                 !.free[pay] = @ + unpaid - spent - Locks(side, limit, rest),
                 !.total[pay] = @ + unpaid - spent,
                 !.free[get] = @ + got,
                 !.total[get] = @ + got,
                 !.rebates = @ + REBATE * taken,
                 !.slots = @ \cup (IF rest = 0 THEN {} ELSE {[n |-> FirstFree(oo), id |-> id, side |-> side]})]]

\* cancel_one: the tokens are free at once, the slot when the event is consumed.
cancel_one(oo, o) ==
  [oo EXCEPT !.free[Payer(o.side)] = @ + Locks(o.side, o.price, o.qty)]

cancel_each(oo, orders) ==
  [oo EXCEPT !.free = [t \in Tokens |-> @[t] +
     MapThenSumSet(LAMBDA o : IF Payer(o.side) = t THEN Locks(o.side, o.price, o.qty) ELSE 0,
                   orders)]]

OrdersOf(slots, book) == {o \in book : \E s \in slots : s.id = o.id}
FirstSlots(slots, limit) == {s \in slots : Cardinality({r \in slots : r.n < s.n}) < limit}

\* cancel_all: the first orders, in the order of the slots, that still rest.
cancel_all(oo, book, limit) ==
  LET resting == {s \in oo.slots : \E o \in book : o.id = s.id}
  IN  {OrdersOf(FirstSlots(resting, limit), book)}

\* All free tokens and the rebates go to the vaults.
SettledTokens(oo) == [oo.free EXCEPT !["quote"] = @ + oo.rebates]
SettleFunds(oo) ==
  [oo EXCEPT !.free = Zero, !.total = [t \in Tokens |-> @[t] - oo.free[t]], !.rebates = 0]

CanClose(oo) == oo.total = Zero /\ oo.slots = {}

Event(o, qty) == [order |-> o, qty |-> qty, out |-> qty = o.qty]
OutEvent(o) == [order |-> o, qty |-> 0, out |-> TRUE]
Events(Owners, Prices) == [order : Order(Owners, Prices), qty : Nat, out : BOOLEAN]

\* A consumed event: tokens change hands at the price of the order.
ConsumeEvent(oo, e) ==
  LET o == e.order
      lost == Locks(o.side, o.price, e.qty)
      got == Gives(o.side, o.price, e.qty)
  IN  [oo EXCEPT !.total[Payer(o.side)] = @ - lost,
                 !.total[Receiver(o.side)] = @ + got,
                 !.free[Receiver(o.side)] = @ + got,
                 !.slots = {s \in @ : ~(e.out /\ s.id = o.id)}]
=============================================================================
