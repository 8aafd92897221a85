----------------------------- MODULE SerumOrders -----------------------------
(***************************************************************************)
(* Spot orders on the external order-matching program: tokens of the banks *)
(* are lent to the open orders account of a mango account, trade there     *)
(* while the program does not look, and come back when they are settled.   *)
(* The program keeps an account of them from what it reads before and      *)
(* after its calls.  One market; the indexes of the banks do not move;     *)
(* prices are quote tokens per lot of one base token.                      *)
(***************************************************************************)
EXTENDS SerumDex, FixedPoint, SequencesExt

CONSTANTS
  Accounts,
  Funds,             \* token -> balance of every account at the start (tokens)
  Lender,            \* token -> deposits of the others
  Weights,           \* health type -> token -> [asset, liab] (bits)
  Oracles,           \* price functions token -> bits
  Limits, Qtys,      \* prices and sizes of orders
  Amounts,           \* of deposits
  Edits,             \* what the admin does to a flag: subset of {"keep", "yes", "no"}
  DEPOSIT_LIMIT,     \* token -> deposit_limit, 0 is none
  NO_DEPOSITS, NO_BORROWS,   \* tokens that are reduce-only
  MAX_UTILIZATION, FEE_RATE,
  BAND,              \* oracle_price_band (bits), 0 is none
  GATES,             \* enabled place order instructions: subset of {1, 2}
  HEALTH_GRACE,
  MaxOrders, MaxEvents, MaxDeposits

SerumAssumption ==
  /\ OneAssumption /\ DexAssumption
  /\ GATES \subseteq {1, 2} /\ GATES # {}
  /\ \A w \in {"Init", "Maint"} : \A t \in Tokens :
       Weights[w][t].asset <= ONE /\ ONE <= Weights[w][t].liab
  /\ \A p \in Limits : p \in Nat \ {0}

VARIABLES
  position,     \* account -> token -> native balance (bits)
  orders,       \* account -> its Serum3Orders
  flagged,      \* account -> being_liquidated
  vault,        \* token -> tokens in the bank's vault
  potential,    \* token -> potential_serum_tokens of the bank
  collected,    \* token -> collected_fees_native of the bank (bits)
  market,       \* the flags of the Serum3Market
  oracle,
  oo, book, events,    \* the external program: open orders accounts, resting orders, events
  next_id, deposits    \* orders and deposits so far

accounts == <<position, orders, flagged>>
bank == <<vault, potential, collected>>
dex == <<oo, book, events>>
vars == <<accounts, bank, market, oracle, dex, next_id, deposits>>

Serum3Orders ==
  [active : BOOLEAN, borrows_without_fee : [Tokens -> Nat], potential : [Tokens -> Nat],
   highest_bid_inv : Nat, lowest_bid_inv : Nat, lowest_ask : Nat, highest_ask : Nat]
NoOrders ==
  [active |-> FALSE, borrows_without_fee |-> Zero, potential |-> Zero,
   highest_bid_inv |-> 0, lowest_bid_inv |-> 0, lowest_ask |-> 0, highest_ask |-> 0]

Serum3Market == [reduce_only : BOOLEAN, force_close : BOOLEAN]

-----------------------------------------------------------------------------
(* Banks *)

SumOver(f) == MapThenSumSet(LAMBDA a : f[a], Accounts)

native_deposits(pos, t) ==
  FixInt(Lender[t]) + SumOver([a \in Accounts |-> Larger(0, pos[a][t])])
native_borrows(pos, t) == SumOver([a \in Accounts |-> Larger(0, -pos[a][t])])

enforce_max_utilization(pos, t, max) ==
  native_borrows(pos, t) <= FixMul(max, native_deposits(pos, t))

check_deposit_and_oo_limit(pos, pot, t) ==
  DEPOSIT_LIMIT[t] = 0 \/ native_deposits(pos, t) + FixInt(pot[t]) <= FixInt(DEPOSIT_LIMIT[t])

update_potential_serum_tokens(p, old, new) ==
  IF new >= old THEN p + new - old ELSE Larger(0, p - (old - new))

-----------------------------------------------------------------------------
(* Health of an account with balance "pos", order record s, open orders o *)

reserved_as_base(s, o) ==
  LET by_oracle == FixDiv(reserved(o, "quote") * oracle["quote"], oracle["base"])
      by_bid == reserved(o, "quote") * s.highest_bid_inv
  IN  FixInt(reserved(o, "base")) + IF by_bid # 0 THEN Smaller(by_oracle, by_bid) ELSE by_oracle

\* Fault: asks below the oracle price are valued at the oracle price.
ReservedAsQuoteByOracle(s, o) ==
  FixInt(reserved(o, "quote")) + FixDiv(reserved(o, "base") * oracle["base"], oracle["quote"])

reserved_as_quote(s, o) ==
  LET by_oracle == FixDiv(reserved(o, "base") * oracle["base"], oracle["quote"])
      by_ask == reserved(o, "base") * s.lowest_ask
  IN  FixInt(reserved(o, "quote")) + IF by_ask # 0 THEN Smaller(by_oracle, by_ask) ELSE by_oracle

total_serum3_potential(s, o, t) ==
  IF t = "base" THEN reserved_as_base(s, o) ELSE reserved_as_quote(s, o)

Weighted(type, t, amount, w) == FixMul(FixMul(amount, Weights[type][t][w]), oracle[t])

token_contribution(type, t, balance) ==
  Weighted(type, t, balance, IF balance < 0 THEN "liab" ELSE "asset")

\* What "amount" more of the token, added last, does to the health.
compute_health_effect(type, t, balance, amount) ==
  LET max_balance == balance + amount
      asset_part == Clamped(max_balance, 0, amount)
  IN  Weighted(type, t, asset_part, "asset") + Weighted(type, t, amount - asset_part, "liab")

serum_contribution(type, bal, s, o) ==
  LET in_base == reserved_as_base(s, o)
      in_quote == reserved_as_quote(s, o)
  IN  IF in_base = 0 \/ in_quote = 0 THEN 0
      ELSE Smaller(compute_health_effect(type, "base", bal["base"], in_base),
                   compute_health_effect(type, "quote", bal["quote"], in_quote))

\* Free tokens count as balance.
Balances(pos, o) == [t \in Tokens |-> pos[t] + FixInt(o.free[t])]

health(type, pos, s, o) ==
  LET bal == Balances(pos, o)
  IN  token_contribution(type, "base", bal["base"])
        + token_contribution(type, "quote", bal["quote"])
        + serum_contribution(type, bal, s, o)

HealthOf(type, a) == health(type, position[a], orders[a], oo[a])

\* maybe_recover_from_being_liquidated, with LiquidationEnd = Init health here.
Recovers(h) == h > -ONE

check_health_pre(a) == flagged[a] => Recovers(HealthOf("Init", a))

check_health_post(pre, post) ==
  \/ post >= 0
  \/ IF post < -FixInt(HEALTH_GRACE) THEN FixCeil(post) >= FixCeil(pre) ELSE post >= pre

-----------------------------------------------------------------------------
(* What the instructions record about the orders of an account *)

InversePrice(price) == FixDiv(ONE, FixInt(price))
LowestSet(a, b) == IF a = 0 THEN b ELSE Smaller(a, b)

\* The bounds of placed prices start anew when no order of the side held a slot.
track_prices(s, before, after, side, limit) ==
  LET bids == IF HasSide(before, "bid") THEN s
              ELSE [s EXCEPT !.highest_bid_inv = 0, !.lowest_bid_inv = 0]
      asks == IF HasSide(before, "ask") THEN bids
              ELSE [bids EXCEPT !.lowest_ask = 0, !.highest_ask = 0]
  IN  IF after.slots = before.slots THEN asks
      ELSE IF side = "ask"
      THEN [asks EXCEPT !.lowest_ask = LowestSet(@, FixInt(limit)),
                        !.highest_ask = Larger(@, FixInt(limit))]
      ELSE [asks EXCEPT !.highest_bid_inv = LowestSet(@, InversePrice(limit)),
                        !.lowest_bid_inv = Larger(@, InversePrice(limit))]

PotentialOf(s, o) ==
  [t \in Tokens |->
     o.total[t] + FixFloor(IF t = "base" THEN reserved(o, "quote") * s.lowest_bid_inv
                           ELSE reserved(o, "base") * s.highest_ask)]

\* The tokens that may flow out, on the account and on the banks in ts.
Tracked(s, pot, o, ts) ==
  LET new == [t \in Tokens |-> IF t \in ts THEN PotentialOf(s, o)[t] ELSE s.potential[t]]
  IN  [orders |-> [s EXCEPT !.potential = new],
       potential |-> [t \in Tokens |->
         IF t \in ts THEN update_potential_serum_tokens(pot[t], s.potential[t], new[t]) ELSE pot[t]]]

update_bank_potential_tokens(s, pot, o) == Tracked(s, pot, o, Tokens)
update_bank_potential_tokens_payer_only(s, pot, o, pay) == Tracked(s, pot, o, {pay})

\* The tokens a vault gained or lost are the account's; what was borrowed is kept.
apply_vault_difference(pos, s, t, change) ==
  LET after == pos[t] + FixInt(change)
      new_borrows == FixFloor(-Smaller(0, Larger(FixInt(change), after)))
      tracked == s.borrows_without_fee[t] + new_borrows
  IN  [position |-> [pos EXCEPT ![t] = after],
       orders |-> [s EXCEPT !.borrows_without_fee[t] =
                     IF change > 0 THEN Larger(0, tracked - change) ELSE tracked]]

\* Loans that are more than what is left on the open orders account were used.
UsedLoans(s, o) == [t \in Tokens |-> Larger(0, s.borrows_without_fee[t] - o.total[t])]

charge_loan_origination_fees(pos, s, o) ==
  LET loan == UsedLoans(s, o)
      fee == [t \in Tokens |-> FixMul(FixInt(loan[t]), FEE_RATE)]
  IN  [fee |-> fee,
       position |-> [t \in Tokens |-> pos[t] - fee[t]],
       orders |-> [s EXCEPT !.borrows_without_fee =
                     [t \in Tokens |-> Smaller(@[t], o.total[t])]]]

\* Fault: the rebates that go to the DAO are credited to the account as well.
SettleCreditingRebates(c, before, settled, to_dao) ==
  LET received == IF to_dao THEN before.rebates ELSE 0
      base == apply_vault_difference(c.position, c.orders, "base", SettledTokens(settled)["base"])
      both == apply_vault_difference(base.position, base.orders, "quote",
                                     SettledTokens(settled)["quote"])
      kept == update_bank_potential_tokens(both.orders, potential, SettleFunds(settled))
  IN  [position |-> both.position, orders |-> kept.orders, potential |-> kept.potential,
       received |-> received]

\* c is the account after its fees; "before" was read before "settled" was settled.
apply_settle_changes(c, before, settled, to_dao) ==
  LET received == IF to_dao THEN before.rebates ELSE 0
      base == apply_vault_difference(c.position, c.orders, "base", SettledTokens(settled)["base"])
      both == apply_vault_difference(base.position, base.orders, "quote",
                                     SettledTokens(settled)["quote"] - received)
      kept == update_bank_potential_tokens(both.orders, potential, SettleFunds(settled))
  IN  [position |-> both.position, orders |-> kept.orders, potential |-> kept.potential,
       received |-> received]

\* The effect of charging and settling an account whose orders "cancelled" are cancelled.
Settle(a, cancelled, to_dao) ==
  \E c \in {charge_loan_origination_fees(position[a], orders[a], oo[a])} :
  \E settled \in {cancel_each(oo[a], cancelled)} :
  \E s \in {apply_settle_changes(c, oo[a], settled, to_dao)} :
    /\ position' = [position EXCEPT ![a] = s.position]
    /\ orders' = [orders EXCEPT ![a] = s.orders]
    /\ potential' = s.potential
    /\ collected' = [t \in Tokens |-> collected[t] + c.fee[t] +
                       IF t = "quote" THEN FixInt(s.received) ELSE 0]
    /\ vault' = [t \in Tokens |-> vault[t] + SettledTokens(settled)[t]]
    /\ oo' = [oo EXCEPT ![a] = SettleFunds(settled)]

-----------------------------------------------------------------------------
(* Instructions *)

serum3_create_open_orders(a) ==
  /\ ~orders[a].active
  /\ orders' = [orders EXCEPT ![a] = [NoOrders EXCEPT !.active = TRUE]]
  /\ oo' = [oo EXCEPT ![a] = EmptyOpenOrders]
  /\ UNCHANGED <<position, flagged, bank, market, oracle, book, events, next_id, deposits>>

serum3_close_open_orders(a) ==
  /\ orders[a].active
  /\ CanClose(oo[a])
  /\ orders' = [orders EXCEPT ![a] = NoOrders]
  /\ oo' = [oo EXCEPT ![a] = EmptyOpenOrders]
  /\ UNCHANGED <<position, flagged, bank, market, oracle, book, events, next_id, deposits>>

InBand(side, limit) ==
  LET usd == limit * oracle["quote"]
  IN  BAND = 0 \/ IF side = "bid" THEN FixMul(usd, ONE + BAND) >= oracle["base"]
                  ELSE usd <= FixMul(oracle["base"], ONE + BAND)

\* An order that needs a loan is checked like a borrow, and may become a deposit later.
PayerBankAllows(borrows, pos, pot, t) ==
  IF borrows
  THEN /\ t \notin NO_BORROWS
       /\ enforce_max_utilization(pos, t, MAX_UTILIZATION)
       /\ check_deposit_and_oo_limit(pos, pot, t)
  ELSE enforce_max_utilization(pos, t, ONE)

\* A reduce-only token may only be received to pay back a loan.
ReceiverBankAllows(pos, s, o, t) ==
  t \in NO_DEPOSITS => Balances(pos, o)[t] + total_serum3_potential(s, o, t) < ONE

\* The version of the instruction: 2 also updates the bank of the received token.
Versions(require_v2, writable) ==
  {v \in GATES : IF require_v2 \/ 1 \notin GATES \/ (writable /\ 2 \in GATES)
                 THEN v = 2 /\ writable ELSE v = 1}

serum3_place_order(a, side, limit, qty, taken, at, post, require_v2, writable) ==
  LET pay == Payer(side)
      get == Receiver(side)
  IN
  /\ orders[a].active /\ ~market.reduce_only
  /\ check_health_pre(a)
  /\ next_id < MaxOrders
  /\ Better(side, at, limit) /\ (taken = 0 => at = limit)
  /\ \A o \in book : ~Crosses(side, limit, o)
  /\ \E v \in Versions(require_v2, writable) :
     \E d \in {NewOrder(oo[a], a, next_id, side, limit, qty, taken, at, post)} :
     \E tracked \in {track_prices(orders[a], oo[a], d.oo, side, limit)} :
     \E p \in {IF v = 2 THEN update_bank_potential_tokens(tracked, potential, d.oo)
               ELSE update_bank_potential_tokens_payer_only(tracked, potential, d.oo, pay)} :
     \E diff \in {apply_vault_difference(position[a], p.orders, pay, -d.paid)} :
     \E after \in {[position EXCEPT ![a] = diff.position]} :
       /\ vault[pay] >= d.paid
       /\ check_deposit_and_oo_limit(after, p.potential, get)
       /\ PayerBankAllows(FixInt(d.paid) > position[a][pay], after, p.potential, pay)
       /\ d.posted = {} \/ InBand(side, limit)
       /\ ReceiverBankAllows(diff.position, diff.orders, d.oo, get)
       /\ check_health_post(HealthOf("Init", a), health("Init", diff.position, diff.orders, d.oo))
       /\ position' = after
       /\ orders' = [orders EXCEPT ![a] = diff.orders]
       /\ flagged' = [flagged EXCEPT ![a] = FALSE]
       /\ vault' = [vault EXCEPT ![pay] = @ - d.paid]
       /\ potential' = p.potential
       /\ oo' = [oo EXCEPT ![a] = d.oo]
       /\ book' = book \cup d.posted
  /\ next_id' = next_id + 1
  /\ UNCHANGED <<collected, market, oracle, events, deposits>>

\* cancel_order and cancel_order_by_client_order_id: the call, and no bookkeeping.
serum3_cancel_order(o) ==
  /\ o \in book /\ Len(events) < MaxEvents
  /\ book' = book \ {o}
  /\ events' = Append(events, OutEvent(o))
  /\ oo' = [oo EXCEPT ![o.owner] = cancel_one(@, o)]
  /\ UNCHANGED <<accounts, bank, market, oracle, next_id, deposits>>

OutEvents(S) ==
  LET seq == SetToSortSeq(S, LAMBDA o, p : o.id < p.id)
  IN  [i \in 1 .. Len(seq) |-> OutEvent(seq[i])]

serum3_cancel_all_orders(a, limit) ==
  \E S \in cancel_all(oo[a], book, limit) :
    /\ S # {}
    /\ Len(events) + Cardinality(S) <= MaxEvents
    /\ book' = book \ S
    /\ events' = events \o OutEvents(S)
    /\ oo' = [oo EXCEPT ![a] = cancel_each(@, S)]
    /\ UNCHANGED <<accounts, bank, market, oracle, next_id, deposits>>

serum3_settle_funds(a, to_dao) ==
  /\ orders[a].active
  /\ Settle(a, {}, to_dao)
  /\ UNCHANGED <<flagged, market, oracle, book, events, next_id, deposits>>

\* check_liquidatable: whether the account may be liquidated.
Liquidatable(a) ==
  IF flagged[a] THEN ~Recovers(HealthOf("Init", a)) ELSE HealthOf("Maint", a) < 0

\* An account that may not be force-cancelled is left as it is, recovered perhaps.
serum3_liq_force_cancel_orders(a, limit) ==
  /\ orders[a].active
  /\ Liquidatable(a) \/ market.force_close
  /\ \E S \in cancel_all(oo[a], book, limit) :
       /\ Len(events) + Cardinality(S) <= MaxEvents
       /\ book' = book \ S
       /\ events' = events \o OutEvents(S)
       /\ Settle(a, S, TRUE)
  /\ flagged' = [flagged EXCEPT ![a] =
       Liquidatable(a) /\ ~Recovers(health("Init", position'[a], orders'[a], oo'[a]))]
  /\ UNCHANGED <<market, oracle, next_id, deposits>>

\* The instruction returns early, with the flag it may have cleared.
ForceCancelRefused(a) ==
  /\ orders[a].active /\ flagged[a]
  /\ ~Liquidatable(a) /\ ~market.force_close
  /\ flagged' = [flagged EXCEPT ![a] = FALSE]
  /\ UNCHANGED <<position, orders, bank, market, oracle, dex, next_id, deposits>>

\* reduce_only and force_close are set alone or together.
serum3_edit_market(reduce_only, force_close) ==
  LET m == [reduce_only |-> IF reduce_only = "keep" THEN market.reduce_only ELSE reduce_only = "yes",
            force_close |-> IF force_close = "keep" THEN market.force_close ELSE force_close = "yes"]
  IN  /\ force_close = "yes" => m.reduce_only
      /\ market' = m
      /\ UNCHANGED <<accounts, bank, oracle, dex, next_id, deposits>>

\* A deposit of whole tokens, as far as this module is concerned with it.
token_deposit(a, t, n) ==
  /\ deposits < MaxDeposits
  /\ position' = [position EXCEPT ![a][t] = @ + FixInt(n)]
  /\ position'[a][t] > 0 => check_deposit_and_oo_limit(position', potential, t)
  /\ vault' = [vault EXCEPT ![t] = @ + n]
  /\ deposits' = deposits + 1
  /\ UNCHANGED <<orders, flagged, potential, collected, market, oracle, dex, next_id>>

SetOracle ==
  /\ oracle' \in Oracles
  /\ UNCHANGED <<accounts, bank, market, dex, next_id, deposits>>

-----------------------------------------------------------------------------
(* The external program between the calls *)

Fill(o, qty) ==
  /\ qty <= o.qty /\ Len(events) < MaxEvents
  /\ book' = (book \ {o}) \cup (IF qty = o.qty THEN {} ELSE {[o EXCEPT !.qty = @ - qty]})
  /\ events' = Append(events, Event(o, qty))
  /\ UNCHANGED <<accounts, bank, market, oracle, oo, next_id, deposits>>

Consume ==
  /\ events # <<>>
  /\ oo' = [oo EXCEPT ![Head(events).order.owner] = ConsumeEvent(@, Head(events))]
  /\ events' = Tail(events)
  /\ UNCHANGED <<accounts, bank, market, oracle, book, next_id, deposits>>

-----------------------------------------------------------------------------
Init ==
  /\ position = [a \in Accounts |-> [t \in Tokens |-> FixInt(Funds[t])]]
  /\ orders = [a \in Accounts |-> NoOrders]
  /\ flagged = [a \in Accounts |-> FALSE]
  /\ vault = [t \in Tokens |-> Lender[t] + Cardinality(Accounts) * Funds[t]]
  /\ potential = Zero /\ collected = Zero
  /\ market = [reduce_only |-> FALSE, force_close |-> FALSE]
  /\ oracle \in Oracles
  /\ oo = [a \in Accounts |-> EmptyOpenOrders]
  /\ book = {} /\ events = <<>>
  /\ next_id = 0 /\ deposits = 0

Next ==
  \/ \E a \in Accounts :
       \/ serum3_create_open_orders(a)
       \/ serum3_close_open_orders(a)
       \/ \E side \in Sides, limit, at \in Limits, qty \in Qtys :
          \E taken \in 0..qty, post, require_v2, writable \in BOOLEAN :
            serum3_place_order(a, side, limit, qty, taken, at, post, require_v2, writable)
       \/ \E limit \in 1..MaxOrders :
            serum3_cancel_all_orders(a, limit) \/ serum3_liq_force_cancel_orders(a, limit)
       \/ ForceCancelRefused(a)
       \/ \E to_dao \in BOOLEAN : serum3_settle_funds(a, to_dao)
       \/ \E t \in Tokens, n \in Amounts : token_deposit(a, t, n)
  \/ \E o \in book : serum3_cancel_order(o) \/ \E qty \in 1..o.qty : Fill(o, qty)
  \/ Consume
  \/ SetOracle
  \/ \E r, f \in Edits : serum3_edit_market(r, f)

Spec == Init /\ [][Next]_vars

-----------------------------------------------------------------------------
(* Properties *)

\* Every part of the state has its type.
TypeOK ==
  /\ position \in [Accounts -> [Tokens -> Int]]
  /\ orders \in [Accounts -> Serum3Orders]
  /\ flagged \in [Accounts -> BOOLEAN]
  /\ vault \in [Tokens -> Nat] /\ potential \in [Tokens -> Nat] /\ collected \in [Tokens -> Nat]
  /\ market \in Serum3Market
  /\ oracle \in Oracles
  /\ \A a \in Accounts : oo[a] \in OpenOrders
  /\ \A o \in book : o \in Order(Accounts, Limits)
  /\ \A i \in 1 .. Len(events) : events[i] \in Events(Accounts, Limits)

\* The vault of a bank holds what the accounts have and the fees collected, and not
\* more: the differences of vault balances around the calls of the external program
\* are credited and debited exactly once, rebates that go to the DAO included.
VaultBacksBalances ==
  \A t \in Tokens :
    FixInt(vault[t]) = FixInt(Lender[t]) + collected[t] + SumOver([a \in Accounts |-> position[a][t]])

\* The balances of a once the orders in S have traded and its other orders are cancelled.
Outcome(a, S) ==
  [t \in Tokens |->
     position[a][t] + FixInt(oo[a].free[t] + MapThenSumSet(
       LAMBDA o : IF o \in S THEN IF Receiver(o.side) = t THEN Gives(o.side, o.price, o.qty) ELSE 0
                  ELSE IF Payer(o.side) = t THEN Locks(o.side, o.price, o.qty) ELSE 0,
       {o \in book : o.owner = a}))]

\* Health is the worst case: whichever of the resting orders of an account trade, its
\* balances are then worth at least the health computed while the orders rest.
HealthIsWorstCase ==
  \A a \in Accounts :
    (\A i \in 1 .. Len(events) : events[i].order.owner # a) =>
      \A S \in SUBSET {o \in book : o.owner = a} : \A type \in {"Init", "Maint"} :
        HealthOf(type, a) <= token_contribution(type, "base", Outcome(a, S)["base"])
                               + token_contribution(type, "quote", Outcome(a, S)["quote"])

=============================================================================
