--------------------------- MODULE ConditionalSwap ---------------------------
(***************************************************************************)
(* Token conditional swaps: an account leaves orders to buy one token for  *)
(* another, anybody may start and trigger them when their conditions hold. *)
(* The caller reads the order, and its transaction runs later, when the    *)
(* order in that place, the price and the time may be others.              *)
(*                                                                         *)
(* f64 numbers are fixed-point numbers here that round to the nearest bit; *)
(* the indexes of the banks do not move.                                   *)
(***************************************************************************)
EXTENDS BankMath, Sequences, FiniteSets, FiniteSetsExt

CONSTANTS
  Liqee, Liqors, Tokens,
  Config,            \* token -> weights, fees, deposit limit (0 is none)
  StablePrice,       \* token -> stable price (bits)
  Prices,            \* price functions the oracles may move to
  DepositIndex, BorrowIndex,
  Balances,          \* the liqee's balances at the start: functions token -> bits
  LiqorBalance,      \* token -> the balance of every liqor at the start (bits)
  Requests,          \* the orders the owner may create
  Slots,             \* token_conditional_swap_count of the account
  Limits,            \* max_buy_token_to_liqee, max_sell_token_to_liqor
  MinBuys,           \* min_buy_token
  ReduceOnly,        \* reduce_only values the admin sets: subset of 0..2
  START_INCENTIVE, HEALTH_THRESHOLD, HEALTH_GRACE,
  MAX,               \* u64::MAX
  MaxTime, MaxOps, MaxIds

Accounts == {Liqee} \cup Liqors

SwapAssumption ==
  /\ OneAssumption
  /\ Liqee \notin Liqors
  /\ \A t \in Tokens : /\ Config[t].init_asset <= Config[t].maint_asset
                       /\ Config[t].maint_liab <= Config[t].init_liab
                       /\ Config[t].taker_fee < ONE
  /\ \A r \in Requests : {r.buy, r.sell} \subseteq Tokens
  /\ ReduceOnly \subseteq 0..2

VARIABLES
  banks,        \* token -> its bank
  position,     \* account -> token -> units
  swaps,        \* the slots of the liqee
  next_id,      \* next_token_conditional_swap_id
  price, reduce_only,
  flagged,      \* being_liquidated of the liqee
  now,
  call,         \* a transaction under way and what its sender saw
  ops           \* rounding instructions so far (history)

vars == <<banks, position, swaps, next_id, price, reduce_only, flagged, now, call, ops>>

Free == [is_configured |-> FALSE]
NoCall == [sent |-> FALSE]

Terms ==
  [max_buy : Nat, max_sell : Nat, expiry : Nat, lower : Nat, upper : Nat, premium : Nat,
   buy : Tokens, sell : Tokens, deposits : BOOLEAN, borrows : BOOLEAN, duration : Nat,
   type : {"FixedPremium", "PremiumAuction", "LinearAuction"}]

TokenConditionalSwap ==
  [is_configured : {TRUE}, id : 0..MaxIds, terms : Terms, bought : Nat, sold : Nat,
   start : Nat, taker_fee : Nat, maker_fee : Nat]

is_configured(i) == swaps[i].is_configured

are_deposits_reduce_only(t) == reduce_only[t] = 1
are_borrows_reduce_only(t) == reduce_only[t] \in {1, 2}

-----------------------------------------------------------------------------
(* Prices.  A price is the amount of sell tokens for one buy token. *)

Nearest(a, b) == (2 * a + b) \div (2 * b)
FloatMul(a, b) == Nearest(a * b, ONE)
FloatDiv(a, b) == Nearest(a * ONE, b)

OracleRate(s) == FloatDiv(price[s.terms.buy], price[s.terms.sell])

is_expired(s) == now >= s.terms.expiry
passed_start(s) == s.start > 0 /\ now >= s.start
is_startable_type(s) == s.terms.type = "PremiumAuction"

price_in_range(s) == OracleRate(s) \in s.terms.lower .. s.terms.upper

\* Fault: the progress of an auction is not capped.
PremiumPriceUncapped(s) ==
  LET base == OracleRate(s)
      progress == FloatDiv(now - s.start, s.terms.duration)
  IN  CASE s.terms.type = "FixedPremium" -> FloatMul(base, ONE + s.terms.premium)
        [] s.terms.type = "PremiumAuction" ->
             FloatMul(base, ONE + FloatMul(progress, s.terms.premium))
        [] s.terms.type = "LinearAuction" ->
             s.terms.lower + FloatMul(progress, s.terms.upper - s.terms.lower)

\* Evaluated for triggerable swaps only, which have started.
premium_price(s) ==
  LET base == OracleRate(s)
      progress == Smaller(FloatDiv(now - s.start, s.terms.duration), ONE)
  IN  CASE s.terms.type = "FixedPremium" -> FloatMul(base, ONE + s.terms.premium)
        [] s.terms.type = "PremiumAuction" ->
             FloatMul(base, ONE + FloatMul(progress, s.terms.premium))
        [] s.terms.type = "LinearAuction" ->
             IF now - s.start < s.terms.duration
             THEN s.terms.lower + FloatMul(progress, s.terms.upper - s.terms.lower)
             ELSE s.terms.upper

maker_price(s, p) == FloatMul(p, ONE + s.maker_fee)
taker_price(s, p) == FloatMul(p, ONE - s.taker_fee)
taker_fee(s, amount) == FixFloor(FixMul(FixInt(amount), s.taker_fee))

check_startable(s) ==
  ~is_expired(s) /\ s.start = 0 /\ is_startable_type(s) /\ price_in_range(s)

check_triggerable(s) ==
  /\ ~is_expired(s)
  /\ IF s.terms.type = "FixedPremium" THEN price_in_range(s) ELSE passed_start(s)

-----------------------------------------------------------------------------
(* Amounts *)

ClampToU64(n) == Clamped(n, 0, MAX)

max_buy_for_position(s, balance) ==
  Smaller(s.terms.max_buy - s.bought,
          IF s.terms.deposits /\ ~are_deposits_reduce_only(s.terms.buy) THEN MAX
          ELSE ClampToU64(FixCeil(-balance)))

max_sell_for_position(s, balance) ==
  Smaller(s.terms.max_sell - s.sold,
          IF s.terms.borrows /\ ~are_borrows_reduce_only(s.terms.sell) THEN MAX
          ELSE ClampToU64(FixFloor(balance)))

trade_amount_inner(max_buy, max_sell, rate) ==
  LET buy_for_sell ==
        IF rate > ONE THEN FixFloor(FixDiv(FixInt(max_sell) + ONE - DELTA, rate))
        ELSE LET whole == FixFloor(FixMul(FixInt(max_buy), rate))
             IN  FixCeil(FixDiv(FixInt(Smaller(whole, max_sell)), rate))
      buy == Smaller(max_buy, buy_for_sell)
  IN  [buy |-> buy, sell |-> Smaller(max_sell, FixFloor(FixMul(FixInt(buy), rate)))]

trade_amount(s, rate, max_buy, max_sell, liqee_buy, liqee_sell, liqor_buy, liqor_sell) ==
  trade_amount_inner(
    Smaller(Smaller(max_buy, max_buy_for_position(s, liqee_buy)),
            IF are_borrows_reduce_only(s.terms.buy)
            THEN ClampToU64(FixFloor(liqor_buy)) ELSE MAX),
    Smaller(Smaller(max_sell, max_sell_for_position(s, liqee_sell)),
            IF are_deposits_reduce_only(s.terms.sell)
            THEN ClampToU64(FixCeil(-liqor_sell)) ELSE MAX),
    rate)

-----------------------------------------------------------------------------
(* Health of the liqee, from its balances in the two kinds of tokens *)

Weighted(t, balance, type) ==
  LET asset == IF type = "Maint" THEN Config[t].maint_asset ELSE Config[t].init_asset
      liab == IF type = "Maint" THEN Config[t].maint_liab ELSE Config[t].init_liab
      low == IF type = "Init" THEN Smaller(price[t], StablePrice[t]) ELSE price[t]
      high == IF type = "Init" THEN Larger(price[t], StablePrice[t]) ELSE price[t]
  IN  FixMul(balance, IF balance < 0 THEN FixMul(liab, high) ELSE FixMul(asset, low))

health(balance, type) == MapThenSumSet(LAMBDA t : Weighted(t, balance[t], type), Tokens)

Native(a, t) == native(position[a][t], banks[t])
BalancesOf(bs, units) == [t \in Tokens |-> native(units[t], bs[t])]

\* check_health_pre: an account being liquidated may recover here.
MayProceed(balance) ==
  flagged => health(balance, "Init") > -ONE \/ health(balance, "LiquidationEnd") > -ONE

check_health_post(pre, post) ==
  \/ post >= 0
  \/ IF post < -FixInt(HEALTH_GRACE) THEN FixCeil(post) >= FixCeil(pre) ELSE post >= pre

-----------------------------------------------------------------------------
(* Banks *)

\* in_use_count of a token position of the liqee: the swaps that name the token.
InUse(slots, t) ==
  Cardinality({i \in 1..Slots : /\ slots[i].is_configured
                                /\ t \in {slots[i].terms.buy, slots[i].terms.sell}})

check_deposit_limit(t, bank) ==
  Config[t].deposit_limit = 0 \/ FixInt(Config[t].deposit_limit) >= native_deposits(bank)

remaining_deposits_until_limit(t) ==
  IF Config[t].deposit_limit = 0 THEN FixInt(MAX)
  ELSE FixInt(Config[t].deposit_limit)
         - FixMul(banks[t].deposit_index, banks[t].indexed_deposits + DELTA)

\* The outcomes of a transfer: none if it fails.  Net borrows are not limited
\* here.
checked_transfer_with_fee(t, source, amount, target, target_amount) ==
  LET bank == banks[t]
      dusts(a) == a # Liqee \/ InUse(swaps, t) = 0
      w == IF amount = 0 THEN Result(bank, position[source][t], TRUE)
           ELSE withdraw_internal(bank, position[source][t], amount,
                                  Config[t].origination_fee, dusts(source), now)
      d == IF target_amount = 0 THEN Result(w.bank, position[target][t], TRUE)
           ELSE deposit_internal(w.bank, position[target][t], target_amount, dusts(target), now)
  IN  {r \in {[bank |-> d.bank, source |-> w.units, target |-> d.units]} :
         /\ amount # 0 => r.source >= 0 \/ ~are_borrows_reduce_only(t)
         /\ target_amount # 0 => r.target <= 0 \/ ~are_deposits_reduce_only(t)
         /\ r.bank.indexed_deposits > bank.indexed_deposits + DELTA
              => check_deposit_limit(t, r.bank)}

\* What token_decrement_dust_deactivate does after the swap left its slot.
dust_if_possible(t, slots, bank, units) ==
  IF InUse(slots, t) > 0 \/ native(units, bank) \notin 0 .. ONE - 1
  THEN Result(bank, units, TRUE)
  ELSE withdraw_internal(bank, units, 0, 0, TRUE, now)
-----------------------------------------------------------------------------
(* The owner's instructions *)

\* Linear auctions must be worth ten times the starting incentive.
VolumeSuffices(r) ==
  r.type = "LinearAuction" =>
    LET volume == Smaller(StablePrice[r.buy] * r.max_buy, StablePrice[r.sell] * r.max_sell)
    IN  FixFloor(volume) >= 10 * START_INCENTIVE

\* The three ways to create a swap.  Linear auctions start at a time that
\* their owner gives.  An expired swap is ignored.
token_conditional_swap_create(r, start) ==
  /\ next_id < MaxIds
  /\ r.type # "FixedPremium" => r.duration >= 1
  /\ r.type # "LinearAuction" => start = 0
  /\ VolumeSuffices(r) /\ now < r.expiry /\ r.buy # r.sell
  /\ \E i \in 1..Slots :
       /\ ~is_configured(i) /\ \A j \in 1 .. i - 1 : is_configured(j)
       /\ swaps' = [swaps EXCEPT ![i] =
            [is_configured |-> TRUE, id |-> next_id, terms |-> r, bought |-> 0, sold |-> 0,
             start |-> start,
             taker_fee |-> Larger(Config[r.buy].taker_fee, Config[r.sell].taker_fee),
             maker_fee |-> Larger(Config[r.buy].maker_fee, Config[r.sell].maker_fee)]]
  /\ next_id' = next_id + 1
  /\ UNCHANGED <<banks, position, price, reduce_only, flagged, now, call, ops>>

\* The slot is emptied and the token positions are released.
Released(i, bs, units) ==
  LET s == swaps[i].terms
      slots == [swaps EXCEPT ![i] = Free]
      b == dust_if_possible(s.buy, slots, bs[s.buy], units[s.buy])
      q == dust_if_possible(s.sell, slots, bs[s.sell], units[s.sell])
  IN  [swaps |-> slots,
       banks |-> [bs EXCEPT ![s.buy] = b.bank, ![s.sell] = q.bank],
       units |-> [units EXCEPT ![s.buy] = b.units, ![s.sell] = q.units]]

Release(i) ==
  \E r \in {Released(i, banks, position[Liqee])} :
    /\ swaps' = r.swaps /\ banks' = r.banks
    /\ position' = [position EXCEPT ![Liqee] = r.units]

token_conditional_swap_cancel(i) ==
  /\ is_configured(i)
  /\ Release(i)
  /\ UNCHANGED <<next_id, price, reduce_only, flagged, now, call, ops>>

-----------------------------------------------------------------------------
(* The instructions that anybody may call.  A caller reads a slot, and its *)
(* transaction names the slot and the id that it saw.                      *)

\* The caller asks for the price that it saw, or for none.
Observe(i) ==
  /\ ~call.sent /\ is_configured(i)
  /\ \E min_taker \in {0} \cup
          (IF check_triggerable(swaps[i])
           THEN {taker_price(swaps[i], premium_price(swaps[i]))} ELSE {}) :
       call' = [sent |-> TRUE, index |-> i, id |-> swaps[i].id, terms |-> swaps[i].terms,
                min_taker |-> min_taker]
  /\ UNCHANGED <<banks, position, swaps, next_id, price, reduce_only, flagged, now, ops>>

Lost ==
  /\ call.sent /\ call' = NoCall
  /\ UNCHANGED <<banks, position, swaps, next_id, price, reduce_only, flagged, now, ops>>

NamesSwap(c) == c.sent /\ is_configured(c.index) /\ swaps[c.index].id = c.id

\* An expired swap is removed.
TriggerExpired ==
  /\ NamesSwap(call) /\ is_expired(swaps[call.index])
  /\ Release(call.index)
  /\ call' = NoCall
  /\ UNCHANGED <<next_id, price, reduce_only, flagged, now, ops>>

\* The balances of the health cache after adjust_token_balance.
Adjusted(s, amount, sold) ==
  [BalancesOf(banks, position[Liqee]) EXCEPT
     ![s.terms.buy] = @ + FixInt(amount.buy),
     ![s.terms.sell] = @ + (native(sold.source, sold.bank) - @)]

\* No more swapping is possible at this price: s is the swap after the trade.
Done(s, rate, bought, sold, pre, post) ==
  LET future == trade_amount(s, rate, MAX, MAX, bought, sold, FixInt(MAX), -FixInt(MAX))
  IN  \/ future.buy = 0 \/ future.sell = 0
      \/ post < pre /\ post < FixInt(HEALTH_THRESHOLD)
      \/ IF rate > ONE THEN future.sell < 2 * FixFloor(rate)
                       ELSE future.buy < 2 * FixFloor(FloatDiv(ONE, rate))

Fees(s, amount, sell) == [maker |-> amount.sell - sell, taker |-> taker_fee(s, sell)]

\* The swap after a trade; the first one marks the start.
Traded(s, amount) ==
  [s EXCEPT !.bought = @ + amount.buy, !.sold = @ + amount.sell,
            !.start = IF passed_start(s) THEN @ ELSE now]

Amounts(s, rate, liqor, max_buy, max_sell) ==
  trade_amount(s, rate, max_buy, max_sell, Native(Liqee, s.terms.buy),
               Native(Liqee, s.terms.sell), Native(liqor, s.terms.buy),
               Native(liqor, s.terms.sell))

LiqorHealthy(liqor, bs, units) == health(BalancesOf(bs, units), "Init") >= 0

\* The liqee gets buy tokens from the liqor and pays sell tokens and the fees.
Trade(i, liqor, rate, sell, amount) ==
  LET s == swaps[i]
      bt == s.terms.buy
      st == s.terms.sell
      fees == Fees(s, amount, sell)
  IN
  \E pre \in {health(BalancesOf(banks, position[Liqee]), "Init")} :
  \E bought \in checked_transfer_with_fee(bt, liqor, FixInt(amount.buy), Liqee,
                                          FixInt(amount.buy)) :
  \E sold \in checked_transfer_with_fee(st, Liqee, FixInt(amount.sell), liqor,
                                        FixInt(sell - fees.taker)) :
  \E bs \in {[banks EXCEPT ![bt] = bought.bank, ![st] =
                [sold.bank EXCEPT !.collected_fees = @ + FixInt(fees.maker + fees.taker)]]},
     mine \in {[position[liqor] EXCEPT ![bt] = bought.source, ![st] = sold.target]},
     theirs \in {[position[Liqee] EXCEPT ![bt] = bought.target, ![st] = sold.source]} :
  \E post \in {health(Adjusted(s, amount, sold), "Init")} :
    /\ check_health_post(pre, post)
    /\ LiqorHealthy(liqor, bs, mine)
    /\ IF Done(Traded(s, amount), rate, native(bought.target, bs[bt]),
               native(sold.source, bs[st]), pre, post)
       THEN \E r \in {Released(i, bs, theirs)} :
              /\ swaps' = r.swaps /\ banks' = r.banks
              /\ position' = [position EXCEPT ![Liqee] = r.units, ![liqor] = mine]
       ELSE /\ swaps' = [swaps EXCEPT ![i] = Traded(s, amount)]
            /\ banks' = bs
            /\ position' = [position EXCEPT ![Liqee] = theirs, ![liqor] = mine]

TakerPriceSuffices(s, p) == taker_price(s, p) >= call.min_taker

token_conditional_swap_trigger(liqor, max_buy, max_sell, min_buy) ==
  /\ ops < MaxOps
  /\ NamesSwap(call)
  /\ check_triggerable(swaps[call.index])
  /\ MayProceed(BalancesOf(banks, position[Liqee]))
  /\ \E s \in {swaps[call.index]} : \E p \in {premium_price(s)} :
     \E rate \in {maker_price(s, p)} :
       /\ TakerPriceSuffices(s, p) /\ rate > 0
       /\ \E amount \in {Amounts(s, rate, liqor, max_buy, max_sell)} :
            /\ amount.buy >= min_buy
            /\ Trade(call.index, liqor, rate, FixFloor(FixMul(FixInt(amount.buy), p)), amount)
  /\ flagged' = FALSE
  /\ call' = NoCall
  /\ ops' = ops + 1
  /\ UNCHANGED <<next_id, price, reduce_only, now>>

Incentive(s) ==
  Larger(0, Smaller(Smaller(FixDiv(FixInt(START_INCENTIVE), price[s.terms.sell]),
                            FixInt(s.terms.max_sell - s.sold)),
                    remaining_deposits_until_limit(s.terms.sell)))

\* The incentive for the caller counts as sold, in whole tokens.
StartAt(i, liqor, incentive) ==
  LET s == swaps[i]
      st == s.terms.sell
      pre == BalancesOf(banks, position[Liqee])
  IN  \E paid \in checked_transfer_with_fee(st, Liqee, incentive, liqor, incentive) :
      \E left \in {native(paid.source, paid.bank)} :
        /\ left < 0 => s.terms.borrows
        /\ check_health_post(health(pre, "Init"), health([pre EXCEPT ![st] = left], "Init"))
        /\ swaps' = [swaps EXCEPT ![i].start = now, ![i].sold = @ + FixFloor(incentive)]
        /\ banks' = [banks EXCEPT ![st] = paid.bank]
        /\ position' = [position EXCEPT ![Liqee][st] = paid.source, ![liqor][st] = paid.target]

token_conditional_swap_start(liqor) ==
  /\ ops < MaxOps
  /\ ~flagged
  /\ NamesSwap(call)
  /\ check_startable(swaps[call.index])
  /\ \E incentive \in {Incentive(swaps[call.index])} : StartAt(call.index, liqor, incentive)
  /\ call' = NoCall
  /\ ops' = ops + 1
  /\ UNCHANGED <<next_id, price, reduce_only, flagged, now>>

-----------------------------------------------------------------------------
(* Everything else that happens *)

\* Oracles are read at times; the clock moves when a price does.
OraclePrice ==
  /\ now < MaxTime /\ now' = now + 1
  /\ price' \in Prices
  /\ UNCHANGED <<banks, position, swaps, next_id, reduce_only, flagged, call, ops>>

token_edit_reduce_only(t) ==
  /\ reduce_only[t] = 0
  /\ \E mode \in ReduceOnly \ {0} : reduce_only' = [reduce_only EXCEPT ![t] = mode]
  /\ UNCHANGED <<banks, position, swaps, next_id, price, flagged, now, call, ops>>

\* The first step of a liquidation.
MarkLiquidatable ==
  /\ ~flagged /\ health(BalancesOf(banks, position[Liqee]), "Maint") < 0
  /\ flagged' = TRUE
  /\ UNCHANGED <<banks, position, swaps, next_id, price, reduce_only, now, call, ops>>

\* Positions of Init; positive balances are deposits.
UnitsOf(balance) ==
  IF balance >= 0 THEN FixDiv(balance, DepositIndex) ELSE FixDiv(balance, BorrowIndex)

SumOver(f(_)) == MapThenSumSet(f, Accounts)

Init ==
  /\ \E b \in Balances :
       position = [a \in Accounts |-> [t \in Tokens |->
                     UnitsOf(IF a = Liqee THEN b[t] ELSE LiqorBalance[t])]]
  /\ banks = [t \in Tokens |->
       LET held(a) == Larger(0, position[a][t])
           owed(a) == Larger(0, -position[a][t])
       IN  [deposit_index |-> DepositIndex, borrow_index |-> BorrowIndex,
            indexed_deposits |-> SumOver(held), indexed_borrows |-> SumOver(owed),
            dust |-> 0, collected_fees |-> 0, net_borrows |-> 0, window_start |-> 0]]
  /\ swaps = [i \in 1..Slots |-> Free] /\ next_id = 0
  /\ price \in Prices /\ reduce_only = [t \in Tokens |-> 0]
  /\ flagged = FALSE /\ now = 1 /\ call = NoCall /\ ops = 0
  /\ health(BalancesOf(banks, position[Liqee]), "Init") >= 0

Next ==
  \/ \E r \in Requests, start \in {0, now, now + 1} : token_conditional_swap_create(r, start)
  \/ \E i \in 1..Slots : token_conditional_swap_cancel(i) \/ Observe(i)
  \/ Lost \/ TriggerExpired
  \/ \E liqor \in Liqors :
       \/ token_conditional_swap_start(liqor)
       \/ \E max_buy, max_sell \in Limits, min_buy \in MinBuys :
            token_conditional_swap_trigger(liqor, max_buy, max_sell, min_buy)
  \/ OraclePrice \/ \E t \in Tokens : token_edit_reduce_only(t)
  \/ MarkLiquidatable

Spec == Init /\ [][Next]_vars

-----------------------------------------------------------------------------
(* Properties *)

TypeOK ==
  /\ banks \in [Tokens -> [deposit_index : Nat, borrow_index : Nat, indexed_deposits : Nat,
                           indexed_borrows : Nat, dust : Nat, collected_fees : Nat,
                           net_borrows : Int, window_start : Nat]]
  /\ position \in [Accounts -> [Tokens -> Int]]
  /\ \A i \in 1..Slots : swaps[i] = Free \/ swaps[i] \in TokenConditionalSwap
  /\ next_id \in 0..MaxIds /\ price \in Prices /\ reduce_only \in [Tokens -> 0..2]
  /\ flagged \in BOOLEAN /\ now \in 1..MaxTime /\ ops \in 0..MaxOps
  /\ call.sent => call.index \in 1..Slots /\ call.terms \in Terms

\* The swap that a step starts or trades, and what the step moves.
Acts(i) == call.sent /\ ~call'.sent /\ i = call.index /\ position' # position
StartsAuction(i) == Acts(i) /\ swaps[i].start = 0 /\ is_startable_type(swaps[i])
After(a, t) == native(position'[a][t], banks'[t])
Dusted(t) == banks'[t].dust - banks[t].dust
Gained(a, t) == After(a, t) - Native(a, t)

\* The worst rate that the terms allow, fee included.
WorstRate(s) ==
  LET base == CASE s.terms.type = "FixedPremium" -> FloatMul(s.terms.upper, ONE + s.terms.premium)
                [] s.terms.type = "PremiumAuction" ->
                     FloatMul(OracleRate(s), ONE + s.terms.premium)
                [] s.terms.type = "LinearAuction" -> Larger(s.terms.lower, s.terms.upper)
  IN  maker_price(s, base)

(* The account never pays more for what it gets than its terms say: the    *)
(* limit price with the full premium and the maker fee, the incentive when *)
(* a call starts the auction, and the origination fee of a borrow.  Less   *)
(* than a token of either side may go to the bank as dust.                 *)
FairPrice ==
  \A i \in 1..Slots : Acts(i) /\ ~is_expired(swaps[i]) =>
    LET s == swaps[i]
        paid == -Gained(Liqee, s.terms.sell)
        worst == IF StartsAuction(i) THEN FixDiv(FixInt(START_INCENTIVE), price[s.terms.sell])
                 ELSE FixMul(Gained(Liqee, s.terms.buy) + Dusted(s.terms.buy), WorstRate(s))
                        + Dusted(s.terms.sell) + 8
    IN  paid <= worst + FixMul(Config[s.terms.sell].origination_fee, paid)

=============================================================================
