------------------------------ MODULE PerpMoney ------------------------------
(***************************************************************************)
(* The money of one perp market: fees, funding, settlement of pnl into     *)
(* tokens, liquidation and bankruptcy, with the fills that are matched but *)
(* not consumed yet.  A market pays out only what somebody pays in; every  *)
(* instruction here moves quote, tokens and fees between accounts, and     *)
(* funding changes what everybody owes at once.                            *)
(*                                                                         *)
(* Orders and the book are left out: a match picks any two accounts.  The  *)
(* health of liquidators and of traders is not computed: an instruction    *)
(* that would be refused for it is an extra behaviour of the model.        *)
(***************************************************************************)
EXTENDS PerpLiquidation, Sequences, FiniteSetsExt

CONSTANTS
  Accounts,
  Long, Short,         \* sets of accounts that start with one lot
  Settlers,            \* accounts that call perp_settle_pnl
  OtherHealth,         \* health of an account's other tokens, one number for all
  StartTokens,         \* settle tokens each account starts with
  Prices,              \* oracle prices of one lot
  StartPrice,
  Fees,                \* configurations [maker, taker] of the market's fees
  Rates,               \* funding rates the book may give
  MaxFundingStep, DAY,
  SettleFeeFlat, SettleFeeThreshold, SettleFeeLowHealth,
  StartInsurance, MaxLiabs, MaxBase, MaxPnl,
  ForceClose, Unmatched,   \* may the admin set force_close; are the wind-down calls used
  MaxFills, MaxTime, MaxOps

MoneyAssumption ==
  /\ Long \subseteq Accounts /\ Short \subseteq Accounts \ Long /\ Settlers \subseteq Accounts
  /\ Cardinality(Long) = Cardinality(Short)
  /\ StartTokens \in Int /\ OtherHealth \in Int /\ StartInsurance \in Nat
  /\ Prices \subseteq Nat \ {0} /\ StartPrice \in Prices /\ MaxLiabs \subseteq Nat
  /\ \A f \in Fees : f.taker >= 0 /\ f.taker + f.maker >= 0
  /\ {MaxFundingStep, DAY} \subseteq Nat \ {0}

VARIABLES
  market,       \* funding indexes, stable price, open interest and fees
  pos, tok,     \* account -> perp position; settle tokens (bits)
  liquidated,   \* accounts with the being_liquidated flag
  fills,        \* event queue: matched trades that are not executed
  insurance,    \* tokens in the insurance vault
  price, now,
  uncovered,    \* money that no account paid for (history)
  ops           \* trades and settlements so far (history)

vars == <<market, pos, tok, liquidated, fills, insurance, price, now, uncovered, ops>>

PerpMarket ==
  [long_funding : Int, short_funding : Int, stable : Prices, open_interest : Nat,
   fees : Fees, fees_accrued : Int, fees_settled : Nat, fees_withdrawn : Nat,
   updated : Nat, force_close : BOOLEAN]

Fill == [taker : Accounts, maker : Accounts, lots : Int, quote : Int, maker_fee : Int]

SumOver(op(_)) == MapThenSumSet(op, Accounts)

\* The lots that are open at the start were traded without fees.
Init ==
  /\ price = StartPrice
  /\ \E f \in Fees :
       market = [long_funding |-> 0, short_funding |-> 0, stable |-> price,
                 open_interest |-> Cardinality(Long) + Cardinality(Short),
                 fees |-> f, fees_accrued |-> 0, fees_settled |-> 0, fees_withdrawn |-> 0,
                 updated |-> 0, force_close |-> FALSE]
  /\ pos = [a \in Accounts |-> CASE a \in Long -> record_trade(NewPosition, market, 1, -price)
                                  [] a \in Short -> record_trade(NewPosition, market, -1, price)
                                  [] OTHER -> NewPosition]
  /\ tok = [a \in Accounts |-> StartTokens]
  /\ liquidated = {}
  /\ fills = <<>>
  /\ insurance = StartInsurance
  /\ now = 1
  /\ uncovered = 0
  /\ ops = 0

\* Bound on the instructions that change balances.
Budget == ops < MaxOps /\ ops' = ops + 1

\* The market after the base lots of some positions changed.
WithOpenInterest(m, old, new, accounts) ==
  [m EXCEPT !.open_interest =
     @ + MapThenSumSet(LAMBDA a : Abs(new[a].base) - Abs(old[a].base), accounts)]

-----------------------------------------------------------------------------
(* Trades and funding *)

update_funding_and_stable_price(m, rate, p) ==
  LET delta == FixMul(p, Trunc(rate * Smaller(now - m.updated, MaxFundingStep), DAY))
  IN  IF now <= m.updated THEN m
      ELSE [m EXCEPT !.long_funding = @ + delta, !.short_funding = @ + delta,
                     !.updated = now, !.stable = p]

perp_update_funding ==
  \E rate \in Rates :
    /\ now > market.updated
    /\ market' = update_funding_and_stable_price(market, rate, price)
    /\ UNCHANGED <<pos, tok, liquidated, fills, insurance, price, now, uncovered, ops>>

\* What the market accrues for a match, maker's fee included.
AccruedFees(m, value) == FixMul(value, m.fees.taker) + FixMul(value, m.fees.maker)

\* A taker order meets the order of a maker: the taker's fee is charged and
\* both fees are accrued at once, the lots change hands when it is consumed.
Match(taker, maker, lots) ==
  LET value == Abs(lots) * price
  IN  /\ Budget
      /\ Len(fills) < MaxFills
      /\ \E rate \in Rates :
           LET m == update_funding_and_stable_price(market, rate, price)
           IN  market' = [m EXCEPT !.fees_accrued = @ + AccruedFees(m, value)]
      /\ pos' = [pos EXCEPT
           ![taker] = record_trading_fee([@ EXCEPT !.taker_base = @ + lots,
                                                   !.taker_quote = @ - lots * price],
                                         FixMul(value, market.fees.taker)),
           ![maker] = IF lots > 0 THEN [@ EXCEPT !.asks = @ + lots]
                      ELSE [@ EXCEPT !.bids = @ - lots]]
      /\ fills' = Append(fills, [taker |-> taker, maker |-> maker, lots |-> lots,
                                 quote |-> -lots * price, maker_fee |-> market.fees.maker])
      /\ UNCHANGED <<tok, liquidated, insurance, price, now, uncovered>>

MakerFee(f) == FixMul(Abs(f.quote), f.maker_fee)

execute_perp_maker(p, f) ==
  LET q == [record_trading_fee(settle_funding(p, market), MakerFee(f))
            EXCEPT !.asks = IF f.lots > 0 THEN @ - f.lots ELSE @,
                   !.bids = IF f.lots < 0 THEN @ + f.lots ELSE @]
  IN  record_trade(q, market, -f.lots, -f.quote)

execute_perp_taker(p, f) ==
  record_trade([settle_funding(p, market) EXCEPT !.taker_base = @ - f.lots,
                                                 !.taker_quote = @ - f.quote],
               market, f.lots, f.quote)

perp_consume_events ==
  LET f == Head(fills)
      made == [pos EXCEPT ![f.maker] = execute_perp_maker(@, f)]
      new == [made EXCEPT ![f.taker] = execute_perp_taker(@, f)]
  IN  /\ fills # <<>>
      /\ pos' = new
      /\ market' = WithOpenInterest(market, pos, new, {f.maker, f.taker})
      /\ fills' = Tail(fills)
      /\ UNCHANGED <<tok, liquidated, insurance, price, now, uncovered, ops>>

-----------------------------------------------------------------------------
(* Settlement *)

HealthOf(a, w) == health(pos[a], market, AtOracle(price), tok[a], OtherHealth, w)

compute_settle_fee(settlement, pnl, value, liq_end, maint) ==
  LET share == FixMul(settlement, SettleFeeLowHealth)
      low_health == CASE liq_end >= 0 -> 0
                      [] liq_end < 0 /\ maint < 0 -> share
                      [] OTHER -> FixMul(share, FixDiv(-liq_end, maint - liq_end))
      fee == IF settlement >= SettleFeeThreshold THEN SettleFeeFlat
             ELSE Smaller(low_health, 2 * SettleFeeFlat)
  IN  IF 100 * pnl <= value THEN 0 ELSE Smaller(fee, settlement)

Settlement(a_pnl, b_pnl, b_max) == Larger(0, Smaller(Smaller(a_pnl, -b_pnl), b_max))

\* Tokens follow the pnl; the fee is part of what the winner gets.
SettledTokens(a, b, settler, settlement, fee) ==
  [tok EXCEPT ![a] = @ + settlement - fee, ![b] = @ - settlement, ![settler] = @ + fee]

perp_settle_pnl(a, b, settler) ==
  /\ Budget
  /\ a # b
  /\ \E pa \in {settle_funding(pos[a], market)}, pb \in {settle_funding(pos[b], market)} :
       LET wa == update_settle_limit(pa, now)
           wb == update_settle_limit(pb, now)
           a_pnl == unsettled_pnl(pa, price)
           b_pnl == unsettled_pnl(pb, price)
           a_settleable == apply_pnl_settle_limit(wa, market, a_pnl)
           b_settleable == apply_pnl_settle_limit(wb, market, b_pnl)
           b_max == perp_max_settle(pos[b], market, price, tok[b], OtherHealth)
       IN  /\ a_pnl > 0 /\ b_pnl < 0
           /\ a_settleable > 0 /\ b_settleable < 0 /\ b_max > 0
           /\ \E settlement \in {Settlement(a_settleable, b_settleable, b_max)} :
              \E fee \in {compute_settle_fee(settlement, a_pnl, Abs(pa.base * price),
                                             HealthOf(a, LiquidationEnd), HealthOf(a, Maint))} :
                /\ pos' = [pos EXCEPT ![a] = record_settle(wa, settlement, market),
                                      ![b] = record_settle(wb, -settlement, market)]
                /\ tok' = SettledTokens(a, b, settler, settlement, fee)
  /\ UNCHANGED <<market, liquidated, fills, insurance, price, now, uncovered>>

FeesToSettle(loss, max) == Smaller(Smaller(-loss, market.fees_accrued), FixInt(max))

perp_settle_fees(a, max) ==
  /\ Budget
  /\ max > 0
  /\ \E p \in {settle_funding(pos[a], market)} :
     \E loss \in {apply_pnl_settle_limit(p, market, unsettled_pnl(p, price))} :
       LET amount == FeesToSettle(loss, max)
       IN  IF loss >= 0 \/ market.fees_accrued <= 0
           THEN pos' = [pos EXCEPT ![a] = p] /\ UNCHANGED <<tok, market>>
           ELSE /\ pos' = [pos EXCEPT ![a] = record_settle(p, -amount, market)]
                /\ tok' = [tok EXCEPT ![a] = @ - amount]
                /\ market' = [market EXCEPT !.fees_accrued = @ - amount,
                                            !.fees_settled = @ + amount]
                /\ health(pos'[a], market', InitPrices(price, market), tok'[a], OtherHealth,
                          LiquidationEnd) >= 0
  /\ UNCHANGED <<liquidated, fills, insurance, price, now, uncovered>>

admin_perp_withdraw_fees ==
  /\ FixFloor(market.fees_settled) > market.fees_withdrawn
  /\ market' = [market EXCEPT !.fees_withdrawn = FixFloor(market.fees_settled)]
  /\ UNCHANGED <<pos, tok, liquidated, fills, insurance, price, now, uncovered, ops>>

-----------------------------------------------------------------------------
(* Liquidation and bankruptcy *)

check_liquidatable(a) ==
  IF a \in liquidated THEN HealthOf(a, LiquidationEnd) <= -ONE ELSE HealthOf(a, Maint) < 0

\* The flags after a liquidation left account a with the given health.
maybe_recover(a, h) == IF h > -ONE THEN liquidated \ {a} ELSE liquidated \cup {a}

after_phase1(a) == ~has_open_orders(pos[a])

after_phase2(a) ==
  /\ after_phase1(a)
  /\ pos[a].base + pos[a].taker_base = 0
  /\ ~has_open_taker_fills(pos[a])
  /\ pos[a].quote - unsettled_funding(pos[a], market) + pos[a].taker_quote <= 0

\* An account that recovered by itself loses its flag, nothing else happens.
NotLiquidatable(a) ==
  /\ a \in liquidated /\ ~check_liquidatable(a) /\ after_phase1(a)
  /\ liquidated' = liquidated \ {a}
  /\ UNCHANGED <<market, pos, tok, fills, insurance, price, now, uncovered, ops>>

AccruePlatformFee(m, s, in) == [m EXCEPT !.fees_accrued = @ + platform_fee(s, in)]

perp_liq_base_or_positive_pnl(liqor, liqee, max_base, max_pnl) ==
  LET p == update_settle_limit(settle_funding(pos[liqee], market), now)
      in == [base |-> p.base, price |-> price, max_base |-> max_base, max_pnl |-> max_pnl]
  IN  /\ Budget
      /\ liqor # liqee /\ liqor \notin liquidated
      /\ after_phase1(liqee) /\ check_liquidatable(liqee)
      /\ ~has_open_taker_fills(pos[liqee])
      /\ IF p.base > 0 THEN max_base >= 0 ELSE max_base <= 0
      /\ UhupnlPerLot(in) > 0
      /\ \E s \in Decided(Projected(pos[liqee], market, price, tok[liqee], OtherHealth), in) :
         \E done \in {Executed(p, settle_funding(pos[liqor], market), market, s, in)} :
         \E h \in {health(done.liqee, market, AtOracle(price), tok[liqee] + done.tokens,
                          OtherHealth, LiquidationEnd)} :
           /\ h >= HealthOf(liqee, LiquidationEnd)
           /\ pos' = [pos EXCEPT ![liqee] = done.liqee, ![liqor] = done.liqor]
           /\ tok' = [tok EXCEPT ![liqee] = @ + done.tokens, ![liqor] = @ - done.tokens]
           /\ market' = AccruePlatformFee(
                          WithOpenInterest(market, pos, pos', {liqor, liqee}), s, in)
           /\ liquidated' = maybe_recover(liqee, h)
      /\ UNCHANGED <<fills, insurance, price, now, uncovered>>

\* Fault: only the longs are charged.
SocializeOnLongs(m, loss) ==
  [m EXCEPT !.long_funding = @ + (IF m.open_interest = 0 THEN 0 ELSE loss \div m.open_interest)]

socialize_loss(m, loss) ==
  LET per_lot == IF m.open_interest = 0 THEN 0 ELSE loss \div m.open_interest
  IN  [m EXCEPT !.long_funding = @ + per_lot, !.short_funding = @ - per_lot]

\* First the liqor takes over as much negative pnl as the limits of the liqee
\* allow, for tokens of the liqee.
TakenOver(pe, pr, liqee, max) ==
  LET limit == Larger(0, Smaller(
                 perp_max_settle(pos[liqee], market, price, tok[liqee], OtherHealth),
                 -apply_pnl_settle_limit(pe, market, unsettled_pnl(pe, price))))
      settled == Smaller(limit, FixInt(max))
  IN  IF settled > 0
      THEN [liqee |-> record_settle(pe, -settled, market), settled |-> settled, limit |-> limit,
            liqor |-> record_liquidation_quote_change(pr, -settled)]
      ELSE [liqee |-> pe, liqor |-> pr, settled |-> 0, limit |-> limit]

\* Fault: the insurance fund pays more than it holds.
UncappedTransfer(to_liqor) == FixCeil(FixMul(to_liqor, ONE + BaseFee))

InsuranceTransfer(to_liqor) == Smaller(FixCeil(FixMul(to_liqor, ONE + BaseFee)), insurance)

\* The loss to be taken away for the account to be healthy, and what of it the
\* liqor takes for tokens of the insurance fund.
Insured(t, liqee, max) ==
  LET needed == Larger(0, Smaller(-unsettled_pnl(t.liqee, price),
                  spot_amount_given_for_health_zero(HealthOf(liqee, LiquidationEnd),
                    effective_token_balance(pos[liqee], market, AtOracle(price), tok[liqee],
                                            LiquidationEnd))))
      to_liqor == Smaller(needed, FixInt(max) - t.settled)
      transfer == InsuranceTransfer(to_liqor)
      loss == Smaller(FixDiv(FixInt(transfer), ONE + BaseFee), to_liqor)
  IN  IF t.settled = t.limit /\ unsettled_pnl(t.liqee, price) < 0
      THEN [transfer |-> transfer, loss |-> loss,
            rest |-> IF transfer = insurance THEN needed - loss ELSE 0]
      ELSE [transfer |-> 0, loss |-> 0, rest |-> 0]

\* If the limits allow no more and the insurance fund is exhausted, the rest
\* is charged to all positions of the market.
perp_liq_negative_pnl_or_bankruptcy(liqor, liqee, max) ==
  LET pe == update_settle_limit(settle_funding(pos[liqee], market), now)
  IN  /\ Budget
      /\ liqor # liqee /\ liqor \notin liquidated
      /\ after_phase2(liqee) /\ check_liquidatable(liqee)
      /\ unsettled_pnl(pe, price) < 0
      /\ \E t \in {TakenOver(pe, settle_funding(pos[liqor], market), liqee, max)} :
         \E i \in {Insured(t, liqee, max)} :
         \E p \in {IF i.transfer > 0 THEN record_settle(t.liqee, -i.loss, market) ELSE t.liqee} :
           /\ market' = IF i.rest > 0 THEN socialize_loss(market, i.rest) ELSE market
           /\ pos' = [pos EXCEPT
                ![liqee] = IF i.rest > 0 THEN record_settle(p, -i.rest, market') ELSE p,
                ![liqor] = IF i.transfer > 0
                           THEN record_liquidation_quote_change(t.liqor, -i.loss) ELSE t.liqor]
           /\ tok' = [tok EXCEPT ![liqee] = @ - t.settled,
                                 ![liqor] = @ + t.settled + FixInt(i.transfer)]
           /\ insurance' = insurance - i.transfer
           /\ uncovered' = uncovered + i.rest
                - (market'.long_funding - market.long_funding) * market.open_interest
      /\ liquidated' = maybe_recover(liqee,
           health(pos'[liqee], market', AtOracle(price), tok'[liqee], OtherHealth,
                  LiquidationEnd))
      /\ UNCHANGED <<fills, price, now>>

-----------------------------------------------------------------------------
(* Winding a market down *)

\* Funding of the lots that are closed: force closing does not settle it.
ForgottenFunding(old, new) ==
  SumOver(LAMBDA a : unsettled_funding(old[a], market) - unsettled_funding(new[a], market))

perp_force_close_position(a, b) ==
  LET lots == Smaller(pos[a].base, -pos[b].base)
      new == [pos EXCEPT ![a] = record_trade(@, market, -lots, lots * price),
                         ![b] = record_trade(@, market, lots, -lots * price)]
  IN  /\ Budget
      /\ market.force_close
      /\ pos[a].base > 0 /\ pos[b].base < 0
      /\ pos' = new
      /\ market' = WithOpenInterest(market, pos, new, {a, b})
      /\ uncovered' = uncovered + ForgottenFunding(pos, new)
      /\ UNCHANGED <<tok, liquidated, fills, insurance, price, now>>

perp_force_close_unmatched(a) ==
  LET new == [pos EXCEPT ![a] = record_trade(@, market, -1, price)]
  IN  /\ Unmatched /\ Budget
      /\ market.force_close /\ market.open_interest > 0 /\ pos[a].base > 0
      /\ pos' = new
      /\ market' = WithOpenInterest(market, pos, new, {a})
      /\ UNCHANGED <<tok, liquidated, fills, insurance, price, now, uncovered>>

perp_settle_unmatched(a, max) ==
  LET p == settle_funding(pos[a], market)
      loss == apply_pnl_settle_limit(p, market, unsettled_pnl(p, price))
      amount == Smaller(-loss, FixInt(max))
  IN  /\ Unmatched /\ Budget
      /\ max > 0 /\ market.force_close /\ loss < 0
      /\ p.base = 0 /\ ~has_open_orders(p) /\ ~has_open_taker_fills(p)
      /\ pos' = [pos EXCEPT ![a] = record_settle(p, -amount, market)]
      /\ tok' = [tok EXCEPT ![a] = @ - amount]
      /\ UNCHANGED <<market, liquidated, fills, insurance, price, now, uncovered>>

-----------------------------------------------------------------------------
(* The environment: prices, the clock, and the admin's settings *)

OraclePrice ==
  /\ price' \in Prices
  /\ UNCHANGED <<market, pos, tok, liquidated, fills, insurance, now, uncovered, ops>>

Tick ==
  /\ now < MaxTime
  /\ now' = now + 1
  /\ UNCHANGED <<market, pos, tok, liquidated, fills, insurance, price, uncovered, ops>>

perp_edit_market ==
  /\ \E f \in Fees, c \in {FALSE, ForceClose} :
       market' = [market EXCEPT !.fees = f, !.force_close = c]
  /\ UNCHANGED <<pos, tok, liquidated, fills, insurance, price, now, uncovered, ops>>

Next ==
  \/ perp_update_funding
  \/ \E a, b \in Accounts, lots \in {-1, 1} : Match(a, b, lots)
  \/ perp_consume_events
  \/ \E a, b \in Accounts, c \in Settlers : perp_settle_pnl(a, b, c)
  \/ \E a \in Accounts, max \in MaxLiabs : perp_settle_fees(a, max)
  \/ admin_perp_withdraw_fees
  \/ \E a \in Accounts : NotLiquidatable(a)
  \/ \E a, b \in Accounts, lots \in {-MaxBase, MaxBase} :
       perp_liq_base_or_positive_pnl(a, b, lots, MaxPnl)
  \/ \E a, b \in Accounts, max \in MaxLiabs : perp_liq_negative_pnl_or_bankruptcy(a, b, max)
  \/ \E a, b \in Accounts : perp_force_close_position(a, b)
  \/ \E a \in Accounts : perp_force_close_unmatched(a)
  \/ \E a \in Accounts, max \in MaxLiabs : perp_settle_unmatched(a, max)
  \/ OraclePrice \/ Tick \/ perp_edit_market

Spec == Init /\ [][Next]_vars

-----------------------------------------------------------------------------
(* Properties *)

TypeOK ==
  /\ market \in PerpMarket
  /\ \A a \in Accounts : pos[a] \in PerpPosition /\ tok[a] \in Int
  /\ liquidated \subseteq Accounts
  /\ \A i \in DOMAIN fills : fills[i] \in Fill
  /\ insurance \in Nat /\ price \in Prices

\* Everything the accounts hold or are owed, the fees and the insurance fund.
Claims ==
  SumOver(LAMBDA a : tok[a] + pos[a].quote - unsettled_funding(pos[a], market))
  + market.fees_accrued + market.fees_settled + FixInt(insurance)
  - MapThenSumSet(LAMBDA i : FixMul(Abs(fills[i].quote), fills[i].maker_fee), DOMAIN fills)

\* No sequence of trades, funding updates, settlements and liquidations
\* creates or destroys money, except a socialized loss that finds nobody to
\* charge (socialize_loss with no open interest) and its rounding, and the
\* funding that a forced close forgets.  An unmatched close has no other side:
\* it ends the promise, with the balance of longs and shorts.
MoneyConserved ==
  SumOver(LAMBDA a : pos[a].base) = 0 =>
    Claims = Cardinality(Accounts) * StartTokens + FixInt(StartInsurance) + uncovered

=============================================================================
