-------------------------- MODULE PerpLiquidation ---------------------------
(***************************************************************************)
(* How much of a perp position a liquidator takes over.  The liquidation   *)
(* goes through five steps that alternate between reducing base lots and   *)
(* taking over positive pnl; each works on projections of the account's    *)
(* health, and only at the end are the lots, the quote and the tokens      *)
(* moved.  The module has the numbers of one liquidation as its state.     *)
(***************************************************************************)
EXTENDS PerpPosition

CONSTANTS
  AssetPrice, LiabPrice,                  \* weighted prices of the settle token
  InitBaseAsset, InitBaseLiab,            \* weights of base lots
  MaintBaseAsset, MaintBaseLiab,
  InitOverall, MaintOverall,              \* weights of positive unsettled pnl
  BaseFee, PlatformFee, PositivePnlFee    \* liquidation fees

WeightAssumption ==
  /\ OneAssumption /\ PositionAssumption
  /\ 0 < AssetPrice /\ AssetPrice <= LiabPrice
  /\ 0 <= InitBaseAsset /\ InitBaseAsset <= MaintBaseAsset /\ MaintBaseAsset <= ONE
  /\ ONE <= MaintBaseLiab /\ MaintBaseLiab <= InitBaseLiab
  /\ 0 <= InitOverall /\ InitOverall <= MaintOverall /\ MaintOverall <= ONE

-----------------------------------------------------------------------------
(* Health of an account with one perp market and its settle token.         *)

Maint == [asset |-> MaintBaseAsset, liab |-> MaintBaseLiab, overall |-> MaintOverall]
LiquidationEnd == [asset |-> InitBaseAsset, liab |-> InitBaseLiab, overall |-> InitOverall]

health_contribution(balance) == FixMul(balance, IF balance < 0 THEN LiabPrice ELSE AssetPrice)

\* Base prices: the oracle's, or the worse of oracle and stable price.
AtOracle(price) == [asset |-> price, liab |-> price]
InitPrices(price, m) == [asset |-> Smaller(price, m.stable), liab |-> Larger(price, m.stable)]

\* The value of the base position after all of one side's orders executed.
OrderExecutionCase(p, orders, order_price, prices, w) ==
  LET net == p.base + p.taker_base + orders
  IN  (IF net < 0 THEN FixMul(net * w.liab, prices.liab) ELSE FixMul(net * w.asset, prices.asset))
      - orders * order_price

unweighted_health_unsettled_pnl(p, m, prices, w) ==
  p.quote - unsettled_funding(p, m) + p.taker_quote
  + Smaller(OrderExecutionCase(p, p.bids, prices.liab, prices, w),
            OrderExecutionCase(p, -p.asks, prices.asset, prices, w))

weigh_uhupnl_overall(u, w) == IF u > 0 THEN FixMul(w.overall, u) ELSE u

health_unsettled_pnl(p, m, prices, w) ==
  weigh_uhupnl_overall(unweighted_health_unsettled_pnl(p, m, prices, w), w)

\* Settle token plus risk-adjusted pnl.
effective_token_balance(p, m, prices, tok, w) == tok + health_unsettled_pnl(p, m, prices, w)

\* other: the health of the account's other tokens.
health(p, m, prices, tok, other, w) ==
  other + health_contribution(effective_token_balance(p, m, prices, tok, w))

spot_amount_taken_for_health_zero(h, spot, asset, liab) ==
  LET left == IF spot > 0 THEN h - FixMul(spot, asset) ELSE h
      all == Larger(spot, 0) + (IF left > 0 THEN FixDiv(left, liab) ELSE 0)
  IN  CASE h <= 0 -> 0
        [] h > 0 /\ spot > 0 /\ asset > 0 /\ FixDiv(h, asset) <= spot -> FixDiv(h, asset)
        [] OTHER -> all

spot_amount_given_for_health_zero(h, spot) ==
  spot_amount_taken_for_health_zero(-h, -spot, LiabPrice, AssetPrice)

\* Tokens that may be settled away against negative pnl.
perp_max_settle(p, m, price, tok, other) ==
  LET balance == tok + Larger(0, health_unsettled_pnl(p, m, AtOracle(price), Maint))
  IN  spot_amount_taken_for_health_zero(other + health_contribution(balance), balance,
                                        AssetPrice, LiabPrice)

-----------------------------------------------------------------------------
(* The steps of a liquidation.  An input record in has the liqee's base    *)
(* lots, the price and the liquidator's limits; s has what was decided so  *)
(* far and the projected uhupnl, health and effective token balance.       *)

FeeFactorLiqor(base) == IF base > 0 THEN ONE - BaseFee ELSE ONE + BaseFee

FeeFactorAll(base) ==
  IF base > 0 THEN FeeFactorLiqor(base) - PlatformFee ELSE FeeFactorLiqor(base) + PlatformFee

UhupnlPerLot(in) ==
  FixMul(in.price, IF in.base > 0 THEN FeeFactorAll(in.base) - InitBaseAsset
                   ELSE InitBaseLiab - FeeFactorAll(in.base))

SpotGainPerSettled == ONE - PositivePnlFee

reduce_base(s, in, limit, expected, actual) ==
  LET wanted == Smaller(spot_amount_given_for_health_zero(s.health, s.spot), limit)
      lots == Larger(0, Smaller(FixCeil(FixDiv(wanted, expected)),
                                Smaller(Abs(in.base), Abs(in.max_base)) - s.lots))
      spot == s.spot + actual * lots
  IN  [s EXCEPT !.lots = @ + lots, !.uhupnl = @ + UhupnlPerLot(in) * lots, !.spot = spot,
                !.health = @ - health_contribution(s.spot) + health_contribution(spot)]

\* Fault: pnl is taken over beyond the positive health-weighted pnl.
SettleBeyondUhupnl(s, in, per_settle) ==
  LET wanted == spot_amount_given_for_health_zero(s.health, s.spot)
      settle == Larger(0, Smaller(FixDiv(wanted, per_settle), FixInt(in.max_pnl) - s.pnl))
      spot == s.spot + FixMul(settle, per_settle)
  IN  [s EXCEPT !.pnl = @ + settle, !.uhupnl = @ - settle, !.spot = spot,
                !.health = @ - health_contribution(s.spot) + health_contribution(spot)]

settle_pnl(s, in, per_settle) ==
  LET wanted == spot_amount_given_for_health_zero(s.health, s.spot)
      settle == Larger(0, Smaller(s.uhupnl, Smaller(FixDiv(wanted, per_settle),
                                                    FixInt(in.max_pnl) - s.pnl)))
      spot == s.spot + FixMul(settle, per_settle)
  IN  [s EXCEPT !.pnl = @ + settle, !.uhupnl = @ - settle, !.spot = spot,
                !.health = @ - health_contribution(s.spot) + health_contribution(spot)]

\* 1: while the weighted pnl is negative every lot improves it fully.
ReduceNegative(s, in) ==
  IF s.uhupnl < 0 THEN reduce_base(s, in, -s.uhupnl, UhupnlPerLot(in), UhupnlPerLot(in)) ELSE s

\* 2 and 4: pnl against tokens, when tokens are worth more than weighted pnl.
Settle(s, in) ==
  IF s.uhupnl >= 0 /\ SpotGainPerSettled > InitOverall
  THEN settle_pnl(s, in, SpotGainPerSettled - InitOverall) ELSE s

\* 3: lots whose pnl step 4 is going to settle.
ReduceSettleable(s, in) ==
  IF s.uhupnl >= 0 /\ s.pnl < FixInt(in.max_pnl)
  THEN reduce_base(s, in, FixInt(in.max_pnl) - s.pnl,
                   FixMul(UhupnlPerLot(in), SpotGainPerSettled),
                   FixMul(UhupnlPerLot(in), InitOverall))
  ELSE s

\* 5: the rest, as far as positive pnl counts for the health at all.
NoLimit == 2^30
ReducePositive(s, in) ==
  IF s.health < -(ONE \div 2) /\ InitOverall > 0
  THEN LET per_lot == FixMul(UhupnlPerLot(in), InitOverall)
       IN  reduce_base(s, in, NoLimit, per_lot, per_lot)
  ELSE s

LiquidationStep(n, s, in) ==
  CASE n = 1 -> ReduceNegative(s, in)
    [] n \in {2, 4} -> Settle(s, in)
    [] n = 3 -> ReduceSettleable(s, in)
    [] n = 5 -> ReducePositive(s, in)

\* The outcome of the five steps, as a set of one.
Decided(s0, in) ==
  LET Then(n, before) == {LiquidationStep(n, s, in) : s \in before}
  IN  Then(5, Then(4, Then(3, Then(2, Then(1, {s0})))))

\* What the steps start from.
Projected(p, m, price, tok, other) ==
  [lots |-> 0, pnl |-> 0,
   uhupnl |-> unweighted_health_unsettled_pnl(p, m, AtOracle(price), LiquidationEnd),
   health |-> health(p, m, AtOracle(price), tok, other, LiquidationEnd),
   spot |-> effective_token_balance(p, m, AtOracle(price), tok, LiquidationEnd)]

-----------------------------------------------------------------------------
(* Moving lots, quote, pnl and tokens                                      *)

BaseTransfer(s, in) == (IF in.base > 0 THEN -1 ELSE 1) * s.lots
QuoteLiqee(s, in) == FixMul(-BaseTransfer(s, in) * in.price, FeeFactorAll(in.base))
QuoteLiqor(s, in) == FixMul(BaseTransfer(s, in) * in.price, FeeFactorLiqor(in.base))
platform_fee(s, in) == Larger(0, -QuoteLiqor(s, in) - QuoteLiqee(s, in))
TokenTransfer(s) == FixMul(s.pnl, SpotGainPerSettled)

\* The part of the liqee's settle limit (before the liquidation: limit) that goes with the pnl.
LimitTransfer(limit, p, m, price, s) ==
  LET oneshot == Larger(0, FixCeil(p.oneshot))
      settle == FixFloor(s.pnl)
      total == Larger(Larger(1, FixCeil(unsettled_pnl(p, price))), settle)
      cap == FixCeil(s.pnl)
      recurring == Larger(1, Smaller(cap, Trunc(Larger(0, limit - oneshot) * settle, total)))
  IN  [recurring |-> recurring,
       oneshot |-> Larger(0, Smaller(cap - recurring, Trunc(oneshot * settle, total)))]

\* The two positions after the base lots changed hands.
Traded(liqee, liqor, m, s, in) ==
  IF s.lots = 0 THEN <<liqee, liqor>>
  ELSE <<record_trade(liqee, m, BaseTransfer(s, in), QuoteLiqee(s, in)),
         record_trade(liqor, m, -BaseTransfer(s, in), QuoteLiqor(s, in))>>

\* ... and after the pnl was taken over, with the tokens that pay for it.
Executed(liqee, liqor, m, s, in) ==
  LET limit == settle_limit(liqee, m).max
      traded == Traded(liqee, liqor, m, s, in)
      moved == LimitTransfer(limit, traded[1], m, in.price, s)
  IN  IF s.pnl = 0 THEN [liqee |-> traded[1], liqor |-> traded[2], tokens |-> 0]
      ELSE [liqee |-> record_settle(traded[1], s.pnl, m),
            liqor |-> record_liquidation_pnl_takeover(traded[2], s.pnl, moved.recurring,
                                                      moved.oneshot),
            tokens |-> TokenTransfer(s)]
=============================================================================
