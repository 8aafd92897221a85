---------------------------- MODULE PerpPosition ----------------------------
(***************************************************************************)
(* The money of one perp position: base lots, quote, funding that is not   *)
(* settled yet and the limits on how much pnl may be turned into tokens.   *)
(* Quote amounts, prices (of one base lot) and funding indexes are         *)
(* fixed-point bits, settle limits and lots are integers.  Entry price,    *)
(* volumes and the other fields that are only displayed are left out.      *)
(***************************************************************************)
EXTENDS FixedPoint

CONSTANTS
  SettleLimitFactor,   \* settle_pnl_limit_factor (bits), negative for no limit
  SettleWindow         \* settle_pnl_limit_window_size_ts

PositionAssumption == SettleLimitFactor \in Int /\ SettleWindow \in Nat \ {0}

PerpPosition ==
  [base : Int, quote : Int, long_settled : Int, short_settled : Int,
   bids : Nat, asks : Nat, taker_base : Int, taker_quote : Int,
   window : Nat, used : Int, oneshot : Int, recurring : Int]

NewPosition ==
  [base |-> 0, quote |-> 0, long_settled |-> 0, short_settled |-> 0,
   bids |-> 0, asks |-> 0, taker_base |-> 0, taker_quote |-> 0,
   window |-> 0, used |-> 0, oneshot |-> 0, recurring |-> 0]

has_open_orders(p) == p.asks # 0 \/ p.bids # 0
has_open_taker_fills(p) == p.taker_base # 0 \/ p.taker_quote # 0

\* What the position still has to pay since funding was last settled on it.
unsettled_funding(p, m) ==
  CASE p.base > 0 -> (m.long_funding - p.long_settled) * p.base
    [] p.base < 0 -> (m.short_funding - p.short_settled) * p.base
    [] OTHER -> 0

settle_funding(p, m) ==
  LET funding == unsettled_funding(p, m)
  IN  [p EXCEPT !.quote = @ - funding, !.oneshot = @ - funding,
                !.long_settled = m.long_funding, !.short_settled = m.short_funding]

unsettled_pnl(p, price) == p.quote + p.base * price

\* The lots a trade adds to the size of a position, negative for a reduction.
\* A trade through zero reduces all of the old and adds all of the new position.
NetIncrease(p, change) == Abs(p.base + change) - Abs(p.base)

update_trade_stats(p, change, m) ==
  IF change = 0 THEN p
  ELSE [p EXCEPT !.recurring =
          Larger(0, Abs(@) - FixFloor(FixMul(NetIncrease(p, change) * m.stable,
                                             SettleLimitFactor)))]

apply_recurring_constraint(p, m) ==
  [p EXCEPT !.recurring =
     Larger(0, Smaller(Abs(@), FixCeil(Abs(unsettled_pnl(p, m.stable)))))]

record_trade(p, m, change, quote) ==
  LET q == update_trade_stats(p, change, m)
  IN  apply_recurring_constraint([q EXCEPT !.base = @ + change, !.quote = @ + quote], m)

record_trading_fee(p, fee) == [p EXCEPT !.quote = @ - fee, !.oneshot = @ - fee]

record_liquidation_quote_change(p, change) ==
  [p EXCEPT !.quote = @ + change, !.oneshot = @ + change]

record_liquidation_pnl_takeover(p, change, recurring, oneshot) ==
  [p EXCEPT !.quote = @ + change, !.recurring = @ + recurring,
            !.oneshot = @ + FixInt(oneshot)]

-----------------------------------------------------------------------------
(* How much pnl may be settled in the current window *)

update_settle_limit(p, now) ==
  IF now >= (p.window + 1) * SettleWindow \/ now < p.window * SettleWindow
  THEN [p EXCEPT !.window = now \div SettleWindow, !.used = 0] ELSE p

settle_limit(p, m) ==
  LET value == p.base * m.stable
      both == FixFloor(FixMul(SettleLimitFactor, Abs(value)))
              + Smaller(Abs(p.recurring), FixCeil(Abs(p.quote + value)))
  IN  [min |-> Smaller(0, IF p.oneshot >= 0 THEN -both ELSE FixFloor(p.oneshot) - both),
       max |-> Larger(0, IF p.oneshot >= 0 THEN both + FixCeil(p.oneshot) ELSE both)]

available_settle_limit(p, m) ==
  [min |-> Smaller(0, settle_limit(p, m).min - p.used),
   max |-> Larger(0, settle_limit(p, m).max - p.used)]

apply_pnl_settle_limit(p, m, pnl) ==
  LET available == available_settle_limit(p, m)
  IN  IF SettleLimitFactor < 0 THEN pnl
      ELSE IF pnl < 0 THEN Larger(pnl, FixInt(available.min))
      ELSE Smaller(pnl, FixInt(available.max))

\* The part of the once-only allowance that a settlement consumes.
OneshotReduction(p, settled) ==
  IF settled > 0 THEN Larger(0, Smaller(settled, p.oneshot))
  ELSE Smaller(0, Larger(settled, p.oneshot))

record_settle(p, settled, m) ==
  LET reduction == OneshotReduction(p, settled)
      q == apply_recurring_constraint(
             [p EXCEPT !.quote = @ - settled, !.oneshot = @ - reduction], m)
      change == q.recurring - Abs(p.recurring)
      used == Trunc(settled - reduction, ONE)
  IN  [q EXCEPT !.used = @ + (IF change >= 0 THEN used
                              ELSE IF used > 0 THEN Larger(0, used + change)
                              ELSE Smaller(0, used - change))]
=============================================================================
