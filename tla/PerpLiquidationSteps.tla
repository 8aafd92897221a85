------------------------ MODULE PerpLiquidationSteps ------------------------
(***************************************************************************)
(* One call of perp_liq_base_or_positive_pnl on every small liqee: the     *)
(* five steps that decide, then the execution.  What is checked is that    *)
(* the projections the steps work on stay true to the positions that the   *)
(* execution produces.                                                     *)
(***************************************************************************)
EXTENDS PerpLiquidation

CONSTANTS
  Bases, Quotes, Tokens, Others, Oneshots,   \* the liqees
  Price, MaxBases, MaxPnls,                  \* oracle price and the liquidator's limits
  Slack                                      \* bits that rounding may cost

VARIABLES liqee, tok, other, in, s, step, after

vars == <<liqee, tok, other, in, s, step, after>>

Market == [long_funding |-> 0, short_funding |-> 0, stable |-> Price]

\* Health of the account with position p and t settle tokens.
HealthOf(p, t, w) == health(p, Market, AtOracle(Price), t, other, w)

Liqees ==
  {[NewPosition EXCEPT !.base = b, !.quote = q, !.oneshot = o] :
     b \in Bases, q \in Quotes, o \in Oneshots}

Init ==
  /\ liqee \in Liqees
  /\ tok \in Tokens
  /\ other \in Others
  /\ in \in {[base |-> liqee.base, price |-> Price, max_base |-> b, max_pnl |-> p] :
               b \in MaxBases, p \in MaxPnls}
  /\ in.base > 0 => in.max_base >= 0
  /\ in.base <= 0 => in.max_base <= 0
  /\ HealthOf(liqee, tok, Maint) < 0
  /\ UhupnlPerLot(in) > 0
  /\ s = Projected(liqee, Market, Price, tok, other)
  /\ step = 1
  /\ after = <<>>

Decide ==
  /\ step <= 5
  /\ s' = LiquidationStep(step, s, in)
  /\ step' = step + 1
  /\ UNCHANGED <<liqee, tok, other, in, after>>

Execute ==
  /\ step = 6
  /\ after' = <<Executed(liqee, NewPosition, Market, s, in)>>
  /\ step' = 7
  /\ UNCHANGED <<liqee, tok, other, in, s>>

Done == step = 7 /\ UNCHANGED vars

Next == Decide \/ Execute \/ Done

Spec == Init /\ [][Next]_vars

-----------------------------------------------------------------------------
TypeOK ==
  /\ liqee \in PerpPosition /\ tok \in Int /\ other \in Int
  /\ s \in [lots : 0..Abs(liqee.base), pnl : Nat, uhupnl : Int, health : Int, spot : Int]
  /\ step \in 1..7
  /\ \A i \in DOMAIN after : after[i].liqee \in PerpPosition /\ after[i].liqor \in PerpPosition

\* The projected weighted pnl is the one the account would have if the
\* liquidation were executed as decided so far, up to rounding, and the
\* projected health is too high by no more than the one lot that took the
\* pnl through zero (reduce_base and settle_pnl against recompute_perp_info).
ProjectionsTrue ==
  LET now == Executed(liqee, NewPosition, Market, s, in)
      error == s.health - HealthOf(now.liqee, tok + now.tokens, LiquidationEnd)
  IN  /\ Abs(unweighted_health_unsettled_pnl(now.liqee, Market, AtOracle(Price), LiquidationEnd)
             - s.uhupnl) <= Slack
      /\ -Slack <= error
      /\ error <= FixMul(UhupnlPerLot(in), LiabPrice) + Slack

=============================================================================
