-------------------------- MODULE TokenLiquidation --------------------------
(***************************************************************************)
(* Liquidation of accounts that borrow tokens: exchange of collateral for  *)
(* debt, forced closing of borrows, bankruptcy with insurance and loss     *)
(* shared by the depositors, and the collateral fee.  Several tokens with  *)
(* weights and prices, several banks per token, every amount rounded as    *)
(* the program rounds it.                                                  *)
(*                                                                         *)
(* What perp markets add to an account is one number, the health value of  *)
(* its unsettled pnl, and two flags for open orders and open positions.    *)
(***************************************************************************)
EXTENDS BankMath, Sequences, SequencesExt, FiniteSets

CONSTANTS
  Lender, Liqee, Liqor,
  Tokens, SettleToken, InsuranceToken,
  Insured,           \* tokens eligible for the group's insurance fund
  NoAssetLiquidation, \* tokens with disable_asset_liquidation
  Closing,           \* tokens the admin may put into force close
  Config,            \* token -> weights and fees (bits)
  StablePrice,       \* token -> stable price (bits)
  Prices,            \* price functions the oracles may move to
  DepositIndex, BorrowIndex,   \* the indexes of all banks at the start
  BankCount,         \* token -> number of banks
  Deposits,          \* account -> token -> tokens deposited at the start
  Loans,             \* the tokens the liqee may borrow at the start: token -> set
  InsuranceFund,     \* tokens in the insurance vault at the start
  PerpStates,        \* perp parts of the liqee
  MaxTransfers,      \* limits given by the liquidator (tokens)
  Intervals,         \* collateral_fee_interval values the admin sets
  MinLiabs,          \* accounts that owe less pay no collateral fee (bits)
  DAY, MaxTime, MaxOps

Accounts == {Lender, Liqee, Liqor}

LiquidationAssumption ==
  /\ OneAssumption
  /\ SettleToken \in Tokens /\ InsuranceToken \in Tokens
  /\ Insured \subseteq Tokens /\ NoAssetLiquidation \subseteq Tokens
  /\ \A t \in Tokens : /\ Config[t].init_asset <= Config[t].maint_asset
                       /\ Config[t].maint_asset <= ONE /\ ONE <= Config[t].maint_liab
                       /\ Config[t].maint_liab <= Config[t].init_liab
                       /\ BankCount[t] >= 1

VARIABLES
  banks,        \* token -> its banks
  position,     \* account -> token -> units of the token position
  liquidated,   \* accounts with being_liquidated set
  insurance,    \* tokens in the insurance vault
  price,        \* token -> oracle price
  perp,         \* what perp markets add to the liqee
  force_close,  \* tokens with force_close set
  interval,     \* group.collateral_fee_interval
  last_charge,  \* last_collateral_fee_charge of the liqee
  now,
  ops           \* rounding instructions so far (history)

vars == <<banks, position, liquidated, insurance, price, perp, force_close, interval,
          last_charge, now, ops>>

fee_vars == <<interval, last_charge>>

Bank ==
  [deposit_index : Int, borrow_index : Nat, indexed_deposits : Int, indexed_borrows : Int,
   dust : Int, collected_fees : Int, net_borrows : Int, window_start : Nat, vault : Nat]

-----------------------------------------------------------------------------
(* Health of an account with tokens *)

Sum(f(_)) == FoldSet(LAMBDA t, n : n + f(t), 0, Tokens)

asset_weighted_price(t, type) ==
  CASE type = "Maint" -> FixMul(Config[t].maint_asset, price[t])
    [] type = "LiquidationEnd" -> FixMul(Config[t].init_asset, price[t])
    [] type = "Init" -> FixMul(Config[t].init_asset, Smaller(price[t], StablePrice[t]))

liab_weighted_price(t, type) ==
  CASE type = "Maint" -> FixMul(Config[t].maint_liab, price[t])
    [] type = "LiquidationEnd" -> FixMul(Config[t].init_liab, price[t])
    [] type = "Init" -> FixMul(Config[t].init_liab, Larger(price[t], StablePrice[t]))

health_contribution(t, type, balance) ==
  FixMul(balance, IF balance < 0 THEN liab_weighted_price(t, type)
                  ELSE asset_weighted_price(t, type))

\* The token position in tokens; all banks of a token have the same indexes.
Spot(bs, units, t) == native(units[t], bs[t][1])

\* Spot balance plus the health value of perp pnl.
spot_and_perp(bs, units, a, t) ==
  Spot(bs, units, t) + (IF a = Liqee /\ t = SettleToken THEN perp.hupnl ELSE 0)

health(bs, units, a, type) ==
  LET part(t) == health_contribution(t, type, spot_and_perp(bs, units, a, t)) IN Sum(part)

HealthOf(a, type) == health(banks, position[a], a, type)

has_liq_spot_assets(a) ==
  \E t \in Tokens \ NoAssetLiquidation :
    /\ Spot(banks, position[a], t) >= ONE
    /\ spot_and_perp(banks, position[a], a, t) >= ONE

has_liq_spot_borrows(a) ==
  \E t \in Tokens : /\ Spot(banks, position[a], t) < 0
                    /\ spot_and_perp(banks, position[a], a, t) < 0

has_possible_spot_liquidations(a) == has_liq_spot_borrows(a) /\ has_liq_spot_assets(a)

after_phase1 == ~perp.orders
after_phase2 ==
  after_phase1 /\ ~has_possible_spot_liquidations(Liqee) /\ ~perp.base /\ perp.hupnl <= 0

\* The flag makes a liquidation go on until the stricter health is restored.
check_liquidatable ==
  IF Liqee \in liquidated THEN HealthOf(Liqee, "LiquidationEnd") <= -ONE
  ELSE HealthOf(Liqee, "Maint") < 0

maybe_recover(flagged, bs, units) ==
  IF health(bs, units, Liqee, "LiquidationEnd") > -ONE THEN flagged \ {Liqee} ELSE flagged

\* The liquidator's own check at the end of an instruction.
LiqorHealthy(bs, units) == health(bs, units, Liqor, "Init") >= 0

-----------------------------------------------------------------------------
(* token_liq_with_token *)

FeeFactorLiqor(at, lt) ==
  FixMul(ONE + Config[lt].liq_fee, ONE + Config[at].liq_fee)

FeeFactorTotal(at, lt) ==
  FixMul(ONE + Config[lt].liq_fee + Config[lt].platform_fee,
         ONE + Config[at].liq_fee + Config[at].platform_fee)

\* The parts of the debt and of the collateral that may be exchanged: no more
\* than the real and the perp-adjusted balance.
MaxLiabLiquidation(lt, max) ==
  Larger(0, Smaller(FixInt(max), Smaller(-Spot(banks, position[Liqee], lt),
                                         -spot_and_perp(banks, position[Liqee], Liqee, lt))))

MaxAssetTransfer(at) ==
  Larger(0, Smaller(Spot(banks, position[Liqee], at),
                    spot_and_perp(banks, position[Liqee], Liqee, at)))

\* Health gained per token of debt; the code divides by it.
HealthPerLiab(at, lt) ==
  FixMul(price[lt], Config[lt].init_liab)
    - FixMul(FixMul(price[lt], FeeFactorTotal(at, lt)), Config[at].init_asset)

\* Fault: the amount that restores the health is not a limit.
LiabTransferIgnoringHealth(at, lt, max) ==
  LET adjusted == FixMul(price[lt], FeeFactorTotal(at, lt))
      possible == FixDiv(FixMul(MaxAssetTransfer(at), price[at]), adjusted)
  IN  Larger(0, Smaller(possible, MaxLiabLiquidation(lt, max)))

LiabTransfer(at, lt, max) ==
  LET adjusted == FixMul(price[lt], FeeFactorTotal(at, lt))
      needed == FixDiv(-HealthOf(Liqee, "LiquidationEnd"), HealthPerLiab(at, lt))
      possible == FixDiv(FixMul(MaxAssetTransfer(at), price[at]), adjusted)
  IN  Larger(0, Smaller(needed, Smaller(possible, MaxLiabLiquidation(lt, max))))

\* The four bank operations that exchange liab tokens of debt for collateral.
\* The liqee's small leftovers are always dusted.
Exchange(at, ka, lt, kl, liab) ==
  \E base \in {FixDiv(FixMul(liab, price[lt]), price[at])} :
  \E to_liqor \in {FixMul(base, FeeFactorLiqor(at, lt))},
     from_liqee \in {FixMul(base, FeeFactorTotal(at, lt))} :
  \E repaid \in {deposit_internal(banks[lt][kl], position[Liqee][lt], liab, TRUE, now)} :
  \E paid \in {withdraw_internal(repaid.bank, position[Liqor][lt], liab,
                                 Config[lt].origination_fee, TRUE, now)} :
  \E got \in {deposit_internal([banks[at][ka] EXCEPT !.collected_fees =
                                                     @ + from_liqee - to_liqor],
                               position[Liqor][at], to_liqor, TRUE, now)} :
  \E given \in {withdraw_internal(got.bank, position[Liqee][at], from_liqee, 0, TRUE, now)} :
    /\ banks' = [banks EXCEPT ![lt][kl] = paid.bank, ![at][ka] = given.bank]
    /\ position' = [position EXCEPT ![Liqee][lt] = repaid.units, ![Liqor][lt] = paid.units,
                                    ![Liqor][at] = got.units, ![Liqee][at] = given.units]

token_liq_with_token(at, ka, lt, kl, max) ==
  /\ ops < MaxOps
  /\ at # lt /\ Liqor \notin liquidated
  /\ after_phase1 /\ check_liquidatable
  /\ Spot(banks, position[Liqee], at) > 0 /\ at \notin NoAssetLiquidation
  /\ Spot(banks, position[Liqee], lt) < 0
  /\ MaxLiabLiquidation(lt, max) > 0 /\ MaxAssetTransfer(at) > 0
  /\ HealthPerLiab(at, lt) # 0
  /\ \E liab \in {LiabTransfer(at, lt, max)} : Exchange(at, ka, lt, kl, liab)
  /\ LiqorHealthy(banks', position'[Liqor])
  /\ liquidated' = maybe_recover(liquidated \cup {Liqee}, banks', position'[Liqee])
  /\ ops' = ops + 1
  /\ UNCHANGED <<insurance, price, perp, force_close, now, fee_vars>>

\* The early return of a liquidation of an account that recovered by itself.
BecameNotLiquidatable ==
  /\ after_phase1 /\ Liqee \in liquidated /\ ~check_liquidatable
  /\ liquidated' = liquidated \ {Liqee}
  /\ UNCHANGED <<banks, position, insurance, price, perp, force_close, now, ops, fee_vars>>

-----------------------------------------------------------------------------
(* token_force_close_borrows_with_token: no health condition on the liqee, *)
(* the liquidator pays from its deposits.                                  *)

\* A borrow of the asset token that the exchange leaves must not weigh more
\* than the debt it replaced.  A token in force close is reduce-only.
MayBorrowInExchange(at, lt, asset_after) ==
  asset_after < 0
    => /\ at \notin force_close
       /\ Config[lt].init_liab >= FixMul(Config[at].init_liab, FeeFactorTotal(at, lt))

token_force_close_borrows_with_token(at, ka, lt, kl, max) ==
  LET owed == -Spot(banks, position[Liqee], lt)
      held == Spot(banks, position[Liqor], lt)
      liab == Larger(0, Smaller(FixInt(max), Smaller(owed, held)))
  IN  /\ ops < MaxOps
      /\ at # lt /\ lt \in force_close /\ Liqor \notin liquidated
      /\ position[Liqee][at] # 0 /\ owed > 0 /\ held > 0
      /\ Exchange(at, ka, lt, kl, liab)
      /\ MayBorrowInExchange(at, lt, Spot(banks', position'[Liqee], at))
      /\ position'[Liqor][lt] >= 0
      /\ LiqorHealthy(banks', position'[Liqor])
      /\ liquidated' = maybe_recover(liquidated, banks', position'[Liqee])
      /\ ops' = ops + 1
      /\ UNCHANGED <<insurance, price, perp, force_close, now, fee_vars>>

-----------------------------------------------------------------------------
(* token_liq_bankruptcy *)

LiabToInsurance(lt) ==
  IF lt = InsuranceToken THEN ONE
  ELSE FixDiv(FixMul(price[lt], ONE + Config[lt].liq_fee), price[InsuranceToken])

\* The insurance tokens that pay for the debt, rounded up.
InsuranceTransfer(lt, loss, max) ==
  Smaller(FixCeil(FixMul(Smaller(loss, FixInt(max)), LiabToInsurance(lt))),
          IF lt \in Insured THEN insurance ELSE 0)

FundExhausted(lt, transfer) == transfer = (IF lt \in Insured THEN insurance ELSE 0)

\* The loss is spread over the deposits of all banks by lowering the index;
\* the liqee is credited bank by bank against the borrows booked there.  The
\* loop ends with the bank that takes the last part: banks after it keep their
\* index.
TotalDeposits(bs) == FoldSeq(LAMBDA b, n : n + b.indexed_deposits, 0, bs)

\* Fault: the loss is divided by deposited tokens instead of units.
LossPerToken(bs, loss) == FixDiv(loss, FixMul(bs[1].deposit_index, TotalDeposits(bs)))

LossPerUnit(bs, loss) == FixDiv(loss, TotalDeposits(bs))

CreditBank(acc, k, index) ==
  LET bank == [acc.banks[k] EXCEPT !.deposit_index = index]
      part == Smaller(acc.left, native_borrows(bank))
      d == deposit_internal(bank, acc.units, part, TRUE, now)
  IN  IF acc.left <= 0 THEN acc
      ELSE IF part <= 0 THEN [acc EXCEPT !.banks[k] = bank]
      ELSE [banks |-> [acc.banks EXCEPT ![k] = d.bank], units |-> d.units, left |-> acc.left - part]

Socialized(bs, units, loss) ==
  LET index == bs[1].deposit_index - LossPerUnit(bs, loss)
  IN  FoldLeft(LAMBDA acc, k : CreditBank(acc, k, index),
               [banks |-> bs, units |-> units, left |-> loss], [k \in DOMAIN bs |-> k])

\* The part of the debt that the fund paid.
InsurancePaid(lt, kl, transfer) ==
  deposit_internal(banks[lt][kl], position[Liqee][lt],
                   FixDiv(FixInt(transfer), LiabToInsurance(lt)), TRUE, now)

\* The liquidator takes the debt that was paid and the insurance tokens.
LiqorTakes(lt, bank, transfer) ==
  withdraw_internal(bank, position[Liqor][lt], FixDiv(FixInt(transfer), LiabToInsurance(lt)),
                    Config[lt].origination_fee, TRUE, now)

InsuranceDeposit(transfer) ==
  deposit_internal(banks[InsuranceToken][1], position[Liqor][InsuranceToken],
                   FixInt(transfer), TRUE, now)

BankruptcyLoss(lt) ==
  Smaller(-Spot(banks, position[Liqee], lt), -spot_and_perp(banks, position[Liqee], Liqee, lt))

\* The banks and positions before the loss is shared.
AfterInsurance(lt, kl, transfer) ==
  LET paid == InsurancePaid(lt, kl, transfer)
      taken == LiqorTakes(lt, paid.bank, transfer)
      deposited == InsuranceDeposit(transfer)
  IN  IF transfer = 0 THEN [banks |-> banks, position |-> position]
      ELSE IF lt = InsuranceToken
      THEN [banks |-> [banks EXCEPT ![lt][kl] = [paid.bank EXCEPT !.vault = @ + transfer]],
            position |-> [position EXCEPT ![Liqee][lt] = paid.units]]
      ELSE [banks |-> [banks EXCEPT ![lt][kl] = taken.bank,
                 ![InsuranceToken][1] = [deposited.bank EXCEPT !.vault = @ + transfer]],
            position |-> [position EXCEPT ![Liqee][lt] = paid.units,
                 ![Liqor][lt] = taken.units, ![Liqor][InsuranceToken] = deposited.units]]

RemainingLoss(lt, after) ==
  BankruptcyLoss(lt) - (Spot(after.banks, after.position[Liqee], lt)
                          - Spot(banks, position[Liqee], lt))

\* The conditions of the instruction up to the decision to share the loss.
MayBankrupt(lt) ==
  /\ Liqor \notin liquidated /\ after_phase2
  /\ Spot(banks, position[Liqee], lt) < 0
  /\ spot_and_perp(banks, position[Liqee], Liqee, lt) < 0

\* Whether the rest of the loss is shared, and the outcome of that.
SharesLoss(lt, transfer, after) ==
  FundExhausted(lt, transfer) /\ RemainingLoss(lt, after) > 0

SharedOutcome(lt, after) ==
  Socialized(after.banks[lt], after.position[Liqee][lt], RemainingLoss(lt, after))

\* The code divides by the deposits, and fails unless the debt is gone.
token_liq_bankruptcy(lt, kl, max) ==
  /\ ops < MaxOps
  /\ MayBankrupt(lt)
  /\ \E transfer \in {InsuranceTransfer(lt, BankruptcyLoss(lt), max)} :
     \E after \in {AfterInsurance(lt, kl, transfer)} :
       /\ transfer > 0 /\ lt # InsuranceToken => LiqorHealthy(after.banks, after.position[Liqor])
       /\ IF SharesLoss(lt, transfer, after)
          THEN /\ TotalDeposits(after.banks[lt]) # 0
               /\ \E shared \in {SharedOutcome(lt, after)} :
                    /\ shared.units = 0
                    /\ banks' = [after.banks EXCEPT ![lt] = shared.banks]
                    /\ position' = [after.position EXCEPT ![Liqee][lt] = shared.units]
          ELSE banks' = after.banks /\ position' = after.position
       /\ insurance' = insurance - transfer
       /\ liquidated' = maybe_recover(liquidated \cup {Liqee}, banks', position'[Liqee])
  /\ ops' = ops + 1
  /\ UNCHANGED <<price, perp, force_close, now, fee_vars>>

-----------------------------------------------------------------------------
(* token_charge_collateral_fees *)

liabs ==
  LET part(t) == FixMul(Larger(0, -Spot(banks, position[Liqee], t)), price[t])
  IN  Sum(part) + Larger(0, -perp.hupnl)

MaintPart(t) ==
  health_contribution(t, "Maint", spot_and_perp(banks, position[Liqee], Liqee, t))

total_asset_health == LET part(t) == Larger(0, MaintPart(t)) IN Sum(part)
total_liab_health == LET part(t) == Larger(0, -MaintPart(t)) IN Sum(part)

Scaling(seconds) ==
  FixMul(Clamped(FixDiv(total_liab_health, total_asset_health), 0, ONE),
         Trunc(FixInt(seconds), DAY))

\* The fee is counted on the collateral ...
FeesInUsd(seconds) ==
  LET balance(t) == Larger(0, spot_and_perp(banks, position[Liqee], Liqee, t))
      part(t) == IF Config[t].maint_asset = 0 THEN 0
                 ELSE FixMul(FixMul(FixMul(balance(t), Scaling(seconds)),
                                    Config[t].collateral_fee), price[t])
  IN  Sum(part)

\* ... and paid in the borrowed tokens, by their share of the debt.
FeeShare(t, seconds) ==
  FixDiv(FixMul(Abs(FixDiv(MaintPart(t), total_liab_health)), FeesInUsd(seconds)), price[t])

FeeTaken(t, seconds) ==
  LET fee == FeeShare(t, seconds)
      r == withdraw_internal(banks[t][1], position[Liqee][t], fee, 0, TRUE, now)
  IN  [r EXCEPT !.bank.collected_fees = @ + fee]

PaysFee(t) == MaintPart(t) < 0

ChargeFees(seconds) ==
  IF liabs < MinLiabs \/ total_asset_health = 0 \/ total_liab_health = 0
  THEN UNCHANGED <<banks, position>>
  ELSE /\ banks' = [t \in Tokens |-> IF PaysFee(t)
                      THEN [banks[t] EXCEPT ![1] = FeeTaken(t, seconds).bank] ELSE banks[t]]
       /\ position' = [position EXCEPT ![Liqee] =
            [t \in Tokens |-> IF PaysFee(t) THEN FeeTaken(t, seconds).units ELSE @[t]]]

\* At most twice the interval is charged, however long nobody called.
ChargeSeconds == Smaller(now - last_charge, 2 * interval)

token_charge_collateral_fees ==
  /\ ops < MaxOps
  /\ \/ /\ interval = 0
        /\ last_charge' = 0 /\ UNCHANGED <<banks, position, ops>>
     \/ /\ interval > 0 /\ last_charge = 0
        /\ last_charge' = now /\ UNCHANGED <<banks, position, ops>>
     \/ /\ interval > 0 /\ last_charge > 0 /\ now >= last_charge + interval
        /\ last_charge' = now
        /\ ChargeFees(ChargeSeconds)
        /\ ops' = ops + 1
  /\ UNCHANGED <<liquidated, insurance, price, perp, force_close, interval, now>>

-----------------------------------------------------------------------------
(* The rest of the world *)

\* group_edit of the interval, token_edit of force_close.
group_edit(i) ==
  /\ i # interval /\ interval' = i
  /\ UNCHANGED <<banks, position, liquidated, insurance, price, perp, force_close,
                 last_charge, now, ops>>

token_edit_force_close(t) ==
  /\ t \notin force_close /\ force_close' = force_close \cup {t}
  /\ UNCHANGED <<banks, position, liquidated, insurance, price, perp, now, ops, fee_vars>>

\* Oracles publish at most one price per second.
OraclePrice(p) ==
  /\ p # price /\ price' = p
  /\ now < MaxTime /\ now' = now + 1
  /\ UNCHANGED <<banks, position, liquidated, insurance, perp, force_close, interval,
                 last_charge, ops>>

PerpChanges(p) ==
  /\ p # perp /\ perp' = p
  /\ UNCHANGED <<banks, position, liquidated, insurance, price, force_close, now, ops, fee_vars>>

Tick ==
  /\ now < MaxTime
  /\ now' = now + 1
  /\ UNCHANGED <<banks, position, liquidated, insurance, price, perp, force_close, interval,
                 last_charge, ops>>

\* The accounts at the start: each of them deposited its tokens on every bank,
\* then the liqee borrowed on one of them, healthy at the stable prices.
NewBank ==
  [deposit_index |-> DepositIndex, borrow_index |-> BorrowIndex, indexed_deposits |-> 0,
   indexed_borrows |-> 0, dust |-> 0, collected_fees |-> 0, net_borrows |-> 0,
   window_start |-> 0, vault |-> 0]

Deposited(t, acc, a, k) ==
  LET d == deposit_internal(acc.banks[k], acc.units[a], FixInt(Deposits[a][t]), TRUE, 0)
  IN  IF Deposits[a][t] = 0 THEN acc
      ELSE [banks |-> [acc.banks EXCEPT ![k] = [d.bank EXCEPT !.vault = @ + Deposits[a][t]]],
            units |-> [acc.units EXCEPT ![a] = d.units]]

Opened(t) ==
  LET ks == [k \in 1..BankCount[t] |-> k]
      of(acc, a) == FoldLeft(LAMBDA x, k : Deposited(t, x, a, k), acc, ks)
  IN  FoldLeft(of, [banks |-> [k \in 1..BankCount[t] |-> NewBank],
                    units |-> [a \in Accounts |-> 0]], <<Lender, Liqee, Liqor>>)

Borrowed(t, k, loan) ==
  LET open == Opened(t)
      w == withdraw_internal(open.banks[k], open.units[Liqee], FixInt(loan),
                             Config[t].origination_fee, TRUE, 0)
  IN  IF loan = 0 THEN open
      ELSE [banks |-> [open.banks EXCEPT ![k] = [w.bank EXCEPT !.vault = @ - loan]],
            units |-> [open.units EXCEPT ![Liqee] = w.units]]

Init ==
  /\ \E loan \in Loans : \E at_bank \in [Tokens -> 1..2] :
       /\ \A t \in Tokens : at_bank[t] <= BankCount[t]
       /\ banks = [t \in Tokens |-> Borrowed(t, at_bank[t], loan[t]).banks]
       /\ position = [a \in Accounts |->
                        [t \in Tokens |-> Borrowed(t, at_bank[t], loan[t]).units[a]]]
  /\ price = StablePrice
  /\ perp = [orders |-> FALSE, base |-> FALSE, hupnl |-> 0]
  /\ HealthOf(Liqee, "Init") >= 0
  /\ liquidated = {} /\ insurance = InsuranceFund
  /\ force_close = {} /\ interval = 0 /\ last_charge = 0
  /\ now = 1 /\ ops = 0

Next ==
  \/ \E at, lt \in Tokens : \E ka \in DOMAIN banks[at], kl \in DOMAIN banks[lt] :
       \E max \in MaxTransfers :
         \/ token_liq_with_token(at, ka, lt, kl, max)
         \/ token_force_close_borrows_with_token(at, ka, lt, kl, max)
  \/ BecameNotLiquidatable
  \/ \E lt \in Tokens : \E kl \in DOMAIN banks[lt], max \in MaxTransfers :
       token_liq_bankruptcy(lt, kl, max)
  \/ token_charge_collateral_fees
  \/ \E i \in Intervals : group_edit(i)
  \/ \E t \in Closing : token_edit_force_close(t)
  \/ \E p \in Prices : OraclePrice(p)
  \/ \E p \in PerpStates : PerpChanges(p)
  \/ Tick

Spec == Init /\ [][Next]_vars

-----------------------------------------------------------------------------
(* Properties *)

\* The state is well formed; no vault and not the insurance fund is overdrawn,
\* and every deposit index stays a price (positive).
TypeOK ==
  /\ \A t \in Tokens : /\ banks[t] \in Seq(Bank)
                       /\ \A k \in DOMAIN banks[t] : banks[t][k].deposit_index > 0
  /\ position \in [Accounts -> [Tokens -> Int]]
  /\ liquidated \subseteq Accounts /\ insurance \in Nat
  /\ last_charge \in 0..now

TotalOf(t, field) == FoldSeq(LAMBDA b, n : n + b[field], 0, banks[t])

\* What one instruction may lose or create by rounding: a unit of index per
\* bank operation.  A shared loss is rounded once per deposited unit.
Slack(t) ==
  (ops + 2) * (6 + 4 * (BorrowIndex \div ONE))
    + TotalOf(t, "indexed_deposits") \div ONE

\* Tokens in the vault plus what borrowers owe is what depositors, dust and
\* fees claim, in both directions: liquidation, insurance, shared losses and
\* fees move value between accounts without creating or destroying it.
Conserved ==
  \A t \in Tokens :
    Abs(FixInt(TotalOf(t, "vault")) + FixMul(BorrowIndex, TotalOf(t, "indexed_borrows"))
         - FixMul(banks[t][1].deposit_index, TotalOf(t, "indexed_deposits"))
         - TotalOf(t, "dust") - TotalOf(t, "collected_fees"))
      <= Slack(t)

\* A step that exchanged the liqee's collateral for debt.
ExchangeStep ==
  position'[Liqee] # position[Liqee] /\ position'[Liqor] # position[Liqor] /\ insurance' = insurance

\* Leftovers below one token are given up.
DustValue == LET part(t) == FixMul(Config[t].init_liab, price[t]) IN 8 + Sum(part)

\* A liquidation takes no more than the health needs: it does not lift the
\* health above zero by more than rounding.
NotBeyondHealth ==
  ExchangeStep /\ force_close = {}
    => HealthOf(Liqee, "LiquidationEnd")' <= DustValue

=============================================================================
