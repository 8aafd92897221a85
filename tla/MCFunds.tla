------------------------------ MODULE MCFunds ------------------------------
(***************************************************************************)
(* The parts of the program that move tokens, each on a small instance of  *)
(* its own.  A behaviour is a behaviour of one part: the part is chosen at *)
(* the start and does not change, v1 to v13 stand for its variables, and   *)
(* the variables of StablePrice are those of the part "price".             *)
(***************************************************************************)
EXTENDS StablePrice, TLC

VARIABLES part, v1, v2, v3, v4, v5, v6, v7, v8, v9, v10, v11, v12, v13

----------------------------------------------------------------------------
(* Instances *)

\* Two accounts of one token, one of them held open by a market.  The rates
\* are high: they move the indexes by odd fractions in one step.
Bank == INSTANCE TokenBank WITH
  banks <- v1, position <- v2, reduce_only <- v3, force_withdraw <- v4, now <- v5, ops <- v6,
  Accounts <- {"a1", "a2"}, InUse <- {"a2"}, Amounts <- {1, 3}, Fractions <- {37},
  ONE <- 64, INDEX_START <- 64, MAX_BANKS <- 2, Modes <- {<<1, TRUE>>},
  Price <- 64, LoanFeeRate <- 5, LoanOriginationFeeRate <- 24, AdjustmentFactor <- 16,
  TargetUtilization <- 32, MinVaultRatio <- 8, WindowSize <- 2, NetBorrowLimit <- 5,
  DepositLimit <- 8, YEAR <- 1, HOUR <- 1, MaxInterestStep <- 2, MaxTime <- 1, MaxOps <- 4,
  Curve <- [zero_util_rate |-> 3, util0 |-> 32, rate0 |-> 20, util1 |-> 48, rate1 |-> 45,
            max_rate |-> 90]

\* Every transaction of up to four instructions of one account.
Brackets == INSTANCE TxBrackets WITH
  st <- v1, saved <- v2, tx <- v3, ip <- v4, by <- v5, txs <- v6,
  Accounts <- {"a"}, Banks <- {"x"}, Loan <- [x |-> 2], Vault <- [x |-> 4],
  MaxIxs <- 4, MaxTxs <- 1, Deltas <- {-1, 2}, Grace <- -2,
  InitialPos <- {[x |-> 1], [x |-> -1]}, InitialOther <- {-1}

\* Liqees around the liquidation thresholds.
Steps == INSTANCE PerpLiquidationSteps WITH
  liqee <- v1, tok <- v2, other <- v3, in <- v4, s <- v5, step <- v6, after <- v7,
  ONE <- 8, SettleLimitFactor <- 2, SettleWindow <- 10, AssetPrice <- 7, LiabPrice <- 9,
  InitBaseAsset <- 4, InitBaseLiab <- 12, MaintBaseAsset <- 6, MaintBaseLiab <- 10,
  InitOverall <- 2, MaintOverall <- 4, BaseFee <- 1, PlatformFee <- 1, PositivePnlFee <- 1,
  Price <- 32, Bases <- -3..3, Quotes <- {-160, -96, -33, 0, 40, 96},
  Tokens <- {-48, -5, 0, 30}, Others <- {-40, -3, 0}, Oneshots <- {-8, 0, 24},
  MaxBases <- {-3, -1, 0, 1, 3}, MaxPnls <- {0, 3, 100}, Slack <- 2

\* A long and a short account, and prices far enough apart for a position of
\* one lot to go bankrupt.
Perp == INSTANCE PerpMoney WITH
  market <- v1, pos <- v2, tok <- v3, liquidated <- v4, fills <- v5, insurance <- v6,
  price <- v7, now <- v8, uncovered <- v9, ops <- v10,
  ONE <- 8, SettleLimitFactor <- 4, SettleWindow <- 2, AssetPrice <- 8, LiabPrice <- 8,
  InitBaseAsset <- 4, InitBaseLiab <- 12, MaintBaseAsset <- 6, MaintBaseLiab <- 10,
  InitOverall <- 2, MaintOverall <- 4, BaseFee <- 1, PlatformFee <- 1, PositivePnlFee <- 1,
  Accounts <- {"a", "b", "c"}, Long <- {"a"}, Short <- {"b"}, Settlers <- {"c"}, OtherHealth <- 0,
  StartTokens <- 12, Prices <- {16, 48}, StartPrice <- 48, Fees <- {[maker |-> -1, taker |-> 4]},
  Rates <- {4}, MaxFundingStep <- 1, DAY <- 2, SettleFeeFlat <- 2,
  SettleFeeThreshold <- 8, SettleFeeLowHealth <- 4, StartInsurance <- 1,
  MaxLiabs <- {100}, MaxBase <- 2, MaxPnl <- 100, ForceClose <- TRUE, Unmatched <- TRUE,
  MaxFills <- 1, MaxTime <- 2, MaxOps <- 2

\* Fixed-point numbers of 1/256; dollars and a second token.
DollarsAnd(u, s) == [usdc |-> u, sol |-> s]

TokenLiq == INSTANCE TokenLiquidation WITH
  banks <- v1, position <- v2, liquidated <- v3, insurance <- v4, price <- v5, perp <- v6,
  force_close <- v7, interval <- v8, last_charge <- v9, now <- v10, ops <- v11,
  Lender <- "lender", Liqee <- "liqee", Liqor <- "liqor", Tokens <- {"usdc", "sol"},
  SettleToken <- "usdc", InsuranceToken <- "usdc", Insured <- {"sol", "usdc"},
  NoAssetLiquidation <- {}, Closing <- {"sol"}, ONE <- 256, WindowSize <- 10,
  Config <-
    [usdc |-> [init_asset |-> 256, maint_asset |-> 256, maint_liab |-> 256, init_liab |-> 256,
               liq_fee |-> 0, platform_fee |-> 0, origination_fee |-> 4, collateral_fee |-> 0],
     sol |-> [init_asset |-> 204, maint_asset |-> 228, maint_liab |-> 284, init_liab |-> 308,
              liq_fee |-> 12, platform_fee |-> 8, origination_fee |-> 4, collateral_fee |-> 80]],
  StablePrice <- DollarsAnd(256, 512),
  Prices <- {DollarsAnd(256, 580), DollarsAnd(256, 620), DollarsAnd(256, 1024)},
  DepositIndex <- 390, BorrowIndex <- 431, BankCount <- DollarsAnd(1, 1),
  Deposits <- [lender |-> DollarsAnd(200, 120), liqee |-> DollarsAnd(120, 0),
               liqor |-> DollarsAnd(300, 90)],
  Loans <- {DollarsAnd(0, 45), DollarsAnd(0, 30)}, InsuranceFund <- 30,
  PerpStates <- {[orders |-> FALSE, base |-> FALSE, hupnl |-> -6000],
                 [orders |-> TRUE, base |-> FALSE, hupnl |-> 0]},
  MaxTransfers <- {5, 200}, Intervals <- {1}, MinLiabs <- 256, DAY <- 8, MaxTime <- 3, MaxOps <- 3

\* Orders of an account to buy sol at up to 2.2 dollars, or to sell it, also
\* below the price at which the auction may start.
Weighted(taker, maker, limit) ==
  [maint_asset |-> 230, init_asset |-> 204, maint_liab |-> 281, init_liab |-> 307,
   origination_fee |-> 4, taker_fee |-> taker, maker_fee |-> maker, deposit_limit |-> limit]

BuySol(borrows) ==
  [type |-> "FixedPremium", buy |-> "sol", sell |-> "usdc", max_buy |-> 11, max_sell |-> 29,
   lower |-> 0, upper |-> 563, premium |-> 26, deposits |-> TRUE, borrows |-> borrows,
   duration |-> 0, expiry |-> 3]

SellSol(max_sell, borrows) ==
  [type |-> "PremiumAuction", buy |-> "usdc", sell |-> "sol", max_buy |-> 2 * max_sell,
   max_sell |-> max_sell, lower |-> 120, upper |-> 130, premium |-> 26, deposits |-> TRUE,
   borrows |-> borrows, duration |-> 1, expiry |-> 4]

Swap == INSTANCE ConditionalSwap WITH
  banks <- v1, position <- v2, swaps <- v3, next_id <- v4, price <- v5, reduce_only <- v6,
  flagged <- v7, now <- v8, call <- v9, ops <- v10,
  Tokens <- {"usdc", "sol"}, Liqee <- "liqee", Liqors <- {"liqor"}, ONE <- 256, WindowSize <- 10,
  StablePrice <- DollarsAnd(256, 512), DepositIndex <- 390, BorrowIndex <- 431,
  LiqorBalance <- DollarsAnd(100 * 256, 40 * 256),
  HEALTH_THRESHOLD <- 3, HEALTH_GRACE <- 5, START_INCENTIVE <- 3, MAX <- 1000000,
  Config <- DollarsAnd(Weighted(8, 0, 0), Weighted(0, 13, 62)),
  Prices <- {DollarsAnd(256, 512), DollarsAnd(256, 600), DollarsAnd(256, 900)},
  Balances <- {DollarsAnd(30 * 256, -7 * 256 - 100), DollarsAnd(0, 20 * 256 + 78)},
  Requests <- {BuySol(TRUE), SellSol(21, FALSE), SellSol(2, TRUE)}, Slots <- 1,
  Limits <- {4, 100}, MinBuys <- {0}, ReduceOnly <- {0, 1}, MaxTime <- 3, MaxOps <- 3, MaxIds <- 1

\* Prices are powers of two, so that their inverses are exact.
BaseQuote(b, q) == [base |-> b, quote |-> q]
Pair(a, l) == [asset |-> a, liab |-> l]

Serum == INSTANCE SerumOrders WITH
  position <- v1, orders <- v2, flagged <- v3, vault <- v4, potential <- v5, collected <- v6,
  market <- v7, oracle <- v8, oo <- v9, book <- v10, events <- v11, next_id <- v12,
  deposits <- v13,
  Accounts <- {"alice"}, ONE <- 16, TAKER_FEE <- 1, REBATE <- 1,
  Funds <- BaseQuote(1, 6), Lender <- BaseQuote(10, 20),
  Weights <- [Init |-> BaseQuote(Pair(8, 24), Pair(14, 18)),
              Maint |-> BaseQuote(Pair(12, 20), Pair(15, 17))],
  Oracles <- {BaseQuote(32, 16), BaseQuote(96, 16)}, Limits <- {2, 4}, Qtys <- {1},
  Amounts <- {3}, Edits <- {"keep", "yes"}, DEPOSIT_LIMIT <- BaseQuote(14, 36), NO_DEPOSITS <- {},
  NO_BORROWS <- {}, MAX_UTILIZATION <- 12, FEE_RATE <- 2, BAND <- 0, GATES <- {2},
  HEALTH_GRACE <- 5, MaxOrders <- 2, MaxEvents <- 2, MaxDeposits <- 1

ASSUME
  /\ Bank!BankAssumption /\ Brackets!BracketsAssumption
  /\ Steps!WeightAssumption /\ Perp!MoneyAssumption
  /\ TokenLiq!LiquidationAssumption /\ Swap!SwapAssumption /\ Serum!SerumAssumption

----------------------------------------------------------------------------
(* The specification *)

Unused11 == v11 = 0 /\ v12 = 0 /\ v13 = 0
Unused8 == v8 = 0 /\ v9 = 0 /\ v10 = 0 /\ Unused11
Unused7 == v7 = 0 /\ Unused8
Unused12 == v12 = 0 /\ v13 = 0

After11 == <<v12, v13>>
After10 == <<v11, After11>>
After7 == <<v8, v9, v10, After10>>
After6 == <<v7, After7>>
areaVars == <<part, v1, v2, v3, v4, v5, v6, After6, vars>>

\* The initial state of StablePrice for a market without a readable oracle.
NoPriceYet == now = 0 /\ model.reset_on_nonzero_price

AreaInit ==
  /\ Init
  /\ \/ part = "price" /\ v1 = 0 /\ v2 = 0 /\ v3 = 0 /\ v4 = 0 /\ v5 = 0 /\ v6 = 0 /\ Unused7
     \/ NoPriceYet /\ part = "bank" /\ Bank!Init /\ Unused7
     \/ NoPriceYet /\ part = "tx" /\ Brackets!Init /\ Unused7
     \/ NoPriceYet /\ part = "steps" /\ Steps!Init /\ Unused8
     \/ NoPriceYet /\ part = "perp" /\ Perp!Init /\ Unused11
     \/ NoPriceYet /\ part = "token liquidation" /\ TokenLiq!Init /\ Unused12
     \/ NoPriceYet /\ part = "swap" /\ Swap!Init /\ Unused11
     \/ NoPriceYet /\ part = "serum" /\ Serum!Init

AreaNext ==
  /\ part' = part
  /\ \/ part = "price" /\ Next /\ UNCHANGED <<v1, v2, v3, v4, v5, v6, After6>>
     \/ part = "bank" /\ Bank!Next /\ UNCHANGED <<After6, vars>>
     \/ part = "tx" /\ Brackets!Next /\ UNCHANGED <<After6, vars>>
     \/ part = "steps" /\ Steps!Next /\ UNCHANGED <<After7, vars>>
     \/ part = "perp" /\ Perp!Next /\ UNCHANGED <<After10, vars>>
     \/ part = "token liquidation" /\ TokenLiq!Next /\ UNCHANGED <<After11, vars>>
     \/ part = "swap" /\ Swap!Next /\ UNCHANGED <<After10, vars>>
     \/ part = "serum" /\ Serum!Next /\ UNCHANGED vars

AreaSpec == AreaInit /\ [][AreaNext]_areaVars

MCQuarter == <<1, 4>>
MCEighth == <<1, 8>>

----------------------------------------------------------------------------
(* Properties: those of the parts, each for the behaviours of its part *)

\* The state of every part has its type.
TypesOK ==
  /\ TypeOK
  /\ part = "bank" => Bank!TypeOK
  /\ part = "tx" => Brackets!TypeOK
  /\ part = "steps" => Steps!TypeOK
  /\ part = "perp" => Perp!TypeOK
  /\ part = "token liquidation" => TokenLiq!TypeOK
  /\ part = "swap" => Swap!TypeOK
  /\ part = "serum" => Serum!TypeOK

\* Vaults and borrows of a token cover all deposits and fees
\* (Bank::deposit, withdraw, checked_transfer_with_fee and the interest).
Solvent == part = "bank" => Bank!Solvent

\* After flash loans the vaults hold what the accounts were charged for
\* (flash_loan_begin, flash_loan_end).
VaultsAccountedFor == part = "tx" => Brackets!VaultsAccountedFor

\* No transaction that lands leaves an account with a worse health than it
\* may have, although health regions skip checks (health_region_begin and end).
HealthNotWorse == [][part = "tx" => Brackets!HealthNotWorse]_areaVars

\* The health a liquidation projects while it decides is the health it leaves
\* (liquidation_action of perp_liq_base_or_positive_pnl).
ProjectionsTrue == part = "steps" => Steps!ProjectionsTrue

\* Trades, funding, settlement, liquidation and bankruptcy of a perp market
\* neither create nor destroy money.
MoneyConserved == part = "perp" => Perp!MoneyConserved

\* Token liquidation, bankruptcy and the collateral fee move value between
\* accounts without creating or destroying it.
Conserved == part = "token liquidation" => TokenLiq!Conserved

\* A liquidation does not take more than the health needs
\* (token_liq_with_token).
NotBeyondHealth == [][part = "token liquidation" => TokenLiq!NotBeyondHealth]_areaVars

\* An account never pays more for a conditional swap than its order allows
\* (token_conditional_swap_trigger, token_conditional_swap_start).
FairPrice == [][part = "swap" => Swap!FairPrice]_areaVars

\* What calls of the spot exchange take from and bring to a vault is booked
\* exactly once (apply_vault_difference, apply_settle_changes).
VaultBacksBalances == part = "serum" => Serum!VaultBacksBalances

\* The health of an account with resting spot orders is its worst case
\* (compute_serum3_reservations and the reserved amounts).
HealthIsWorstCase == part = "serum" => Serum!HealthIsWorstCase
=============================================================================
