------------------------------ MODULE TokenBank ------------------------------
(***************************************************************************)
(* One token of a group: its banks, the vaults behind them and the token   *)
(* positions of the accounts.  A position is a number of index units; a    *)
(* positive one is worth deposit_index each, a negative one borrow_index.  *)
(* The module has the real rounding of every step, because what can go     *)
(* wrong here is that the units in the positions, the totals on the banks  *)
(* and the tokens in the vaults drift apart.                               *)
(*                                                                         *)
(* Health is left out: an action may be taken whatever the account's other *)
(* tokens are, which is more than the program allows.                      *)
(***************************************************************************)
EXTENDS BankMath, Sequences, FiniteSets, SequencesExt

CONSTANTS
  Accounts,
  InUse,             \* accounts whose position a market keeps alive (in_use_count > 0)
  Amounts,           \* token amounts of deposits and withdraws
  Fractions,         \* amounts (bits) of transfers inside liquidations and swaps
  INDEX_START,       \* index of a new bank
  MAX_BANKS,
  Price,             \* the larger of oracle and stable price (bits)
  Curve,             \* the interest curve, see compute_interest_rate
  LoanFeeRate, LoanOriginationFeeRate,
  AdjustmentFactor, TargetUtilization,
  MinVaultRatio,     \* min_vault_to_deposits_ratio (bits)
  NetBorrowLimit, DepositLimit,
  YEAR, HOUR, MaxInterestStep,
  Modes,             \* the pairs (reduce_only, force_withdraw) the admin sets
  MaxTime, MaxOps    \* bounds: the clock, and the balance changing instructions

BankAssumption ==
  /\ OneAssumption
  /\ InUse \subseteq Accounts
  /\ Modes \subseteq (0..2) \X BOOLEAN
  /\ Amounts \subseteq Nat \ {0} /\ Fractions \subseteq Nat
  /\ {INDEX_START, MAX_BANKS, WindowSize, YEAR, HOUR} \subseteq Nat \ {0}

VARIABLES
  banks,         \* the banks of the token in the order of mint_info.banks
  position,      \* account -> its token position
  reduce_only,   \* 0 off, 1 deposits and borrows, 2 borrows only
  force_withdraw,
  now,
  ops            \* number of instructions that rounded something (history)

vars == <<banks, position, reduce_only, force_withdraw, now, ops>>

-----------------------------------------------------------------------------
(* Positions and bank totals *)

Bank ==
  [deposit_index : Nat, borrow_index : Nat, indexed_deposits : Int, indexed_borrows : Int,
   dust : Int, collected_fees : Nat, fees_withdrawn : Nat, net_borrows : Int,
   window_start : Nat, vault : Nat, index_last_updated : Nat, rate_last_updated : Nat,
   avg_utilization : Nat, scaling : {n \in Nat : n >= ONE}]

TokenPosition == [active : BOOLEAN, units : Int]

is_in_use(a) == a \in InUse

are_deposits_reduce_only == reduce_only = 1
are_borrows_reduce_only == reduce_only \in {1, 2}

enforce_max_utilization(bank, max) ==
  native_borrows(bank) <= FixMul(max, native_deposits(bank))

check_net_borrows(bank) ==
  \/ bank.net_borrows < 0
  \/ NetBorrowLimit < 0
  \/ FixInt(NetBorrowLimit) - Price * bank.net_borrows >= 0

remaining_deposits_until_limit(bank) ==
  FixInt(DepositLimit) - FixMul(bank.deposit_index, bank.indexed_deposits + DELTA)

check_deposit_and_oo_limit(bank) ==
  DepositLimit = 0 \/ FixInt(DepositLimit) >= native_deposits(bank)

deposit(bank, a, amount) ==
  deposit_internal(bank, position[a].units, amount, ~is_in_use(a), now)

withdraw_with_fee(bank, a, amount) ==
  withdraw_internal(bank, position[a].units, amount, LoanOriginationFeeRate, ~is_in_use(a), now)

withdraw_without_fee(bank, a, amount) ==
  withdraw_internal(bank, position[a].units, amount, 0, ~is_in_use(a), now)

-----------------------------------------------------------------------------
(* Instructions *)

\* ensure_token_position: a new position starts empty.
EnsurePosition(a) ==
  IF position[a].active THEN position[a] ELSE [active |-> TRUE, units |-> 0]

Units(a) == EnsurePosition(a).units

\* The account after a bank operation; deactivation leaves the units behind.
Booked(a, r, closes) ==
  [position EXCEPT ![a] = [active |-> r.active \/ ~closes, units |-> r.units]]

Init ==
  /\ banks = << [deposit_index |-> INDEX_START, borrow_index |-> INDEX_START,
                 indexed_deposits |-> 0, indexed_borrows |-> 0, dust |-> 0,
                 collected_fees |-> 0, fees_withdrawn |-> 0, net_borrows |-> 0,
                 window_start |-> 0, vault |-> 0, index_last_updated |-> 0,
                 rate_last_updated |-> 0, avg_utilization |-> 0, scaling |-> ONE] >>
  /\ position = [a \in Accounts |-> [active |-> FALSE, units |-> 0]]
  /\ reduce_only = 0
  /\ force_withdraw = FALSE
  /\ now = 0
  /\ ops = 0

\* With reduce_only, by the caller's wish or the bank's mode, no more than the
\* borrow is paid back; the bank's mode rejects more unless the caller agreed.
DepositAmount(bank, units, amount, by_request) ==
  IF by_request \/ are_deposits_reduce_only
  THEN Smaller(FixInt(FixCeil(Abs(Smaller(native(units, bank), 0)))), FixInt(amount))
  ELSE FixInt(amount)

\* token_deposit opens a missing position only while the oracle is good;
\* token_deposit_into_existing does not open one.
MayDeposit(a, into_existing, oracle_ok) ==
  position[a].active \/ (~into_existing /\ oracle_ok)

\* token_deposit and token_deposit_into_existing.
TokenDeposit(a, k, amount, by_request, into_existing, oracle_ok) ==
  LET bank == banks[k]
      paid == DepositAmount(bank, Units(a), amount, by_request)
      r == deposit_internal(bank, Units(a), paid, ~is_in_use(a), now)
  IN  /\ ops < MaxOps
      /\ MayDeposit(a, into_existing, oracle_ok)
      /\ are_deposits_reduce_only => by_request \/ paid = FixInt(amount)
      /\ r.units > 0 => check_deposit_and_oo_limit(r.bank)
      /\ banks' = [banks EXCEPT ![k] = [r.bank EXCEPT !.vault = @ + FixFloor(paid)]]
      /\ position' = Booked(a, r, ~into_existing)
      /\ ops' = ops + 1
      /\ UNCHANGED <<reduce_only, force_withdraw, now>>

All == 0   \* u64::MAX without allow_borrow: everything that was deposited

\* token_withdraw.  A delegate may only close the position.
TokenWithdraw(a, k, request, allow_borrow, by_delegate, oracle_ok) ==
  LET bank == banks[k]
      native_position == native(Units(a), bank)
      amount == IF request = All THEN FixFloor(native_position) ELSE request
      is_borrow == FixInt(amount) > native_position
      r == withdraw_internal(bank, Units(a), FixInt(amount), LoanOriginationFeeRate,
                             ~is_in_use(a), now)
  IN  /\ ops < MaxOps
      /\ request = All => ~allow_borrow /\ native_position >= 0
      /\ is_borrow => allow_borrow /\ ~are_borrows_reduce_only
      /\ bank.vault >= amount
      /\ by_delegate => ~r.active
      /\ IF is_borrow
         THEN /\ enforce_max_utilization(r.bank, ONE - MinVaultRatio)
              /\ oracle_ok
              /\ check_net_borrows(r.bank)
         ELSE enforce_max_utilization(r.bank, ONE)
      /\ banks' = [banks EXCEPT ![k] = [r.bank EXCEPT !.vault = @ - amount]]
      /\ position' = Booked(a, r, TRUE)
      /\ ops' = ops + 1
      /\ UNCHANGED <<reduce_only, force_withdraw, now>>

\* token_force_withdraw.
TokenForceWithdraw(a, k) ==
  LET bank == banks[k]
      amount == FixFloor(native(position[a].units, bank))
      r == withdraw_without_fee(bank, a, FixInt(amount))
  IN  /\ ops < MaxOps
      /\ force_withdraw
      /\ position[a].active
      /\ native(position[a].units, bank) >= 0
      /\ bank.vault >= amount
      /\ enforce_max_utilization(r.bank, ONE)
      /\ banks' = [banks EXCEPT ![k] = [r.bank EXCEPT !.vault = @ - amount]]
      /\ position' = Booked(a, r, TRUE)
      /\ ops' = ops + 1
      /\ UNCHANGED <<reduce_only, force_withdraw, now>>

\* checked_transfer_with_fee, as a conditional swap uses it: the source pays
\* source_amount, the target gets target_amount and the bank keeps the
\* difference as a fee.
CheckedTransferWithFee(s, t, k, source_amount, target_amount) ==
  LET bank == banks[k]
      w == IF source_amount = 0 THEN Result(bank, position[s].units, TRUE)
           ELSE withdraw_with_fee(bank, s, source_amount)
      d == IF target_amount = 0 THEN Result(w.bank, position[t].units, TRUE)
           ELSE deposit(w.bank, t, target_amount)
  IN  /\ ops < MaxOps
      /\ s # t /\ position[s].active /\ position[t].active
      /\ source_amount >= target_amount
      /\ source_amount # 0 => w.units >= 0 \/ ~are_borrows_reduce_only
      /\ target_amount # 0 => d.units <= 0 \/ ~are_deposits_reduce_only
      /\ d.bank.indexed_borrows > bank.indexed_borrows + DELTA => check_net_borrows(d.bank)
      /\ d.bank.indexed_deposits > bank.indexed_deposits + DELTA
           => check_deposit_and_oo_limit(d.bank)
      /\ banks' = [banks EXCEPT ![k] = [d.bank EXCEPT
                     !.collected_fees = @ + source_amount - target_amount]]
      /\ position' = [position EXCEPT ![s] = [active |-> w.active, units |-> w.units],
                                      ![t] = [active |-> d.active, units |-> d.units]]
      /\ ops' = ops + 1
      /\ UNCHANGED <<reduce_only, force_withdraw, now>>

\* withdraw_loan_origination_fee, charged when borrows that went into an open
\* orders account turn out to be used.
WithdrawLoanOriginationFee(a, k, borrowed) ==
  LET fee == FixMul(LoanOriginationFeeRate, borrowed)
      r == withdraw_without_fee([banks[k] EXCEPT !.collected_fees = @ + fee], a, fee)
  IN  /\ ops < MaxOps
      /\ position[a].active /\ is_in_use(a)
      /\ banks' = [banks EXCEPT ![k] = r.bank]
      /\ position' = Booked(a, r, TRUE)
      /\ ops' = ops + 1
      /\ UNCHANGED <<reduce_only, force_withdraw, now>>

\* admin_token_withdraw_fees.
AdminTokenWithdrawFees(k) ==
  LET bank == banks[k]
      amount == Smaller(FixFloor(bank.collected_fees) - bank.fees_withdrawn, bank.vault)
  IN  /\ amount > 0
      /\ banks' = [banks EXCEPT ![k].vault = @ - amount, ![k].fees_withdrawn = @ + amount]
      /\ UNCHANGED <<position, reduce_only, force_withdraw, now, ops>>

-----------------------------------------------------------------------------
(* Interest *)

Total(field) == FoldSeq(LAMBDA b, n : n + b[field], 0, banks)

instantaneous_utilization(deposits, borrows) ==
  IF deposits = 0 THEN 0 ELSE Clamped(FixDiv(borrows, deposits), 0, ONE)

\* Curve has the points (0, zero_util_rate), (util0, rate0), (util1, rate1),
\* (1, max_rate).
compute_interest_rate(utilization, scaling) ==
  LET Line(u, x0, y0, x1, y1) == y0 + FixMul(FixDiv(y1 - y0, x1 - x0), u - x0)
      unscaled ==
        IF utilization <= Curve.util0
        THEN Line(utilization, 0, Curve.zero_util_rate, Curve.util0, Curve.rate0)
        ELSE IF utilization <= Curve.util1
        THEN Line(utilization, Curve.util0, Curve.rate0, Curve.util1, Curve.rate1)
        ELSE Line(utilization, Curve.util1, Curve.rate1, ONE, Curve.max_rate)
  IN  FixMul(unscaled, scaling)

\* Fault: depositors are paid the rate of the borrowers.
ComputeIndexAtBorrowRate(bank, indexed_deposits, indexed_borrows, diff_ts) ==
  LET deposits == FixMul(bank.deposit_index, indexed_deposits)
      borrows == FixMul(bank.borrow_index, indexed_borrows)
      borrow_rate == compute_interest_rate(instantaneous_utilization(deposits, borrows),
                                           bank.scaling)
  IN  [deposit_index |-> bank.deposit_index
           + Trunc(FixMul(bank.deposit_index, borrow_rate) * diff_ts, YEAR),
       borrow_index |-> bank.borrow_index
           + Trunc(FixMul(bank.borrow_index, borrow_rate + LoanFeeRate) * diff_ts, YEAR),
       borrow_fees |-> Trunc(FixMul(borrows, LoanFeeRate) * diff_ts, YEAR)]

compute_index(bank, indexed_deposits, indexed_borrows, diff_ts) ==
  LET deposits == FixMul(bank.deposit_index, indexed_deposits)
      borrows == FixMul(bank.borrow_index, indexed_borrows)
      utilization == instantaneous_utilization(deposits, borrows)
      borrow_rate == compute_interest_rate(utilization, bank.scaling)
      deposit_rate == FixMul(borrow_rate, utilization)
  IN  [deposit_index |-> bank.deposit_index
           + Trunc(FixMul(bank.deposit_index, deposit_rate) * diff_ts, YEAR),
       borrow_index |-> bank.borrow_index
           + Trunc(FixMul(bank.borrow_index, borrow_rate + LoanFeeRate) * diff_ts, YEAR),
       borrow_fees |-> Trunc(FixMul(borrows, LoanFeeRate) * diff_ts, YEAR)]

compute_new_avg_utilization(bank, indexed_deposits, indexed_borrows) ==
  LET utilization == instantaneous_utilization(
                       FixMul(bank.deposit_index, indexed_deposits),
                       FixMul(bank.borrow_index, indexed_borrows))
      previous_avg_time == bank.index_last_updated - bank.rate_last_updated
      diff_ts == now - bank.index_last_updated
      new_avg_time == now - bank.rate_last_updated
  IN  IF now = 0 THEN 0
      ELSE IF new_avg_time <= 0 THEN utilization
      ELSE (bank.avg_utilization * previous_avg_time + utilization * diff_ts)
             \div new_avg_time

\* The new interest_curve_scaling.
update_interest_rate_scaling(scaling, avg_utilization) ==
  LET avg == Clamped(avg_utilization, 0, ONE)
      util_factor == FixDiv(avg - TargetUtilization,
                            IF avg > TargetUtilization THEN ONE - TargetUtilization
                                                       ELSE TargetUtilization)
      adjustment == ONE + FixMul(AdjustmentFactor, util_factor)
  IN  Larger(FixMul(scaling, adjustment), ONE)

\* token_update_index_and_rate: computed on the first bank from the totals of
\* all banks, written to all banks.  The fees go to the first bank.
TokenUpdateIndexAndRate ==
  LET some_bank == banks[1]
      indexed_deposits == Total("indexed_deposits")
      indexed_borrows == Total("indexed_borrows")
      new == compute_index(some_bank, indexed_deposits, indexed_borrows,
                           Smaller(now - some_bank.index_last_updated, MaxInterestStep))
      avg == compute_new_avg_utilization(some_bank, indexed_deposits, indexed_borrows)
      rate_due == now - some_bank.rate_last_updated > HOUR
      scaling == IF rate_due THEN update_interest_rate_scaling(some_bank.scaling, avg)
                 ELSE some_bank.scaling
  IN  /\ ops < MaxOps
      /\ banks' = [k \in DOMAIN banks |->
           [banks[k] EXCEPT
              !.deposit_index = new.deposit_index, !.borrow_index = new.borrow_index,
              !.collected_fees = @ + (IF k = 1 THEN new.borrow_fees ELSE 0),
              !.index_last_updated = now, !.avg_utilization = avg,
              !.rate_last_updated = IF rate_due THEN now ELSE @,
              !.scaling = IF rate_due THEN scaling ELSE @]]
      /\ ops' = ops + 1
      /\ UNCHANGED <<position, reduce_only, force_withdraw, now>>

\* token_add_bank, Bank::from_existing_bank.
TokenAddBank ==
  /\ Len(banks) < MAX_BANKS
  /\ banks' = Append(banks,
       [banks[1] EXCEPT !.indexed_deposits = 0, !.indexed_borrows = 0, !.dust = 0,
                        !.collected_fees = 0, !.fees_withdrawn = 0,
                        !.net_borrows = 0, !.vault = 0])
  /\ UNCHANGED <<position, reduce_only, force_withdraw, now, ops>>

\* token_edit of the modes that matter here.  verify() ties force_withdraw to
\* reduce_only = 1.
TokenEditModes(mode, force) ==
  /\ force => mode = 1
  /\ <<mode, force>> # <<reduce_only, force_withdraw>>
  /\ reduce_only' = mode
  /\ force_withdraw' = force
  /\ UNCHANGED <<banks, position, now, ops>>

Tick ==
  /\ now < MaxTime
  /\ now' = now + 1
  /\ UNCHANGED <<banks, position, reduce_only, force_withdraw, ops>>

Next ==
  \/ \E a \in Accounts, k \in DOMAIN banks :
       \/ \E n \in Amounts, r, e, o \in BOOLEAN : TokenDeposit(a, k, n, r, e, o)
       \/ \E n \in Amounts \cup {All}, b, d, o \in BOOLEAN : TokenWithdraw(a, k, n, b, d, o)
       \/ TokenForceWithdraw(a, k)
       \/ \E t \in Accounts, s, d \in Fractions : CheckedTransferWithFee(a, t, k, s, d)
       \/ \E f \in Fractions : WithdrawLoanOriginationFee(a, k, f)
  \/ \E k \in DOMAIN banks : AdminTokenWithdrawFees(k)
  \/ TokenUpdateIndexAndRate
  \/ TokenAddBank
  \/ \E m \in Modes : TokenEditModes(m[1], m[2])
  \/ Tick

Spec == Init /\ [][Next]_vars

-----------------------------------------------------------------------------
(* Properties *)

\* The token's state is well formed: no vault is overdrawn and the interest
\* curve is never scaled below one.
TypeOK ==
  /\ Len(banks) \in 1..MAX_BANKS
  /\ \A k \in DOMAIN banks : banks[k] \in Bank
  /\ position \in [Accounts -> TokenPosition]
  /\ reduce_only \in 0..2 /\ force_withdraw \in BOOLEAN

SumOver(S, f(_)) == FoldSet(LAMBDA a, n : n + f(a), 0, S)

\* What one rounding instruction may cost: one unit of deposit index, and at
\* an index update two bits of borrow index on every borrowed unit.
Slack ==
  banks[1].deposit_index \div ONE + 4 + 2 * (Total("indexed_borrows") \div ONE)

\* The tokens in the vaults and the borrows cover the deposits, the dust and
\* the fees not yet taken out, up to the rounding of the instructions so far:
\* no sequence of deposits, withdraws, transfers, interest and fees creates
\* claims out of nothing.
Solvent ==
  FixInt(Total("vault")) + FixMul(banks[1].borrow_index, Total("indexed_borrows"))
    >= FixMul(banks[1].deposit_index, Total("indexed_deposits"))
         + Total("dust") + Total("collected_fees") - FixInt(Total("fees_withdrawn"))
         - ops * Slack

=============================================================================
