------------------------------- MODULE BankMath -------------------------------
(***************************************************************************)
(* What a deposit and a withdraw do to a bank and to the units of a token  *)
(* position, with the rounding of every step.  A bank here is a record     *)
(* with at least the fields that the two change.                           *)
(***************************************************************************)
EXTENDS FixedPoint

CONSTANT
  WindowSize   \* seconds of a net borrow window

native(units, bank) ==
  FixMul(units, IF units > 0 THEN bank.deposit_index ELSE bank.borrow_index)

native_deposits(bank) == FixMul(bank.deposit_index, bank.indexed_deposits)
native_borrows(bank) == FixMul(bank.borrow_index, bank.indexed_borrows)

update_net_borrows(bank, amount, now_ts) ==
  LET in_new_window == now_ts >= bank.window_start + WindowSize
  IN  [bank EXCEPT !.net_borrows = FixCeil(amount) + (IF in_new_window THEN 0 ELSE @),
                   !.window_start = IF in_new_window
                                    THEN (now_ts \div WindowSize) * WindowSize ELSE @]

-----------------------------------------------------------------------------
(* Deposit and withdraw.  The result is the new bank, the new units of the *)
(* position and whether the position stays active.                         *)

Result(bank, units, active) == [bank |-> bank, units |-> units, active |-> active]

div_rounding_up(amount, index) ==
  LET indexed == FixDiv(amount, index)
  IN  IF FixMul(indexed, index) < amount THEN indexed + DELTA ELSE indexed

AddToDeposits(bank, units, amount) ==
  LET change == div_rounding_up(amount, bank.deposit_index)
  IN  Result([bank EXCEPT !.indexed_deposits = @ + change], units + change, TRUE)

deposit_internal(bank, units, amount, allow_dusting, now_ts) ==
  LET native_position == native(units, bank)
      \* only the borrows that are repaid count
      b == update_net_borrows(bank, Larger(native_position, -amount), now_ts)
      new_native == native_position + amount
      change == div_rounding_up(amount, bank.borrow_index)
  IN  IF native_position >= 0 THEN AddToDeposits(bank, units, amount)
      ELSE IF units + change < 0
      THEN Result([b EXCEPT !.indexed_borrows = @ - change], units + change, TRUE)
      ELSE IF new_native < ONE /\ allow_dusting
      THEN Result([b EXCEPT !.dust = @ + new_native, !.indexed_borrows = @ + units],
                  0, FALSE)
      ELSE AddToDeposits([b EXCEPT !.indexed_borrows = @ + units], 0,
                         Larger(new_native, 0))

\* The part of withdraw_internal that borrows.
Borrow(bank, units, amount, fee_rate, now_ts) ==
  LET loan_origination_fee == FixMul(fee_rate, amount)
      loan == amount + loan_origination_fee
      change == FixDiv(loan, bank.borrow_index)
      b == [bank EXCEPT !.collected_fees = @ + loan_origination_fee,
                        !.indexed_borrows = @ + change]
  IN  Result(update_net_borrows(b, loan, now_ts), units - change, TRUE)

withdraw_internal(bank, units, amount, fee_rate, allow_dusting, now_ts) ==
  LET native_position == native(units, bank)
      new_native == native_position - amount
      change == FixDiv(amount, bank.deposit_index)
  IN  IF native_position < 0 THEN Borrow(bank, units, amount, fee_rate, now_ts)
      ELSE IF new_native < 0
      THEN Borrow([bank EXCEPT !.indexed_deposits = @ - units], 0, -new_native, fee_rate, now_ts)
      ELSE IF new_native < ONE /\ allow_dusting
      THEN Result([bank EXCEPT !.dust = @ + new_native, !.indexed_deposits = @ - units],
                  0, FALSE)
      ELSE Result([bank EXCEPT !.indexed_deposits = @ - change], units - change, TRUE)
=============================================================================
