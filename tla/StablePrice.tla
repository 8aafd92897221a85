----------------------------- MODULE StablePrice -----------------------------
(***************************************************************************)
(* The stable price of a bank or a perp market: a price that follows the   *)
(* oracle, limited in its growth by time and by its distance from a delay  *)
(* price, which is the average of an interval a whole round of intervals   *)
(* ago.  The program's f64 numbers are natural numbers here (a price is a  *)
(* number of small units); bounds round towards the previous price.  The   *)
(* parameters are fixed; editing them is not modelled.                     *)
(***************************************************************************)
EXTENDS Integers, FiniteSets

CONSTANTS
  Slots,            \* length of delay_prices, 24 in the program
  IntervalSeconds,  \* delay_interval_seconds
  MinDt, MaxDt,     \* least time between updates, most time one counts for
  DelayGrowth,      \* delay_growth_limit, as <<numerator, denominator>>
  StableGrowth,     \* stable_growth_limit per unit of time, likewise
  Prices,           \* what a readable oracle may say, 0 included
  Starts,           \* times at which the market may be created
  MaxTime,          \* bound of the clock
  MaxResets         \* bound of the resets by an admin

ASSUME StablePriceAssumption ==
  /\ Slots \in Nat \ {0, 1} /\ IntervalSeconds \in Nat \ {0}
  /\ MinDt \in Nat \ {0} /\ MaxDt \in Nat /\ MinDt <= MaxDt
  /\ MaxTime \in Nat /\ MaxResets \in Nat
  /\ Prices \subseteq Nat /\ Starts \subseteq 0 .. MaxTime
  /\ DelayGrowth \in Nat \X Nat /\ StableGrowth \in Nat \X Nat
  /\ DelayGrowth[1] < DelayGrowth[2]
  /\ StableGrowth[1] * MaxDt < StableGrowth[2]

VARIABLES
  model,    \* the StablePriceModel of the account
  now,      \* unix_timestamp
  resets,   \* resets by an admin so far
  range     \* lowest and highest oracle price since the last reset (history)

vars == <<model, now, resets, range>>

Index == 0 .. Slots - 1
delay_interval_index(t) == (t \div IntervalSeconds) % Slots

Default ==
  [stable_price |-> 0, last_update_timestamp |-> 0,
   delay_prices |-> [i \in Index |-> 0], delay_accumulator_price |-> 0,
   delay_accumulator_time |-> 0, last_delay_interval_index |-> 0,
   reset_on_nonzero_price |-> FALSE]

reset_to_price(m, p, t) ==
  [m EXCEPT !.stable_price = p, !.delay_prices = [i \in Index |-> p],
            !.delay_accumulator_price = 0, !.delay_accumulator_time = 0,
            !.last_update_timestamp = t, !.reset_on_nonzero_price = p = 0]

\* Fault: the price moves by the whole limit, past its target.
growth_clamped_step(target, prev, num, den) ==
  LET most == (prev * num) \div den
  IN  IF target > prev THEN prev + most ELSE prev - most

\* The target, within prev * (1 - num / den) and prev * (1 + num / den).
growth_clamped(target, prev, num, den) ==
  LET most == (prev * num) \div den
  IN  CASE target > prev + most -> prev + most
        [] target < prev - most -> prev - most
        [] OTHER -> target

\* Where the newest delay price is: in front of the most delayed one.
PrevDelaySlot(m) == (m.last_delay_interval_index + Slots - 1) % Slots

\* The slots a new delay price is stored in, skipped intervals included.
Filled(last, idx, full) ==
  {i \in Index : \/ full
                 \/ idx > last /\ i \in last .. idx - 1
                 \/ idx < last /\ (i >= last \/ i < idx)}

\* The first part of an update that is not too early: the running average, and
\* the delay prices if another interval has begun.
Accumulated(m, p, t, dt) ==
  [m EXCEPT !.last_update_timestamp = t,
            !.delay_accumulator_time = @ + dt,
            !.delay_accumulator_price =
                @ + p * (IF dt < MaxDt THEN dt ELSE MaxDt)]

Rolls(m, t) == delay_interval_index(t) # m.last_delay_interval_index

FilledAt(m, t, dt) ==
  Filled(m.last_delay_interval_index, delay_interval_index(t),
         dt > Slots * IntervalSeconds)

new_delay_price(m) ==
  growth_clamped(m.delay_accumulator_price \div m.delay_accumulator_time,
                 m.delay_prices[PrevDelaySlot(m)],
                 DelayGrowth[1], DelayGrowth[2])

Delayed(m, p, t, dt) ==
  LET a == Accumulated(m, p, t, dt)
  IN  IF ~Rolls(m, t) THEN a
      ELSE [a EXCEPT
              !.delay_prices = [i \in Index |->
                 IF i \in FilledAt(m, t, dt) THEN new_delay_price(a) ELSE @[i]],
              !.delay_accumulator_price = 0, !.delay_accumulator_time = 0,
              !.last_delay_interval_index = delay_interval_index(t)]

\* The growth limit is StableGrowth * fraction^2 * dt, where fraction is the
\* smaller of stable and delay price divided by the larger one.
Stabilised(d, p, dt) ==
  LET delay == d.delay_prices[d.last_delay_interval_index]
      prev == d.stable_price
      lo == IF delay >= prev THEN prev ELSE delay
      hi == IF delay >= prev THEN delay ELSE prev
      dt_limited == IF dt < MaxDt THEN dt ELSE MaxDt
  IN  [d EXCEPT !.stable_price =
         growth_clamped(p, prev, StableGrowth[1] * lo * lo * dt_limited,
                                 StableGrowth[2] * hi * hi)]

\* With both prices zero the fraction is not a number, and clamp panics.
Panics(d) ==
  /\ d.stable_price = 0
  /\ d.delay_prices[d.last_delay_interval_index] = 0

Init ==
  /\ now \in Starts
  /\ \/ \E p \in Prices :
          /\ model = reset_to_price(Default, p, now)
          /\ range = [low |-> p, high |-> p]
     \/ /\ model = [Default EXCEPT !.reset_on_nonzero_price = TRUE]
        /\ range = [low |-> 0, high |-> 0]
  /\ resets = 0

Tick == /\ now < MaxTime
        /\ now' = now + 1
        /\ UNCHANGED <<model, resets, range>>

RecordReset(p) ==
  /\ model' = reset_to_price(model, p, now)
  /\ range' = [low |-> p, high |-> p]

\* token_edit and perp_edit_market with reset_stable_price.
Reset(p) ==
  /\ resets < MaxResets
  /\ resets' = resets + 1
  /\ RecordReset(p)
  /\ UNCHANGED now

\* update: the first non-zero price resets the model, and then no time has
\* passed since the last update.
UpdateResets(p) ==
  /\ model.reset_on_nonzero_price /\ p > 0
  /\ RecordReset(p)
  /\ UNCHANGED <<now, resets>>

\* update with any other price.  An update that comes too early does nothing,
\* and so does one that panics, since its instruction fails.
Update(p) ==
  LET dt == now - model.last_update_timestamp
      d == Delayed(model, p, now, dt)
  IN  /\ ~(model.reset_on_nonzero_price /\ p > 0)
      /\ dt >= MinDt
      /\ ~Panics(d)
      /\ model' = Stabilised(d, p, dt)
      /\ range' = [low  |-> IF p < range.low THEN p ELSE range.low,
                   high |-> IF p > range.high THEN p ELSE range.high]
      /\ UNCHANGED <<now, resets>>

Next == \/ Tick
        \/ \E p \in Prices : Reset(p) \/ UpdateResets(p) \/ Update(p)

Spec == Init /\ [][Next]_vars

-----------------------------------------------------------------------------
\* The fields of StablePriceModel and the history have their types.
TypeOK ==
  /\ model \in [stable_price : Nat, last_update_timestamp : 0 .. MaxTime,
                delay_prices : [Index -> Nat], delay_accumulator_price : Nat,
                delay_accumulator_time : Nat, last_delay_interval_index : Index,
                reset_on_nonzero_price : BOOLEAN]
  /\ now \in 0 .. MaxTime /\ resets \in 0 .. MaxResets
  /\ range \in [low : Nat, high : Nat]

\* update never overshoots: whatever the order and distance of updates, the
\* stable price stays between the lowest and the highest oracle price it was
\* given since the last reset.
StableInRange == model.stable_price \in range.low .. range.high

\* After the first non-zero price no update divides zero by zero, also when the
\* oracle says zero later on or an admin resets to zero.
NeverStuck ==
  ~model.reset_on_nonzero_price =>
    model.stable_price > 0 /\ \A i \in Index : model.delay_prices[i] > 0

=============================================================================
