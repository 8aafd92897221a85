-------------------------- MODULE StablePriceProofs --------------------------
(***************************************************************************)
(* The stable price stays in the range of the oracle prices it was given,  *)
(* and no update divides zero by zero once there was a price, for every    *)
(* length of the ring, interval, limit and set of prices.                  *)
(***************************************************************************)
EXTENDS StablePrice, TLAPS

\* The quotients of growth_clamped: whole, and at most the dividend.
LEMMA Quotient ==
  ASSUME NEW a \in Nat, NEW d \in Nat, d > 0
  PROVE  /\ a \div d \in Nat
         /\ (a \div d) * d <= a
  BY Z3

\* A product of natural numbers is monotone in both factors.
LEMMA ProductGrows ==
  ASSUME NEW a \in Nat, NEW b \in Nat, NEW c \in Nat, NEW e \in Nat,
         a <= b, c <= e
  PROVE  a * c \in Nat /\ b * e \in Nat /\ a * c <= b * e
  BY Z3

\* growth_clamped's largest change is less than the previous price, if the
\* limit is below one and the price is not zero.
LEMMA Share ==
  ASSUME NEW prev \in Nat, NEW num \in Nat, NEW den \in Nat, num < den
  PROVE  /\ (prev * num) \div den \in Nat
         /\ (prev * num) \div den <= prev
         /\ prev > 0 => (prev * num) \div den < prev
  <1> DEFINE q == (prev * num) \div den
  <1>1. prev * num \in Nat
    BY Z3
  <1>2. q \in Nat /\ q * den <= prev * num
    BY <1>1, Quotient
  <1>3. q <= prev
    <2> SUFFICES ASSUME prev < q PROVE FALSE
      BY <1>2
    <2>1. prev * den + den <= q * den
      BY <1>2, Z3
    <2>2. prev * num <= prev * den
      BY Z3
    <2> HIDE DEF q
    <2> QED BY <1>2, <2>1, <2>2, Z3
  <1>4. ASSUME prev > 0 PROVE q < prev
    <2> SUFFICES ASSUME q = prev PROVE FALSE
      BY <1>2, <1>3
    <2>1. prev * num < prev * den
      BY <1>4, Z3
    <2> HIDE DEF q
    <2> QED BY <1>2, <2>1, Z3
  <1> QED BY <1>2, <1>3, <1>4

\* growth_clamped stays between the previous price and its target, and a
\* positive price stays positive.
LEMMA Clamps ==
  ASSUME NEW target \in Nat, NEW prev \in Nat,
         NEW num \in Nat, NEW den \in Nat, num < den
  PROVE  /\ growth_clamped(target, prev, num, den) \in Nat
         /\ \/ growth_clamped(target, prev, num, den) <= prev
            \/ growth_clamped(target, prev, num, den) <= target
         /\ \/ growth_clamped(target, prev, num, den) >= prev
            \/ growth_clamped(target, prev, num, den) >= target
         /\ prev > 0 => growth_clamped(target, prev, num, den) > 0
  <1> DEFINE most == (prev * num) \div den
  <1>1. most \in Nat /\ most <= prev /\ (prev > 0 => most < prev)
    BY Share
  <1>2. growth_clamped(target, prev, num, den) =
          CASE target > prev + most -> prev + most
            [] target < prev - most -> prev - most
            [] OTHER -> target
    BY DEF growth_clamped
  <1> HIDE DEF most
  <1> QED BY <1>1, <1>2

-----------------------------------------------------------------------------
(* One update *)

\* The slot of a time is a slot of the ring.
LEMMA SlotInRing ==
  ASSUME NEW t \in Nat
  PROVE  delay_interval_index(t) \in Index
  <1>1. t \div IntervalSeconds \in Nat
    BY StablePriceAssumption, Quotient
  <1>2. \A n \in Nat : n % Slots \in 0 .. Slots - 1
    BY StablePriceAssumption
  <1> QED BY <1>1, <1>2 DEF delay_interval_index, Index

\* The slot of the newest delay price is a slot of the ring.
LEMMA PrevSlotInRing ==
  ASSUME NEW m, m.last_delay_interval_index \in Index
  PROVE  PrevDelaySlot(m) \in Index
  <1>1. m.last_delay_interval_index + Slots - 1 \in Nat
    BY StablePriceAssumption DEF Index
  <1>2. \A n \in Nat : n % Slots \in 0 .. Slots - 1
    BY StablePriceAssumption
  <1> QED BY <1>1, <1>2 DEF PrevDelaySlot, Index

\* The fields of a StablePriceModel.
Models ==
  [stable_price : Nat, last_update_timestamp : 0 .. MaxTime,
   delay_prices : [Index -> Nat], delay_accumulator_price : Nat,
   delay_accumulator_time : Nat, last_delay_interval_index : Index,
   reset_on_nonzero_price : BOOLEAN]

\* Neither the stable price nor a delay price is zero.
Positive(m) == m.stable_price > 0 /\ \A i \in Index : m.delay_prices[i] > 0

\* A model after reset_to_price.
LEMMA ResetKeeps ==
  ASSUME NEW m \in Models, NEW p \in Nat, NEW t \in 0 .. MaxTime
  PROVE  LET r == reset_to_price(m, p, t)
         IN  /\ r \in Models
             /\ r.stable_price = p
             /\ ~r.reset_on_nonzero_price => Positive(r)
  <1> DEFINE zero == p = 0
             ring == [i \in Index |-> p]
             r == [m EXCEPT !.stable_price = p, !.delay_prices = ring,
                            !.delay_accumulator_price = 0, !.delay_accumulator_time = 0,
                            !.last_update_timestamp = t, !.reset_on_nonzero_price = zero]
  <1>1. reset_to_price(m, p, t) = r
    BY DEF reset_to_price
  <1>2. /\ ring \in [Index -> Nat] /\ zero \in BOOLEAN
        /\ ~zero => p > 0 /\ \A i \in Index : ring[i] > 0
    OBVIOUS
  <1> HIDE DEF zero, ring
  <1>3. /\ r \in Models /\ r.stable_price = p /\ r.delay_prices = ring
        /\ r.reset_on_nonzero_price = zero
    BY <1>2 DEF Models
  <1> HIDE DEF r
  <1> QED BY <1>1, <1>2, <1>3 DEF Positive

\* The running average: its time is not zero, so that it can be divided by.
LEMMA AccumulatedKeeps ==
  ASSUME NEW m \in Models, NEW p \in Nat, NEW t \in 0 .. MaxTime, NEW dt \in Nat, dt > 0
  PROVE  LET a == Accumulated(m, p, t, dt)
         IN  /\ a \in Models
             /\ a.delay_accumulator_time > 0
             /\ a.stable_price = m.stable_price
             /\ a.delay_prices = m.delay_prices
             /\ a.last_delay_interval_index = m.last_delay_interval_index
             /\ a.reset_on_nonzero_price = m.reset_on_nonzero_price
  <1>1. p * (IF dt < MaxDt THEN dt ELSE MaxDt) \in Nat
    BY StablePriceAssumption, Z3
  <1> DEFINE price == m.delay_accumulator_price + p * (IF dt < MaxDt THEN dt ELSE MaxDt)
             time == m.delay_accumulator_time + dt
  <1>2. price \in Nat
    BY <1>1 DEF Models
  <1>3. time \in Nat /\ time > 0
    BY DEF Models
  <1>4. Accumulated(m, p, t, dt) =
          [m EXCEPT !.last_update_timestamp = t, !.delay_accumulator_time = time,
                    !.delay_accumulator_price = price]
    BY DEF Accumulated, Models
  <1> HIDE DEF price, time
  <1> QED BY <1>2, <1>3, <1>4 DEF Models

\* A new delay price is a price, and not zero if no delay price was.
LEMMA NewDelayPrice ==
  ASSUME NEW a \in Models, a.delay_accumulator_time > 0
  PROVE  /\ new_delay_price(a) \in Nat
         /\ (\A i \in Index : a.delay_prices[i] > 0) => new_delay_price(a) > 0
  <1> DEFINE average == a.delay_accumulator_price \div a.delay_accumulator_time
             prev == a.delay_prices[PrevDelaySlot(a)]
             num == DelayGrowth[1]
             den == DelayGrowth[2]
  <1>1. average \in Nat
    BY Quotient DEF Models
  <1>2. PrevDelaySlot(a) \in Index
    BY PrevSlotInRing DEF Models
  <1>3. prev \in Nat /\ ((\A i \in Index : a.delay_prices[i] > 0) => prev > 0)
    BY <1>2 DEF Models
  <1>4. num \in Nat /\ den \in Nat /\ num < den
    BY StablePriceAssumption
  <1>5. new_delay_price(a) = growth_clamped(average, prev, num, den)
    BY DEF new_delay_price
  <1> HIDE DEF average, prev, num, den
  <1>6. prev \in Nat
    BY <1>3
  <1>7. /\ growth_clamped(average, prev, num, den) \in Nat
        /\ prev > 0 => growth_clamped(average, prev, num, den) > 0
    BY <1>1, <1>4, <1>6, Clamps, Zenon
  <1> QED BY <1>3, <1>5, <1>7

\* The delay prices after an update.
LEMMA DelayedKeeps ==
  ASSUME NEW m \in Models, NEW p \in Nat, NEW t \in 0 .. MaxTime, NEW dt \in Nat, dt > 0
  PROVE  LET d == Delayed(m, p, t, dt)
         IN  /\ d \in Models
             /\ d.stable_price = m.stable_price
             /\ d.reset_on_nonzero_price = m.reset_on_nonzero_price
             /\ (\A i \in Index : m.delay_prices[i] > 0)
                  => \A i \in Index : d.delay_prices[i] > 0
  <1> DEFINE a == Accumulated(m, p, t, dt)
             ring == [i \in Index |->
                        IF i \in FilledAt(m, t, dt) THEN new_delay_price(a)
                        ELSE a.delay_prices[i]]
             d == [a EXCEPT !.delay_prices = ring,
                            !.delay_accumulator_price = 0, !.delay_accumulator_time = 0,
                            !.last_delay_interval_index = delay_interval_index(t)]
  <1>1. /\ a \in Models /\ a.delay_accumulator_time > 0
        /\ a.stable_price = m.stable_price
        /\ a.delay_prices = m.delay_prices
        /\ a.reset_on_nonzero_price = m.reset_on_nonzero_price
    BY AccumulatedKeeps
  <1>2. /\ new_delay_price(a) \in Nat
        /\ (\A i \in Index : a.delay_prices[i] > 0) => new_delay_price(a) > 0
    BY <1>1, NewDelayPrice
  <1>3. delay_interval_index(t) \in Index
    BY StablePriceAssumption, SlotInRing
  <1>4. Delayed(m, p, t, dt) = IF ~Rolls(m, t) THEN a ELSE d
    BY DEF Delayed
  <1> HIDE DEF a
  <1>5. /\ ring \in [Index -> Nat]
        /\ (\A i \in Index : a.delay_prices[i] > 0) => \A i \in Index : ring[i] > 0
    BY <1>1, <1>2 DEF Models
  <1> HIDE DEF ring
  <1>6. /\ d \in Models
        /\ d.delay_prices = ring
        /\ d.stable_price = a.stable_price
        /\ d.reset_on_nonzero_price = a.reset_on_nonzero_price
    BY <1>1, <1>3, <1>5 DEF Models
  <1> HIDE DEF d
  <1> QED BY <1>1, <1>4, <1>5, <1>6

\* The limit of the stable price's growth is below one: the fraction of the
\* two prices is at most one, and not zero divided by zero.
LEMMA GrowthBelowOne ==
  ASSUME NEW g1 \in Nat, NEW g2 \in Nat, NEW lo \in Nat, NEW hi \in Nat, NEW n \in Nat,
         lo <= hi, hi > 0, g1 * n < g2
  PROVE  /\ g1 * lo * lo * n \in Nat /\ g2 * hi * hi \in Nat
         /\ g1 * lo * lo * n < g2 * hi * hi
  <1> DEFINE k == g1 * n
             l == lo * lo
             h == hi * hi
  <1>1. k \in Nat /\ l \in Nat /\ h \in Nat /\ k < g2
    BY Z3
  <1>2. l <= h /\ h > 0
    <2>1. l <= h
      BY ProductGrows
    <2>2. h > 0
      BY Z3
    <2> QED BY <2>1, <2>2
  <1>3. g1 * lo * lo * n = k * l
    BY Z3
  <1>4. g2 * hi * hi = g2 * h
    BY Z3
  <1> HIDE DEF k, l, h
  <1>5. k * l <= k * h /\ k * l \in Nat /\ k * h \in Nat
    BY <1>1, <1>2, ProductGrows
  <1>6. k * h < g2 * h /\ g2 * h \in Nat
    BY <1>1, <1>2, Z3
  <1> QED BY <1>3, <1>4, <1>5, <1>6

\* The stable price moves towards the oracle price without passing it.
LEMMA StabilisedKeeps ==
  ASSUME NEW d \in Models, NEW p \in Nat, NEW dt \in Nat, ~Panics(d)
  PROVE  /\ Stabilised(d, p, dt) \in Models
         /\ Stabilised(d, p, dt).delay_prices = d.delay_prices
         /\ Stabilised(d, p, dt).reset_on_nonzero_price = d.reset_on_nonzero_price
         /\ d.stable_price > 0 => Stabilised(d, p, dt).stable_price > 0
         /\ \/ Stabilised(d, p, dt).stable_price <= d.stable_price
            \/ Stabilised(d, p, dt).stable_price <= p
         /\ \/ Stabilised(d, p, dt).stable_price >= d.stable_price
            \/ Stabilised(d, p, dt).stable_price >= p
  <1> DEFINE delay == d.delay_prices[d.last_delay_interval_index]
             prev == d.stable_price
             lo == IF delay >= prev THEN prev ELSE delay
             hi == IF delay >= prev THEN delay ELSE prev
             n == IF dt < MaxDt THEN dt ELSE MaxDt
             num == StableGrowth[1] * lo * lo * n
             den == StableGrowth[2] * hi * hi
             new == growth_clamped(p, prev, num, den)
  <1>1. prev \in Nat /\ delay \in Nat /\ (prev > 0 \/ delay > 0)
    BY DEF Models, Panics
  <1>2. lo \in Nat /\ hi \in Nat /\ lo <= hi /\ hi > 0
    <2> HIDE DEF prev, delay
    <2> QED BY <1>1
  <1>3. n \in Nat /\ n <= MaxDt
    BY StablePriceAssumption
  <1>4. StableGrowth[1] \in Nat /\ StableGrowth[2] \in Nat
    BY StablePriceAssumption
  <1>5. StableGrowth[1] * n < StableGrowth[2]
    <2> DEFINE g == StableGrowth[1]
    <2>1. g * MaxDt < StableGrowth[2] /\ MaxDt \in Nat
      BY StablePriceAssumption
    <2> HIDE DEF n, g
    <2>2. g \in Nat
      BY <1>4 DEF g
    <2>3. g * n <= g * MaxDt /\ g * n \in Nat /\ g * MaxDt \in Nat
      BY <1>3, <2>1, <2>2, ProductGrows
    <2>4. g * n < StableGrowth[2]
      BY <1>4, <2>1, <2>3
    <2> QED BY <2>4 DEF g
  <1> HIDE DEF lo, hi, n
  <1>6. num \in Nat /\ den \in Nat /\ num < den
    <2> DEFINE g1 == StableGrowth[1]
               g2 == StableGrowth[2]
    <2>1. g1 \in Nat /\ g2 \in Nat /\ g1 * n < g2
      BY <1>4, <1>5
    <2> HIDE DEF g1, g2
    <2>2. /\ g1 * lo * lo * n \in Nat /\ g2 * hi * hi \in Nat
          /\ g1 * lo * lo * n < g2 * hi * hi
      BY <1>2, <1>3, <2>1, GrowthBelowOne, Zenon
    <2> QED BY <2>2 DEF g1, g2
  <1>7. Stabilised(d, p, dt) = [d EXCEPT !.stable_price = new]
    BY DEF Stabilised, lo, hi, n
  <1> HIDE DEF num, den
  <1>8. /\ new \in Nat
        /\ new <= prev \/ new <= p
        /\ new >= prev \/ new >= p
        /\ prev > 0 => new > 0
    <2> HIDE DEF prev
    <2> QED BY <1>1, <1>6, Clamps, Zenon
  <1> HIDE DEF new
  <1> QED BY <1>7, <1>8 DEF Models

-----------------------------------------------------------------------------
(* The invariant *)

IInv == TypeOK /\ StableInRange /\ NeverStuck

\* A reset to any price starts a range of one price.
LEMMA RecordResetKeeps ==
  ASSUME TypeOK, NEW p \in Prices, RecordReset(p), now' = now, resets' \in 0 .. MaxResets
  PROVE  IInv'
  <1>1. p \in Nat /\ model \in Models /\ now \in 0 .. MaxTime
    BY StablePriceAssumption DEF TypeOK, Models
  <1>2. /\ model' \in Models /\ model'.stable_price = p
        /\ ~model'.reset_on_nonzero_price => Positive(model')
    BY <1>1, ResetKeeps DEF RecordReset
  <1>3. range' = [low |-> p, high |-> p]
    BY DEF RecordReset
  <1>4. TypeOK'
    BY <1>1, <1>2, <1>3 DEF TypeOK, Models
  <1>5. StableInRange'
    BY <1>1, <1>2, <1>3 DEF StableInRange
  <1>6. NeverStuck'
    BY <1>2 DEF NeverStuck, Positive
  <1> QED BY <1>4, <1>5, <1>6 DEF IInv

\* An update with any oracle price.
LEMMA UpdateKeeps ==
  ASSUME IInv, NEW p \in Prices, Update(p)
  PROVE  IInv'
  <1> DEFINE dt == now - model.last_update_timestamp
             d == Delayed(model, p, now, dt)
  <1>1. p \in Nat /\ model \in Models /\ now \in 0 .. MaxTime
    BY StablePriceAssumption DEF IInv, TypeOK, Models
  <1>2. dt \in Nat /\ dt > 0
    BY <1>1, StablePriceAssumption DEF Update, Models
  <1>3. ~Panics(d) /\ model' = Stabilised(d, p, dt) /\ now' = now /\ resets' = resets
    BY DEF Update
  <1>4. range' = [low  |-> IF p < range.low THEN p ELSE range.low,
                  high |-> IF p > range.high THEN p ELSE range.high]
    BY DEF Update
  <1> HIDE DEF dt
  <1>5. /\ d \in Models /\ d.stable_price = model.stable_price
        /\ d.reset_on_nonzero_price = model.reset_on_nonzero_price
        /\ (\A i \in Index : model.delay_prices[i] > 0)
             => \A i \in Index : d.delay_prices[i] > 0
    BY <1>1, <1>2, DelayedKeeps
  <1> HIDE DEF d
  <1>6. /\ model' \in Models /\ model'.delay_prices = d.delay_prices
        /\ model'.reset_on_nonzero_price = d.reset_on_nonzero_price
        /\ d.stable_price > 0 => model'.stable_price > 0
        /\ model'.stable_price <= d.stable_price \/ model'.stable_price <= p
        /\ model'.stable_price >= d.stable_price \/ model'.stable_price >= p
    BY <1>1, <1>2, <1>3, <1>5, StabilisedKeeps
  <1>7. TypeOK'
    BY <1>1, <1>3, <1>4, <1>6 DEF IInv, TypeOK, Models
  <1>8. StableInRange'
    <2>1. range.low \in Nat /\ range.high \in Nat /\ model.stable_price \in Nat
      BY <1>1 DEF IInv, TypeOK, Models
    <2>2. model'.stable_price \in Nat
      BY <1>6 DEF Models
    <2>3. range.low <= model.stable_price /\ model.stable_price <= range.high
      BY <2>1 DEF IInv, StableInRange
    <2>4. /\ range'.low = IF p < range.low THEN p ELSE range.low
          /\ range'.high = IF p > range.high THEN p ELSE range.high
      BY <1>4
    <2>5. range'.low <= model'.stable_price /\ model'.stable_price <= range'.high
      BY <1>1, <1>5, <1>6, <2>1, <2>2, <2>3, <2>4
    <2> QED BY <1>1, <2>1, <2>2, <2>4, <2>5 DEF StableInRange
  <1>9. NeverStuck'
    BY <1>5, <1>6 DEF IInv, NeverStuck
  <1> QED BY <1>7, <1>8, <1>9 DEF IInv

\* The invariant holds in every reachable state.
LEMMA Inductive == Spec => []IInv
  <1>1. Init => IInv
    <2> SUFFICES ASSUME Init PROVE IInv
      OBVIOUS
    <2>1. now \in 0 .. MaxTime /\ resets \in 0 .. MaxResets
      BY StablePriceAssumption DEF Init
    <2>2. /\ Default \in Models
          /\ Default.stable_price = 0
      BY StablePriceAssumption DEF Default, Models, Index
    <2>3. ASSUME NEW p \in Prices, model = reset_to_price(Default, p, now),
                 range = [low |-> p, high |-> p]
          PROVE  IInv
      <3>1. p \in Nat
        BY StablePriceAssumption
      <3>2. /\ model \in Models /\ model.stable_price = p
            /\ ~model.reset_on_nonzero_price => Positive(model)
        BY <2>1, <2>2, <2>3, <3>1, ResetKeeps
      <3> QED
        BY <2>1, <2>3, <3>1, <3>2
        DEF IInv, TypeOK, StableInRange, NeverStuck, Models, Positive
    <2>4. ASSUME model = [Default EXCEPT !.reset_on_nonzero_price = TRUE],
                 range = [low |-> 0, high |-> 0]
          PROVE  IInv
      <3>1. model \in Models /\ model.stable_price = 0 /\ model.reset_on_nonzero_price = TRUE
        BY <2>2, <2>4 DEF Models
      <3> QED
        BY <2>1, <2>4, <3>1 DEF IInv, TypeOK, StableInRange, NeverStuck, Models
    <2> QED BY <2>3, <2>4 DEF Init
  <1>2. IInv /\ [Next]_vars => IInv'
    <2> SUFFICES ASSUME IInv, [Next]_vars PROVE IInv'
      OBVIOUS
    <2>1. CASE UNCHANGED vars
      BY <2>1 DEF vars, IInv, TypeOK, StableInRange, NeverStuck
    <2>2. CASE Tick
      BY <2>2, StablePriceAssumption DEF Tick, IInv, TypeOK, StableInRange, NeverStuck
    <2>3. ASSUME NEW p \in Prices, Reset(p) PROVE IInv'
      BY <2>3, RecordResetKeeps, StablePriceAssumption DEF Reset, IInv, TypeOK
    <2>4. ASSUME NEW p \in Prices, UpdateResets(p) PROVE IInv'
      BY <2>4, RecordResetKeeps DEF UpdateResets, IInv, TypeOK
    <2>5. ASSUME NEW p \in Prices, Update(p) PROVE IInv'
      BY <2>5, UpdateKeeps
    <2> QED BY <2>1, <2>2, <2>3, <2>4, <2>5 DEF Next
  <1> QED BY <1>1, <1>2, PTL DEF Spec

\* update never moves the stable price out of the range of the oracle prices
\* that it was given since the last reset.
THEOREM StableStaysInRange == Spec => []StableInRange
  <1>1. IInv => StableInRange
    BY DEF IInv
  <1> QED BY <1>1, Inductive, PTL

\* Once there was a price, neither the stable price nor a delay price is zero:
\* update never divides zero by zero.
THEOREM StableNeverStuck == Spec => []NeverStuck
  <1>1. IInv => NeverStuck
    BY DEF IInv
  <1> QED BY <1>1, Inductive, PTL

=============================================================================
