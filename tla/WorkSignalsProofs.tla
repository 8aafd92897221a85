-------------------------- MODULE WorkSignalsProofs --------------------------
(***************************************************************************)
(* The trigger channels lose no wakeup, for any number of workers and any  *)
(* amount of work. NoLostWakeup is not inductive: it says nothing while a  *)
(* worker or a scan is between two steps. Covered counts those steps like  *)
(* signals and is kept by every action, provided that no worker both looks *)
(* for work and hands on a signal.                                         *)
(***************************************************************************)
EXTENDS WorkSignals, FiniteSetTheorems, TLAPS

IInv == TypeOK /\ Covered /\ woken \cap giving = {}

\* Sets of workers are finite.
LEMMA WorkersFinite ==
    ASSUME WorkSignalsAssumption, NEW S \in SUBSET Workers
    PROVE  IsFiniteSet(S) /\ Cardinality(S) \in Nat
  BY FS_Subset, FS_CardinalityType DEF WorkSignalsAssumption

\* A batch that is not empty leaves fewer swaps than there were.
LEMMA BatchShrinks ==
    ASSUME NEW S, IsFiniteSet(S), NEW B \in SUBSET S, B # {}
    PROVE  IsFiniteSet(S \ B) /\ Cardinality(S \ B) <= Cardinality(S) - 1
  <1>1. PICK x \in B : TRUE
    OBVIOUS
  <1>2. IsFiniteSet(S \ {x}) /\ Cardinality(S \ {x}) = Cardinality(S) - 1
    BY <1>1, FS_RemoveElement
  <1>3. S \ B \in SUBSET (S \ {x})
    BY <1>1
  <1> QED
    BY <1>2, <1>3, FS_Subset

\* What the counts are, for the arithmetic of the steps below.
Counted ==
    /\ Cardinality(liq) \in Nat /\ Cardinality(tcs) \in Nat
    /\ Cardinality(woken) \in Nat /\ Cardinality(giving) \in Nat
    /\ IsFiniteSet(woken) /\ IsFiniteSet(giving)

\* Everything that Covered adds up is a natural number.
LEMMA Counts ==
    ASSUME WorkSignalsAssumption, TypeOK
    PROVE  Counted
  BY WorkersFinite, FS_CardinalityType DEF TypeOK, Counted

\* The scans: what is entered is due for a signal, and the signal replaces it.
LEMMA ScansKeep ==
    ASSUME WorkSignalsAssumption, IInv,
           \/ \E x \in Liq : FindLiq(x)
           \/ \E x \in Tcs : FindTcs(x)
           \/ SignalLiq \/ SignalTcs
    PROVE  IInv'
  <1> USE DEF IInv, Counted
  <1>0. Counted
    BY Counts
  <1>1. ASSUME NEW x \in Liq, FindLiq(x) PROVE IInv'
    <2>1. IsFiniteSet(liq') /\ Cardinality(liq') = Cardinality(liq) + 1
      BY <1>1, FS_AddElement DEF FindLiq, TypeOK
    <2>2. TypeOK'
      BY <1>1, <2>1 DEF FindLiq, TypeOK
    <2>3. Covered'
      BY <1>0, <1>1, <2>1 DEF FindLiq, TypeOK, Covered
    <2> QED
      BY <1>1, <2>2, <2>3 DEF FindLiq
  <1>2. ASSUME NEW x \in Tcs, FindTcs(x) PROVE IInv'
    <2>1. IsFiniteSet(tcs') /\ Cardinality(tcs') = Cardinality(tcs) + 1
      BY <1>2, FS_AddElement DEF FindTcs, TypeOK
    <2>2. TypeOK'
      BY <1>2, <2>1 DEF FindTcs, TypeOK
    <2>3. Covered'
      BY <1>0, <1>2, <2>1 DEF FindTcs, TypeOK, Covered
    <2> QED
      BY <1>2, <2>2, <2>3 DEF FindTcs
  <1>3. CASE SignalLiq
    BY <1>0, <1>3 DEF SignalLiq, TypeOK, Covered
  <1>4. CASE SignalTcs
    BY <1>0, <1>4 DEF SignalTcs, TypeOK, Covered
  <1> QED
    BY <1>1, <1>2, <1>3, <1>4

\* A worker that takes a signal stands for it until it has looked for work.
LEMMA TakesKeep ==
    ASSUME WorkSignalsAssumption, IInv, NEW w \in Workers, TakeLiqSignal(w) \/ TakeTcsSignal(w)
    PROVE  IInv'
  <1> USE DEF IInv, Counted
  <1>0. Counted
    BY Counts
  <1>1. w \notin woken /\ woken' = woken \cup {w}
    BY DEF TakeLiqSignal, TakeTcsSignal
  <1>2. Cardinality(woken') = Cardinality(woken) + 1
    BY <1>0, <1>1, FS_AddElement
  <1>3. CASE TakeLiqSignal(w)
    BY <1>0, <1>2, <1>3 DEF TakeLiqSignal, TypeOK, Covered
  <1>4. CASE TakeTcsSignal(w)
    BY <1>0, <1>2, <1>4 DEF TakeTcsSignal, TypeOK, Covered
  <1> QED
    BY <1>3, <1>4

\* A worker that looked for work has claimed some, hands its signal on, or
\* found that there is nothing to claim.
LEMMA ClaimsKeep ==
    ASSUME WorkSignalsAssumption, IInv, NEW w \in Workers,
           \/ \E x \in liq : ClaimLiq(w, x)
           \/ \E batch \in SUBSET tcs : ClaimTcs(w, batch)
           \/ GiveUp(w)
    PROVE  IInv'
  <1> USE DEF IInv, Counted
  <1>0. Counted
    BY Counts
  <1>1. w \in woken /\ woken' = woken \ {w}
    BY DEF ClaimLiq, ClaimTcs, GiveUp
  <1>2. Cardinality(woken') = Cardinality(woken) - 1
    BY <1>0, <1>1, FS_RemoveElement
  <1>3. Cardinality(woken) - 1 \in Nat
    BY <1>0, <1>1, FS_EmptySet
  <1>4. ASSUME NEW x \in liq, ClaimLiq(w, x) PROVE IInv'
    <2>1. IsFiniteSet(liq') /\ Cardinality(liq') = Cardinality(liq) - 1
      BY <1>4, FS_RemoveElement DEF ClaimLiq, TypeOK
    <2>2. TypeOK'
      BY <1>4, <2>1 DEF ClaimLiq, TypeOK
    <2>3. Covered'
      BY <1>0, <1>2, <1>4, <2>1 DEF ClaimLiq, TypeOK, Covered
    <2> QED
      BY <1>4, <2>2, <2>3 DEF ClaimLiq
  <1>5. ASSUME NEW batch \in SUBSET tcs, ClaimTcs(w, batch) PROVE IInv'
    <2>1. liq' = {} /\ Cardinality(liq') = 0 /\ Cardinality(liq) = 0
      BY <1>5, FS_EmptySet DEF ClaimTcs
    <2>2. /\ IsFiniteSet(tcs') /\ Cardinality(tcs') \in Nat
          /\ Cardinality(tcs') = 0 \/ Cardinality(tcs') <= Cardinality(tcs) - 1
      <3>1. CASE batch = {}
        <4>1. tcs' = {}
          BY <1>5, <3>1 DEF ClaimTcs
        <4> QED
          BY <4>1, FS_EmptySet
      <3>2. CASE batch # {}
        BY <1>0, <1>5, <3>2, BatchShrinks, FS_CardinalityType DEF ClaimTcs, TypeOK
      <3> QED
        BY <3>1, <3>2
    <2>3. TypeOK'
      BY <1>5, <2>2 DEF ClaimTcs, TypeOK
    <2>4. Covered'
      BY <1>0, <1>2, <1>3, <1>5, <2>1, <2>2 DEF ClaimTcs, TypeOK, Covered
    <2> QED
      BY <1>5, <2>3, <2>4 DEF ClaimTcs
  <1>6. CASE GiveUp(w)
    <2>1. Cardinality(giving') = Cardinality(giving) + 1
      BY <1>0, <1>1, <1>6, FS_AddElement DEF GiveUp
    <2>2. Cardinality(liq) = 0
      BY <1>6, FS_EmptySet DEF GiveUp
    <2>3. TypeOK'
      BY <1>6 DEF GiveUp, TypeOK
    <2>4. Covered'
      BY <1>0, <1>2, <1>3, <1>6, <2>1, <2>2 DEF GiveUp, TypeOK, Covered
    <2> QED
      BY <1>6, <2>3, <2>4 DEF GiveUp
  <1> QED
    BY <1>4, <1>5, <1>6

\* The signal handed on takes the place of the worker that gave up.
LEMMA HandOnKeeps ==
    ASSUME WorkSignalsAssumption, IInv, NEW w \in Workers, HandOn(w)
    PROVE  IInv'
  <1> USE DEF IInv, Counted
  <1>0. Counted
    BY Counts
  <1>1. Cardinality(giving') = Cardinality(giving) - 1
    BY <1>0, FS_RemoveElement DEF HandOn
  <1> QED
    BY <1>0, <1>1 DEF HandOn, TypeOK, Covered

\* The inductive invariant holds in every reachable state.
LEMMA Inductive ==
    ASSUME WorkSignalsAssumption
    PROVE  Spec => []IInv
  <1>1. Init => IInv
    BY FS_EmptySet DEF Init, IInv, TypeOK, Covered
  <1>2. IInv /\ [Next]_vars => IInv'
    <2> SUFFICES ASSUME IInv, [Next]_vars PROVE IInv'
      OBVIOUS
    <2>1. CASE UNCHANGED vars
      BY <2>1 DEF vars, IInv, TypeOK, Covered
    <2>2. CASE Next
      BY <2>2, ScansKeep, TakesKeep, ClaimsKeep, HandOnKeeps DEF Next
    <2> QED
      BY <2>1, <2>2
  <1> QED
    BY <1>1, <1>2, PTL DEF Spec

\* Every unclaimed piece of work is covered by a signal or by a worker or scan
\* that is about to act, whatever the number of workers and however the scans
\* and the workers of tx_sender.rs interleave.
THEOREM WorkIsCovered ==
    ASSUME WorkSignalsAssumption
    PROVE  Spec => []Covered
  <1>1. IInv => Covered
    BY DEF IInv
  <1> QED
    BY <1>1, Inductive, PTL

\* No wakeup is lost: unclaimed work has a signal in a channel as soon as no
\* worker and no scan is between two steps.
THEOREM NoWakeupLost ==
    ASSUME WorkSignalsAssumption
    PROVE  Spec => []NoLostWakeup
  <1>1. IInv => NoLostWakeup
    <2> SUFFICES ASSUME IInv, woken = {}, giving = {}, liqDue = 0, tcsDue = 0
                 PROVE  (liq # {} => liqQ > 0) /\ (tcs # {} => liqQ + tcsQ > 0)
      BY DEF NoLostWakeup
    <2>1. Cardinality(woken) = 0 /\ Cardinality(giving) = 0
      BY FS_EmptySet
    <2>2. Cardinality(liq) \in Nat /\ Cardinality(tcs) \in Nat
      BY Counts DEF IInv, Counted
    <2>3. (liq # {} => Cardinality(liq) > 0) /\ (tcs # {} => Cardinality(tcs) > 0)
      BY <2>2, FS_EmptySet DEF IInv, TypeOK
    <2>4. /\ Cardinality(liq) <= liqQ
          /\ Cardinality(liq) + Cardinality(tcs) <= liqQ + tcsQ
      BY <2>1, <2>2 DEF IInv, TypeOK, Covered
    <2>5. liqQ \in Nat /\ tcsQ \in Nat
      BY DEF IInv, TypeOK
    <2> QED
      BY <2>2, <2>3, <2>4, <2>5
  <1> QED
    BY <1>1, Inductive, PTL

=============================================================================
