----------------------------- MODULE WorkSignals -----------------------------
(***************************************************************************)
(* What the two trigger channels of the liquidator promise: work that no   *)
(* worker has claimed is never left without a signal that wakes a worker.  *)
(* A scan enters its find and signals it in a later step; a worker takes a *)
(* signal first and looks for work in a later step, liquidations before    *)
(* conditional swaps (TCS), and a worker reserved for liquidations hands a *)
(* signal it has no use for to the other workers.                          *)
(***************************************************************************)
EXTENDS Integers, FiniteSets

CONSTANTS
    Liq, Tcs,   \* liquidations and conditional swaps that may be found
    Workers,
    Reserved    \* the workers that only liquidate

WorkSignalsAssumption == IsFiniteSet(Workers) /\ Reserved \subseteq Workers

VARIABLES
    liq, tcs,   \* found and not claimed
    liqQ, tcsQ, \* signals in the channels
    liqDue, tcsDue, \* 1 between a scan's find and its signal
    woken,      \* workers that took a signal and have not looked for work
    giving      \* workers about to hand a signal on

vars == <<liq, tcs, liqQ, tcsQ, liqDue, tcsDue, woken, giving>>

Init ==
    /\ liq = {} /\ tcs = {} /\ liqQ = 0 /\ tcsQ = 0
    /\ liqDue = 0 /\ tcsDue = 0 /\ woken = {} /\ giving = {}

FindLiq(x) ==
    /\ liqDue = 0 /\ x \notin liq
    /\ liq' = liq \cup {x} /\ liqDue' = 1
    /\ UNCHANGED <<tcs, liqQ, tcsQ, tcsDue, woken, giving>>

SignalLiq ==
    /\ liqDue = 1
    /\ liqDue' = 0 /\ liqQ' = liqQ + 1
    /\ UNCHANGED <<liq, tcs, tcsQ, tcsDue, woken, giving>>

FindTcs(x) ==
    /\ tcsDue = 0 /\ x \notin tcs
    /\ tcs' = tcs \cup {x} /\ tcsDue' = 1
    /\ UNCHANGED <<liq, liqQ, tcsQ, liqDue, woken, giving>>

SignalTcs ==
    /\ tcsDue = 1
    /\ tcsDue' = 0 /\ tcsQ' = tcsQ + 1
    /\ UNCHANGED <<liq, tcs, liqQ, liqDue, woken, giving>>

TakeLiqSignal(w) ==
    /\ w \notin woken \cup giving /\ liqQ > 0
    /\ liqQ' = liqQ - 1 /\ woken' = woken \cup {w}
    /\ UNCHANGED <<liq, tcs, tcsQ, liqDue, tcsDue, giving>>

TakeTcsSignal(w) ==
    /\ w \notin woken \cup giving /\ w \notin Reserved /\ tcsQ > 0
    /\ tcsQ' = tcsQ - 1 /\ woken' = woken \cup {w}
    /\ UNCHANGED <<liq, tcs, liqQ, liqDue, tcsDue, giving>>

ClaimLiq(w, x) ==
    /\ w \in woken /\ x \in liq
    /\ liq' = liq \ {x} /\ woken' = woken \ {w}
    /\ UNCHANGED <<tcs, liqQ, tcsQ, liqDue, tcsDue, giving>>

ClaimTcs(w, batch) ==
    /\ w \in woken /\ w \notin Reserved /\ liq = {}
    /\ batch = {} => tcs = {}
    /\ tcs' = tcs \ batch /\ woken' = woken \ {w}
    /\ UNCHANGED <<liq, liqQ, tcsQ, liqDue, tcsDue, giving>>

GiveUp(w) ==
    /\ w \in woken /\ w \in Reserved /\ liq = {}
    /\ woken' = woken \ {w} /\ giving' = giving \cup {w}
    /\ UNCHANGED <<liq, tcs, liqQ, tcsQ, liqDue, tcsDue>>

HandOn(w) ==
    /\ w \in giving
    /\ giving' = giving \ {w} /\ tcsQ' = tcsQ + 1
    /\ UNCHANGED <<liq, tcs, liqQ, liqDue, tcsDue, woken>>

Next ==
    \/ \E x \in Liq : FindLiq(x)
    \/ \E x \in Tcs : FindTcs(x)
    \/ SignalLiq
    \/ SignalTcs
    \/ \E w \in Workers :
        \/ TakeLiqSignal(w)
        \/ TakeTcsSignal(w)
        \/ \E x \in liq : ClaimLiq(w, x)
        \/ \E batch \in SUBSET tcs : ClaimTcs(w, batch)
        \/ GiveUp(w)
        \/ HandOn(w)

Spec == Init /\ [][Next]_vars

TypeOK ==
    /\ liq \in SUBSET Liq /\ tcs \in SUBSET Tcs
    /\ liqQ \in Nat /\ tcsQ \in Nat /\ liqDue \in {0, 1} /\ tcsDue \in {0, 1}
    /\ woken \in SUBSET Workers /\ giving \in SUBSET Workers
    /\ IsFiniteSet(liq) /\ IsFiniteSet(tcs)

\* A signal, or a worker or scan that is about to act, for every liquidation
\* nobody claimed; and for every piece of work nobody claimed.
Covered ==
    /\ Cardinality(liq) <= liqQ + liqDue + Cardinality(woken)
    /\ Cardinality(liq) + Cardinality(tcs)
        <= liqQ + tcsQ + liqDue + tcsDue + Cardinality(woken) + Cardinality(giving)

\* The channels and GiveUpTcs of tx_sender.rs lose no wakeup: when no worker is
\* about to look for work and no scan is about to signal, an unclaimed
\* liquidation has a signal that every worker receives, and an unclaimed
\* conditional swap has a signal.
NoLostWakeup ==
    woken = {} /\ giving = {} /\ liqDue = 0 /\ tcsDue = 0 =>
        /\ liq # {} => liqQ > 0
        /\ tcs # {} => liqQ + tcsQ > 0

=============================================================================
