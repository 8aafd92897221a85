---------------------------- MODULE SequencedLog ----------------------------
(***************************************************************************)
(* What the perp FIFO queue promises its users, without rings, headers or  *)
(* calls: a log of operations in the order the sequencer numbered them,    *)
(* and the part of it that has been executed.  README.md of the            *)
(* repository, "Perp FIFO queue (continuum sequencing)".                   *)
(***************************************************************************)
EXTENDS Naturals, Sequences

CONSTANT Operations     \* records with a field seq_no

VARIABLES
  log,        \* every accepted operation, in the order of acceptance
  executed    \* the operations that took effect, in that order

vars == <<log, executed>>

Init == log = <<>> /\ executed = <<>>

\* An operation is accepted only after everything that is numbered before it.
Submit(op) ==
  /\ \A i \in 1..Len(log) : log[i].seq_no < op.seq_no
  /\ log' = Append(log, op)
  /\ UNCHANGED executed

\* One crank call executes the next operations of the log, all of them or none.
Deliver(n) ==
  /\ n > Len(executed)
  /\ executed' = SubSeq(log, 1, n)
  /\ UNCHANGED log

Next ==
  \/ \E op \in Operations : Submit(op)
  \/ \E n \in 1..Len(log) : Deliver(n)

Spec == Init /\ [][Next]_vars
=============================================================================
