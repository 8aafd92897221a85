----------------------------- MODULE MCQueueFifo -----------------------------
(* Instances of QueueFifo for TLC. *)
EXTENDS QueueFifo, TLC

CONSTANTS u1, u2, a1, a2

\* One account, of which the other user may become a delegate.
MCOwner == (a1 :> u1)

\* A placement and a modification of two users, a placement nobody can parse,
\* and an event type without a perp action.
MCRequests ==
  { [user |-> u1, event_type |-> "PerpPlaceOrder", params_ok |-> TRUE],
    [user |-> u2, event_type |-> "PerpModifyOrder", params_ok |-> TRUE],
    [user |-> u1, event_type |-> "PerpPlaceOrder", params_ok |-> FALSE],
    [user |-> u2, event_type |-> "OpenbookV2PlaceOrder", params_ok |-> TRUE] }

\* Liveness: two users with an account each, and requests that can be executed.
MCOwner2 == (a1 :> u1 @@ a2 :> u2)
MCExecutable ==
  { [user |-> u1, event_type |-> "PerpPlaceOrder", params_ok |-> TRUE],
    [user |-> u2, event_type |-> "PerpCancelOrder", params_ok |-> FALSE] }
=============================================================================
