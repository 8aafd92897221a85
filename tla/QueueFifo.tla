------------------------------ MODULE QueueFifo ------------------------------
(***************************************************************************)
(* The perp FIFO queue: the ring buffer of state/queue_fifo.rs, the two    *)
(* instructions that append to it (enqueue_perp_event and                  *)
(* perp_enqueue_operation) and the two that execute from it                *)
(* (crank_fifo_queue and perp_crank_queued_operations).                    *)
(*                                                                         *)
(* An enqueue is one step.  A crank is a loop: CrankBegin, one step per    *)
(* iteration, and CrankCommit or CrankAbort.  The runtime holds the write  *)
(* locks of the queue, the market and the account during the whole         *)
(* instruction, so every other action waits until the call is over.        *)
(*                                                                         *)
(* A definition marked "Fault" is a broken variant of the one that follows *)
(* it: with the variant in its place some property below must fail.        *)
(***************************************************************************)
EXTENDS Integers, Sequences

CONSTANTS
  Capacity,        \* FIFO_QUEUE_CAPACITY
  MaxSeq,          \* the largest seq_no (u64::MAX)
  MaxLagSlots,     \* header.max_lag_slots; no instruction writes it
  MaxQueuedOps,    \* MAX_QUEUED_OPS_PER_CALL
  MaxSlot,         \* bound: the last slot of the clock
  Users,           \* keys that sign intents
  DefaultKey,      \* Pubkey::default(), the user of a zeroed entry
  Accounts,        \* mango accounts of the group
  NoAccount,       \* no account, the account of an idle crank
  Owner,           \* the owner of each account
  Requests,        \* what intents ask for: [user, event_type, params_ok]
  MarketMayReject  \* may the market-side handler return an error?

\* QueueEventType: the ones with a perp action are accepted by the enqueues.
PerpActions == {"PerpPlaceOrder", "PerpCancelOrder", "PerpModifyOrder"}
OpenbookActions ==
  {"OpenbookV2PlaceOrder", "OpenbookV2CancelOrder", "OpenbookV2PlaceTakeOrder"}

\* params_ok: side, order type and self trade behaviour are valid encodings,
\* which is found out only when the operation is executed.
Request == [user : Users, event_type : PerpActions \cup OpenbookActions,
            params_ok : BOOLEAN]

ASSUME QueueAssumption ==
  /\ Capacity \in Nat \ {0}
  /\ MaxSeq \in Nat
  /\ MaxLagSlots \in Nat
  /\ MaxQueuedOps \in Nat \ {0}
  /\ MaxSlot \in Nat
  /\ Owner \in [Accounts -> Users]
  /\ NoAccount \notin Accounts
  /\ Requests \subseteq Request
  /\ MarketMayReject \in BOOLEAN

VARIABLES
  header,      \* QueueFifoHeader: head, count, last_executed_seq
  entries,     \* the ring of QueueFifoEvents
  marketSeq,   \* perp_market.queue_last_executed_seq
  slot,        \* Clock::get().slot
  authority,   \* per account: the keys is_owner_or_delegate accepts
  operational, \* per account: is_operational, not frozen
  call,        \* the crank instruction that holds the locks
  accepted,    \* history: every event written to the ring
  executed     \* history: the events whose dispatch took effect

vars == <<header, entries, marketSeq, slot, authority, operational, call,
          accepted, executed>>

Seqs == 0..MaxSeq
Slots == 0..MaxSlot
Indices == 0..(Capacity - 1)

Header == [head : Indices, count : 0..Capacity, last_executed_seq : Seqs]

Event == [seq_no : Seqs, submitted_slot : Slots, user : Users \cup {DefaultKey},
          event_type : PerpActions, params_ok : BOOLEAN]

\* perp_create_market takes a zeroed queue account.
ZeroEvent == [seq_no |-> 0, submitted_slot |-> 0, user |-> DefaultKey,
              event_type |-> "PerpPlaceOrder", params_ok |-> TRUE]
ZeroHeader == [head |-> 0, count |-> 0, last_executed_seq |-> 0]

\* The two crank instructions; "none" while no crank is running.
Cranks == {"perp_crank_queued_operations", "crank_fifo_queue"}

NoCall == [instr |-> "none", account |-> NoAccount, max |-> 0, processed |-> 0,
           last |-> 0, saved |-> ZeroHeader, savedExecuted |-> <<>>]
Idle == call.instr = "none"

-----------------------------------------------------------------------------
(* QueueFifo *)

is_full == header.count >= Capacity

tail_index == (header.head + header.count - 1) % Capacity

\* Fault: the cursor of the header instead of the last entry.
TailSeqIgnoresEntries == header.last_executed_seq

tail_seq == IF header.count = 0 THEN header.last_executed_seq
                                ELSE entries[tail_index].seq_no

\* Fault: an off-by-one in the slot of the new entry.
NextIndexOffByOne == (header.head + header.count + 1) % Capacity

next_index == (header.head + header.count) % Capacity

advance_head(h) ==
  [head |-> (h.head + 1) % Capacity,
   count |-> IF h.count = 0 THEN 0 ELSE h.count - 1,
   last_executed_seq |-> h.last_executed_seq]

saturating_add_one(s) == IF s = MaxSeq THEN MaxSeq ELSE s + 1

-----------------------------------------------------------------------------
(* The two enqueue instructions *)

\* Fault: a number equal to the last one is accepted.
PushEventEqualSeq(r, seq_no) ==
  LET event == [seq_no |-> seq_no, submitted_slot |-> slot, user |-> r.user,
                event_type |-> r.event_type, params_ok |-> r.params_ok]
  IN  /\ ~is_full
      /\ seq_no >= tail_seq
      /\ entries' = [entries EXCEPT ![next_index] = event]
      /\ header' = [header EXCEPT !.count = header.count + 1]
      /\ accepted' = Append(accepted, event)
      /\ UNCHANGED <<marketSeq, slot, authority, operational, call, executed>>

\* The checks on the queue and the write at the end, which both share.
PushEvent(r, seq_no) ==
  LET event == [seq_no |-> seq_no, submitted_slot |-> slot, user |-> r.user,
                event_type |-> r.event_type, params_ok |-> r.params_ok]
  IN  /\ ~is_full
      /\ seq_no > tail_seq
      /\ entries' = [entries EXCEPT ![next_index] = event]
      /\ header' = [header EXCEPT !.count = header.count + 1]
      /\ accepted' = Append(accepted, event)
      /\ UNCHANGED <<marketSeq, slot, authority, operational, call, executed>>

\* Bound: only events whose lag window ends within the clock's range.
InClockRange == slot + MaxLagSlots <= MaxSlot

\* Signed by the user (without the number) and by the sequencer (with it).
enqueue_perp_event(r, seq_no) ==
  /\ Idle
  /\ InClockRange
  /\ r.event_type \in PerpActions
  /\ PushEvent(r, seq_no)

\* The intents carry expiry times, 0 for none.  One clock stands for the slot
\* and for the unix timestamp.
Unexpired(expiry_ts) == expiry_ts = 0 \/ slot <= expiry_ts

perp_enqueue_operation(r, seq_no, intent_expiry, queued_expiry) ==
  /\ Idle
  /\ InClockRange
  /\ r.event_type \in PerpActions
  /\ Unexpired(intent_expiry)
  /\ Unexpired(queued_expiry)
  /\ PushEvent(r, seq_no)

-----------------------------------------------------------------------------
(* The two crank instructions *)

CrankBegin(instr, account, max) ==
  /\ Idle
  /\ operational[account]
  /\ call' = [instr |-> instr, account |-> account,
              max |-> IF instr = "perp_crank_queued_operations" /\ max > MaxQueuedOps
                      THEN MaxQueuedOps ELSE max,
              processed |-> 0, last |-> header.last_executed_seq,
              saved |-> header, savedExecuted |-> executed]
  /\ UNCHANGED <<header, entries, marketSeq, slot, authority, operational,
                 accepted, executed>>

InLoop == ~Idle /\ call.processed < call.max /\ header.count > 0
HeadEvent == entries[header.head]
ExpectedSeq == saturating_add_one(call.last)

\* The slots since the submission; saturating_sub never saturates here.
Lag == slot - HeadEvent.submitted_slot
\* Faults: the window is one slot short; the comparison is inverted.
GapIsClosedEarly == Lag + 1 >= MaxLagSlots
GapIsClosedInverted == Lag < MaxLagSlots

GapIsClosed == Lag >= MaxLagSlots

\* Fault: the jump over a gap moves the local cursor only.
CrankSkipLocalOnly ==
  /\ InLoop
  /\ HeadEvent.seq_no > ExpectedSeq
  /\ GapIsClosed
  /\ call' = [call EXCEPT !.last = HeadEvent.seq_no - 1]
  /\ UNCHANGED <<header, entries, marketSeq, slot, authority, operational, accepted,
                 executed>>

\* The head is not the expected event: jump over a gap whose window has
\* passed, or drop an event that is numbered too low.
CrankSkip ==
  /\ InLoop
  /\ HeadEvent.seq_no # ExpectedSeq
  /\ HeadEvent.seq_no > ExpectedSeq => GapIsClosed
  /\ IF HeadEvent.seq_no > ExpectedSeq
     THEN /\ call' = [call EXCEPT !.last = HeadEvent.seq_no - 1]
          /\ header' = [header EXCEPT !.last_executed_seq = HeadEvent.seq_no - 1]
     ELSE header' = advance_head(header) /\ UNCHANGED call
  /\ UNCHANGED <<entries, marketSeq, slot, authority, operational, accepted, executed>>

ReadyHead == InLoop /\ HeadEvent.seq_no = ExpectedSeq

\* order_from_params reads the encoded parameters; a cancellation does not.
Parsable(event) == event.event_type = "PerpCancelOrder" \/ event.params_ok

\* Fault: an event that cannot be parsed is treated as executed.
DispatchableUnparsed ==
  /\ HeadEvent.user \in authority[call.account]
  /\ HeadEvent.event_type = "PerpModifyOrder" => call.instr # "crank_fifo_queue"

\* validate_event_targets, and the errors of dispatch_event that do not depend
\* on the market: crank_fifo_queue has no arm for a modification.
Dispatchable ==
  /\ HeadEvent.user \in authority[call.account]
  /\ HeadEvent.event_type = "PerpModifyOrder" => call.instr # "crank_fifo_queue"
  /\ Parsable(HeadEvent)

CrankExecute ==
  /\ ReadyHead
  /\ Dispatchable
  /\ executed' = Append(executed, HeadEvent)
  /\ header' = [advance_head(header) EXCEPT !.last_executed_seq = HeadEvent.seq_no]
  /\ call' = [call EXCEPT !.last = HeadEvent.seq_no, !.processed = call.processed + 1]
  /\ UNCHANGED <<entries, marketSeq, slot, authority, operational, accepted>>

\* Faults: the header is not restored; the effects are not undone.
CrankAbortKeepsHeader ==
  /\ ReadyHead
  /\ MarketMayReject \/ ~Dispatchable
  /\ executed' = call.savedExecuted
  /\ call' = NoCall
  /\ UNCHANGED <<header, entries, marketSeq, slot, authority, operational, accepted>>
CrankAbortKeepsEffects ==
  /\ ReadyHead
  /\ MarketMayReject \/ ~Dispatchable
  /\ header' = call.saved
  /\ call' = NoCall
  /\ UNCHANGED <<entries, marketSeq, slot, authority, operational, accepted, executed>>

\* An error ends the instruction: the header is restored, and the runtime drops
\* what the operations before it did.
CrankAbort ==
  /\ ReadyHead
  /\ MarketMayReject \/ ~Dispatchable
  /\ header' = call.saved
  /\ executed' = call.savedExecuted
  /\ call' = NoCall
  /\ UNCHANGED <<entries, marketSeq, slot, authority, operational, accepted>>

\* Fault: the market's copy of the cursor is not written.
CrankCommitForgetsMarket ==
  /\ ~Idle
  /\ InLoop => HeadEvent.seq_no > ExpectedSeq /\ ~GapIsClosed
  /\ call' = NoCall
  /\ UNCHANGED <<header, entries, marketSeq, slot, authority, operational, accepted,
                 executed>>

\* The loop is over, or waits for a gap: the market records how far it came.
CrankCommit ==
  /\ ~Idle
  /\ InLoop => HeadEvent.seq_no > ExpectedSeq /\ ~GapIsClosed
  /\ marketSeq' = header.last_executed_seq
  /\ call' = NoCall
  /\ UNCHANGED <<header, entries, slot, authority, operational, accepted, executed>>

-----------------------------------------------------------------------------
(* The environment *)

Tick ==
  /\ Idle
  /\ slot < MaxSlot
  /\ slot' = slot + 1
  /\ UNCHANGED <<header, entries, marketSeq, authority, operational, call,
                 accepted, executed>>

\* account_edit, or a temporary delegate whose time is over: an account has
\* its owner and up to two delegates.
ChangeDelegates(account, delegate, temporary_delegate) ==
  /\ Idle
  /\ authority' = [authority EXCEPT ![account] =
                     {Owner[account], delegate, temporary_delegate} \ {DefaultKey}]
  /\ UNCHANGED <<header, entries, marketSeq, slot, operational, call, accepted, executed>>

\* account_toggle_freeze, or a freeze whose week is over.
ToggleFreeze(account) ==
  /\ Idle
  /\ operational' = [operational EXCEPT ![account] = ~operational[account]]
  /\ UNCHANGED <<header, entries, marketSeq, slot, authority, call, accepted, executed>>

-----------------------------------------------------------------------------

Init ==
  /\ header = ZeroHeader
  /\ entries = [i \in Indices |-> ZeroEvent]
  /\ marketSeq = 0
  /\ slot = 0
  /\ authority = [a \in Accounts |-> {Owner[a]}]
  /\ operational = [a \in Accounts |-> TRUE]
  /\ call = NoCall
  /\ accepted = <<>>
  /\ executed = <<>>

Enqueue ==
  \E r \in Requests, seq_no \in Seqs :
    \/ enqueue_perp_event(r, seq_no)
    \/ \E e1, e2 \in Slots : perp_enqueue_operation(r, seq_no, e1, e2)

Crank ==
  \/ \E instr \in Cranks, a \in Accounts, max \in 0..(MaxQueuedOps + 1) :
       CrankBegin(instr, a, max)
  \/ CrankSkip
  \/ CrankExecute
  \/ CrankAbort
  \/ CrankCommit

Environment ==
  \/ Tick
  \/ \E a \in Accounts, d, t \in Users \cup {DefaultKey} : ChangeDelegates(a, d, t)
  \/ \E a \in Accounts : ToggleFreeze(a)

Next == Enqueue \/ Crank \/ Environment

Spec == Init /\ [][Next]_vars

-----------------------------------------------------------------------------
(* Properties *)

Call == [instr : Cranks \cup {"none"}, account : Accounts \cup {NoAccount},
         max : Nat, processed : Nat, last : Seqs, saved : Header,
         savedExecuted : Seq(Event)]

\* Every variable has its type: the header's indices stay within the ring.
TypeOK ==
  /\ header \in Header
  /\ entries \in [Indices -> Event]
  /\ marketSeq \in Seqs
  /\ slot \in Slots
  /\ authority \in [Accounts -> SUBSET Users]
  /\ operational \in [Accounts -> BOOLEAN]
  /\ call \in Call
  /\ accepted \in Seq(Event)
  /\ executed \in Seq(Event)

\* The number of the last event of a history, 0 for none.
LastSeq(history) == IF history = <<>> THEN 0 ELSE history[Len(history)].seq_no

\* The entries a header describes are the accepted events after the n-th.
RingFrom(h, n) ==
  /\ Len(accepted) = n + h.count
  /\ \A i \in 0..(h.count - 1) :
       entries[(h.head + i) % Capacity] = accepted[n + i + 1]

\* The `count` entries from `head` on are the accepted events that have not
\* been executed, in order: an enqueue never overwrites a live entry
\* (is_full, next_index) and a crank never loses or repeats one, not even when
\* it fails halfway and puts the old header back.
RingHoldsPending == RingFrom(header, Len(executed))

\* The sequence numbers of accepted events strictly increase, although tail_seq
\* reads them from the ring, or from the header when the ring is empty.  A
\* number that was passed over is therefore gone for good: waiting for the lag
\* window (max_lag_slots) delays the events behind a gap and never fills it.
AcceptedInSequence ==
  \A i, j \in 1..Len(accepted) : i < j => accepted[i].seq_no < accepted[j].seq_no

\* Events take effect in the order of acceptance, each at most once and none
\* left out ("executes queued events strictly in sequence number order").
ExecutedInOrder ==
  /\ Len(executed) <= Len(accepted)
  /\ \A i \in 1..Len(executed) : executed[i] = accepted[i]

\* The branch of the crank loop for an event numbered below the expected one is
\* dead: no interleaving of enqueues, cranks and failures reaches it.
NoStaleHead == InLoop => HeadEvent.seq_no >= ExpectedSeq

\* Between instructions last_executed_seq is the number of the event executed
\* last (a jump over a gap never outlives the call without the event behind the
\* gap being executed), and the market's copy agrees with it.
CursorIsLastExecuted ==
  Idle => /\ header.last_executed_seq = LastSeq(executed)
          /\ marketSeq = header.last_executed_seq

\* An accepted event whose parameters cannot be parsed stops the queue for
\* good: neither it nor any event behind it is ever executed.
UnparsableBlocksForever ==
  \A i \in 1..Len(accepted) : ~Parsable(accepted[i]) => Len(executed) < i

\* "skipping gaps only after the configured lag window": an event that does not
\* follow its predecessor's number waits max_lag_slots slots in the queue.
GapsWaitForLag ==
  [][(Len(executed') > Len(executed) /\ HeadEvent.seq_no # LastSeq(executed) + 1)
      => slot - HeadEvent.submitted_slot >= MaxLagSlots]_vars

\* What a running crank keeps true: its local cursor is the header's; the cursor
\* is at the event executed last, or right in front of an event behind a gap
\* whose window has passed and that is about to be executed; and the saved
\* header still describes the ring as it was when the call began, because a
\* crank writes no entry.
CallInv ==
  /\ call.last = header.last_executed_seq
  /\ \/ header.last_executed_seq = LastSeq(executed)
     \/ InLoop /\ header.last_executed_seq + 1 = HeadEvent.seq_no /\ GapIsClosed
  /\ RingFrom(call.saved, Len(call.savedExecuted))
  /\ Len(call.savedExecuted) <= Len(executed)
  /\ \A i \in 1..Len(call.savedExecuted) : call.savedExecuted[i] = accepted[i]
  /\ call.saved.last_executed_seq = LastSeq(call.savedExecuted)
  /\ marketSeq = call.saved.last_executed_seq

\* The inductive invariant behind the properties above: they need each other,
\* and a failing crank needs to know what it goes back to (CallInv).
IndInv ==
  /\ TypeOK
  /\ RingHoldsPending
  /\ AcceptedInSequence
  /\ \A i \in 1..Len(accepted) : accepted[i].seq_no > 0
  /\ ExecutedInOrder
  /\ CursorIsLastExecuted
  /\ IF Idle THEN call = NoCall ELSE CallInv

\* The queue implements the log: seen from outside, an enqueue appends one
\* operation, and a crank call executes the next operations or none of them.
Log == INSTANCE SequencedLog WITH
         Operations <- Event,
         log <- accepted,
         executed <- IF Idle THEN executed ELSE call.savedExecuted

ImplementsLog == Log!Spec

-----------------------------------------------------------------------------
(* Liveness.  An instruction that has begun always ends, and time passes.    *)
(* The cranks are permissionless; that somebody keeps calling with the       *)
(* account of the head event's user is an assumption on the world outside.   *)

CrankStep == CrankSkip \/ CrankExecute \/ CrankAbort \/ CrankCommit

HelpfulCrank ==
  \E a \in Accounts : /\ header.count > 0
                      /\ HeadEvent.user \in authority[a]
                      /\ CrankBegin("perp_crank_queued_operations", a, 1)

Fairness == SF_vars(Tick) /\ WF_vars(CrankStep) /\ SF_vars(HelpfulCrank)

FairSpec == Spec /\ Fairness

\* Every accepted event is executed in the end, across gaps, failing cranks and
\* temporary freezes, if the requests can be executed at all and no account
\* stays frozen forever.
AllExecuted ==
  (\A a \in Accounts : []<>operational[a])
    => \A n \in 1..MaxSeq : (Len(accepted) >= n) ~> (Idle /\ Len(executed) >= n)
=============================================================================
