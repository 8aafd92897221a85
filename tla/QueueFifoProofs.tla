--------------------------- MODULE QueueFifoProofs ---------------------------
(***************************************************************************)
(* Proofs about the perp FIFO queue, for every capacity, lag window, batch *)
(* size, set of users, accounts and requests.                              *)
(***************************************************************************)
EXTENDS QueueFifo, TLAPS

\* A slot of the ring: an index of at most twice the capacity wraps once, as in
\* tail_index, next_index and advance_head.
LEMMA Wrap ==
  ASSUME NEW h \in Indices, NEW i \in 0..Capacity
  PROVE  /\ (h + i) % Capacity = IF h + i < Capacity THEN h + i ELSE h + i - Capacity
         /\ (h + i) % Capacity \in Indices
BY QueueAssumption DEF QueueAssumption, Indices

\* advance_head keeps a header a header, and the live entries behind the head
\* keep their slots.
LEMMA AdvanceHead ==
  ASSUME NEW h \in Header, h.count > 0
  PROVE  /\ advance_head(h) \in Header
         /\ advance_head(h).count = h.count - 1
         /\ advance_head(h).last_executed_seq = h.last_executed_seq
         /\ \A i \in 0..(h.count - 2) :
              (advance_head(h).head + i) % Capacity = (h.head + (i + 1)) % Capacity
<1>1. /\ h.head \in Indices /\ h.count \in 1..Capacity
      /\ Capacity \in Nat \ {0}
  BY QueueAssumption DEF QueueAssumption, Header
<1>2. (h.head + 1) % Capacity \in Indices
  BY <1>1, Wrap
<1>3. /\ advance_head(h) \in Header
      /\ advance_head(h).count = h.count - 1
      /\ advance_head(h).last_executed_seq = h.last_executed_seq
      /\ advance_head(h).head = (h.head + 1) % Capacity
  BY <1>1, <1>2 DEF advance_head, Header
<1>4. ASSUME NEW i \in 0..(h.count - 2)
      PROVE  (advance_head(h).head + i) % Capacity = (h.head + (i + 1)) % Capacity
  <2>1. /\ i \in 0..Capacity /\ i + 1 \in 0..Capacity /\ 1 \in 0..Capacity
        /\ i + 1 < Capacity
    BY <1>1
  <2>2. (h.head + 1) % Capacity =
          IF h.head + 1 < Capacity THEN h.head + 1 ELSE h.head + 1 - Capacity
    BY <1>1, <2>1, Wrap
  <2>3. (h.head + (i + 1)) % Capacity =
          IF h.head + (i + 1) < Capacity THEN h.head + (i + 1)
                                         ELSE h.head + (i + 1) - Capacity
    BY <1>1, <2>1, Wrap
  <2>4. (((h.head + 1) % Capacity) + i) % Capacity =
          IF ((h.head + 1) % Capacity) + i < Capacity THEN ((h.head + 1) % Capacity) + i
          ELSE ((h.head + 1) % Capacity) + i - Capacity
    BY <1>2, <2>1, Wrap
  <2> QED
    BY <1>1, <1>3, <2>1, <2>2, <2>3, <2>4 DEF Indices
<1> QED
  BY <1>3, <1>4

-----------------------------------------------------------------------------

\* The queue starts in a state of the invariant: a zeroed queue account.
LEMMA InitInv == Init => IndInv
<1> SUFFICES ASSUME Init PROVE IndInv
  OBVIOUS
<1> USE QueueAssumption DEF QueueAssumption, Init
<1>1. header \in Header /\ ZeroEvent \in Event
  BY DEF ZeroHeader, Header, Indices, Seqs, ZeroEvent, Event, Slots, PerpActions
<1>2. call \in Call
  BY <1>1 DEF NoCall, Call, ZeroHeader, Seqs, Event
<1>3. TypeOK
  BY <1>1, <1>2 DEF TypeOK, Seqs, Slots
<1>4. RingHoldsPending /\ AcceptedInSequence /\ ExecutedInOrder
  BY DEF RingHoldsPending, RingFrom, AcceptedInSequence, ExecutedInOrder, ZeroHeader
<1>5. CursorIsLastExecuted
  BY DEF CursorIsLastExecuted, LastSeq, ZeroHeader
<1>6. Idle
  BY DEF Idle, NoCall
<1> QED
  BY <1>3, <1>4, <1>5, <1>6 DEF IndInv

\* Between instructions tail_seq is the number of the event accepted last.
LEMMA TailSeq ==
  ASSUME IndInv, Idle
  PROVE  \A i \in 1..Len(accepted) : accepted[i].seq_no <= tail_seq
<1> USE QueueAssumption DEF QueueAssumption
<1>1. /\ header \in Header /\ accepted \in Seq(Event) /\ executed \in Seq(Event)
      /\ RingFrom(header, Len(executed)) /\ AcceptedInSequence /\ ExecutedInOrder
      /\ header.last_executed_seq = LastSeq(executed)
  BY DEF IndInv, TypeOK, RingHoldsPending, CursorIsLastExecuted
<1>2. \A i \in 1..Len(accepted) : accepted[i].seq_no \in Nat
  <2>1. \A i \in 1..Len(accepted) : accepted[i] \in Event
    BY <1>1
  <2> QED
    BY <2>1 DEF Event, Seqs
<1>3. CASE header.count = 0
  <2>1. Len(accepted) = Len(executed)
    BY <1>1, <1>3 DEF RingFrom
  <2>2. accepted # <<>> => tail_seq = accepted[Len(accepted)].seq_no
    BY <1>1, <1>3, <2>1 DEF tail_seq, LastSeq, ExecutedInOrder
  <2> QED
    BY <1>1, <1>2, <2>2 DEF AcceptedInSequence
<1>4. CASE header.count # 0
  <2>1. header.count \in 1..Capacity
    BY <1>1, <1>4 DEF Header
  <2>2. entries[(header.head + (header.count - 1)) % Capacity] = accepted[Len(accepted)]
    BY <1>1, <2>1 DEF RingFrom
  <2>3. header.head + header.count - 1 = header.head + (header.count - 1)
    BY <1>1, <2>1 DEF Header, Indices
  <2>4. tail_seq = accepted[Len(accepted)].seq_no
    BY <1>4, <2>2, <2>3 DEF tail_seq, tail_index
  <2> QED
    BY <1>1, <1>2, <2>4 DEF AcceptedInSequence
<1> QED
  BY <1>3, <1>4

-----------------------------------------------------------------------------
(* One lemma per action *)

\* Both enqueue instructions preserve the invariant: the event goes to a free
\* slot and its number is above all accepted ones.
LEMMA PushInv ==
  ASSUME IndInv, Idle, NEW r \in Requests, r.event_type \in PerpActions,
         NEW seq_no \in Seqs, PushEvent(r, seq_no)
  PROVE  IndInv'
<1> USE QueueAssumption DEF QueueAssumption
<1> DEFINE event == [seq_no |-> seq_no, submitted_slot |-> slot, user |-> r.user,
                     event_type |-> r.event_type, params_ok |-> r.params_ok]
<1>1. /\ header \in Header /\ entries \in [Indices -> Event]
      /\ accepted \in Seq(Event) /\ executed \in Seq(Event) /\ slot \in Slots
      /\ TypeOK /\ call = NoCall
      /\ RingFrom(header, Len(executed)) /\ AcceptedInSequence /\ ExecutedInOrder
      /\ CursorIsLastExecuted
      /\ \A i \in 1..Len(accepted) : accepted[i].seq_no > 0
  BY DEF IndInv, TypeOK, RingHoldsPending
<1>2. /\ ~is_full /\ seq_no > tail_seq
      /\ entries' = [entries EXCEPT ![next_index] = event]
      /\ header' = [header EXCEPT !.count = header.count + 1]
      /\ accepted' = Append(accepted, event)
      /\ UNCHANGED <<marketSeq, slot, authority, operational, call, executed>>
  BY DEF PushEvent
<1>3. event \in Event
  BY <1>1 DEF Event, Request
<1>4. header.head \in Indices /\ header.count \in 0..(Capacity - 1)
  BY <1>1, <1>2 DEF Header, is_full
<1>5. /\ header' \in Header /\ header'.head = header.head
      /\ header'.count = header.count + 1
      /\ header'.last_executed_seq = header.last_executed_seq
  <2>1. header.count + 1 \in 0..Capacity
    BY <1>4
  <2> QED
    BY <1>1, <1>2, <2>1, Zenon DEF Header
<1>6. /\ Len(accepted') = Len(accepted) + 1
      /\ accepted'[Len(accepted) + 1] = event
      /\ \A i \in 1..Len(accepted) : accepted'[i] = accepted[i]
      /\ accepted' \in Seq(Event)
  BY <1>1, <1>2, <1>3
<1>7. TypeOK'
  <2>1. next_index \in Indices
    BY <1>4, Wrap DEF next_index
  <2>2. entries' \in [Indices -> Event]
    BY <1>1, <1>2, <1>3, <2>1
  <2> QED
    BY <1>1, <1>2, <1>5, <1>6, <2>2 DEF TypeOK
<1>8. RingHoldsPending'
  <2>1. Len(accepted') = Len(executed') + header'.count
    BY <1>1, <1>2, <1>4, <1>5, <1>6 DEF RingFrom
  <2>2. ASSUME NEW i \in 0..(header'.count - 1)
        PROVE  entries'[(header'.head + i) % Capacity] = accepted'[Len(executed') + i + 1]
    <3>1. /\ (header.head + i) % Capacity \in Indices
          /\ (header.head + i) % Capacity =
               IF header.head + i < Capacity THEN header.head + i
                                             ELSE header.head + i - Capacity
          /\ next_index = IF header.head + header.count < Capacity
                          THEN header.head + header.count
                          ELSE header.head + header.count - Capacity
      <4>1. header.head \in Indices /\ i \in 0..Capacity /\ header.count \in 0..Capacity
        BY <1>4, <1>5, QueueAssumption DEF QueueAssumption
      <4> QED
        BY <4>1, Wrap, Zenon DEF next_index
    <3>2. CASE i = header.count
      BY <1>1, <1>2, <1>4, <1>5, <1>6, <3>1, <3>2, Zenon DEF RingFrom, next_index
    <3>3. CASE i # header.count
      <4>1. i \in 0..(header.count - 1)
        BY <1>4, <1>5, <3>3
      <4>2. (header.head + i) % Capacity # next_index
        BY <1>4, <3>1, <4>1 DEF Indices
      <4>3. entries'[(header.head + i) % Capacity] = entries[(header.head + i) % Capacity]
        BY <1>1, <1>2, <3>1, <4>2
      <4>4. entries[(header.head + i) % Capacity] = accepted[Len(executed) + i + 1]
        BY <1>1, <4>1 DEF RingFrom
      <4>5. Len(executed) + i + 1 \in 1..Len(accepted)
        BY <1>1, <1>4, <4>1 DEF RingFrom
      <4> QED
        BY <1>2, <1>5, <1>6, <4>3, <4>4, <4>5
    <3> QED
      BY <3>2, <3>3
  <2> QED
    BY <2>1, <2>2 DEF RingHoldsPending, RingFrom
<1>9. AcceptedInSequence' /\ \A i \in 1..Len(accepted') : accepted'[i].seq_no > 0
  <2>1. tail_seq \in Nat
    <3>1. header.count # 0 => tail_index \in Indices
      <4>1. header.head + header.count - 1 = header.head + (header.count - 1)
        BY <1>4 DEF Indices
      <4>2. header.count # 0 => header.count - 1 \in 0..Capacity
        BY <1>4, QueueAssumption DEF QueueAssumption
      <4> QED
        BY <1>4, <4>1, <4>2, Wrap, Zenon DEF tail_index
    <3> QED
      BY <1>1, <3>1 DEF tail_seq, Header, Event, Seqs
  <2>2. \A i \in 1..Len(accepted) : accepted[i].seq_no \in Nat /\ accepted[i].seq_no < seq_no
    <3>1. \A i \in 1..Len(accepted) : accepted[i] \in Event
      BY <1>1
    <3>2. \A i \in 1..Len(accepted) : accepted[i].seq_no \in Nat
      BY <3>1 DEF Event, Seqs
    <3> QED
      BY <1>2, <2>1, <3>2, TailSeq DEF Seqs
  <2>3. seq_no > 0
    BY <1>2, <2>1 DEF Seqs
  <2>4. /\ Len(accepted) \in Nat
        /\ accepted'[Len(accepted) + 1].seq_no = seq_no
        /\ \A i \in 1..Len(accepted) : accepted'[i].seq_no = accepted[i].seq_no
    BY <1>1, <1>6
  <2>5. AcceptedInSequence'
    <3>1. SUFFICES ASSUME NEW i \in 1..(Len(accepted) + 1), NEW j \in 1..(Len(accepted) + 1),
                          i < j
                   PROVE  accepted'[i].seq_no < accepted'[j].seq_no
      BY <1>6 DEF AcceptedInSequence
    <3>2. i \in 1..Len(accepted)
      BY <2>4, <3>1
    <3>3. CASE j = Len(accepted) + 1
      BY <2>2, <2>4, <3>2, <3>3
    <3>4. CASE j \in 1..Len(accepted)
      BY <1>1, <2>4, <3>1, <3>2, <3>4 DEF AcceptedInSequence
    <3> QED
      BY <2>4, <3>3, <3>4
  <2>6. ASSUME NEW i \in 1..Len(accepted') PROVE accepted'[i].seq_no > 0
    BY <1>1, <1>6, <2>3, <2>4
  <2> QED
    BY <2>5, <2>6
<1>10. ExecutedInOrder'
  BY <1>1, <1>2, <1>6 DEF ExecutedInOrder
<1>11. CursorIsLastExecuted' /\ Idle' /\ call' = NoCall
  BY <1>1, <1>2, <1>5 DEF CursorIsLastExecuted, Idle, LastSeq, NoCall
<1>12. NoCall' = NoCall
  BY DEF NoCall, ZeroHeader
<1> QED
  BY <1>7, <1>8, <1>9, <1>10, <1>11, <1>12 DEF IndInv

\* The facts about the next live event that the crank loop relies on: it is the
\* oldest accepted event that has not been executed, and its number is above
\* the cursor, so the saturating addition is exact and the event is not stale.
LEMMA HeadFacts ==
  ASSUME IndInv, InLoop
  PROVE  /\ Len(executed) + 1 \in 1..Len(accepted)
         /\ HeadEvent = accepted[Len(executed) + 1]
         /\ HeadEvent \in Event
         /\ HeadEvent.seq_no > LastSeq(executed)
         /\ HeadEvent.seq_no > header.last_executed_seq
         /\ ExpectedSeq = call.last + 1
         /\ call.last = header.last_executed_seq
         /\ CallInv
<1> USE QueueAssumption DEF QueueAssumption
<1>1. /\ header \in Header /\ accepted \in Seq(Event) /\ executed \in Seq(Event)
      /\ RingFrom(header, Len(executed)) /\ AcceptedInSequence /\ ExecutedInOrder
      /\ \A i \in 1..Len(accepted) : accepted[i].seq_no > 0
      /\ ~Idle /\ CallInv /\ header.count > 0
  BY DEF IndInv, TypeOK, RingHoldsPending, InLoop
<1>2. header.count \in 1..Capacity /\ header.head \in Indices
  BY <1>1 DEF Header
<1>3. Len(executed) + 1 \in 1..Len(accepted)
  BY <1>1, <1>2 DEF RingFrom
<1>4. HeadEvent = accepted[Len(executed) + 1]
  <2>1. entries[(header.head + 0) % Capacity] = accepted[Len(executed) + 0 + 1]
    BY <1>1, <1>2 DEF RingFrom
  <2>2. (header.head + 0) % Capacity = header.head
    BY <1>2, Wrap DEF Indices
  <2> QED
    BY <1>3, <2>1, <2>2 DEF HeadEvent
<1>5. HeadEvent \in Event
  BY <1>1, <1>3, <1>4
<1>6. HeadEvent.seq_no \in Nat /\ HeadEvent.seq_no <= MaxSeq
  BY <1>5 DEF Event, Seqs
<1>7. HeadEvent.seq_no > LastSeq(executed) /\ LastSeq(executed) \in Nat
  <2>1. CASE executed = <<>>
    BY <1>1, <1>3, <1>4, <2>1 DEF LastSeq
  <2>2. CASE executed # <<>>
    <3>1. /\ Len(executed) \in 1..Len(accepted)
          /\ LastSeq(executed) = accepted[Len(executed)].seq_no
      BY <1>1, <2>2 DEF LastSeq, ExecutedInOrder
    <3>2. accepted[Len(executed)] \in Event
      BY <1>1, <3>1
    <3>3. accepted[Len(executed)].seq_no < accepted[Len(executed) + 1].seq_no
      BY <1>1, <1>3, <3>1 DEF AcceptedInSequence
    <3> QED
      BY <1>4, <1>6, <3>1, <3>2, <3>3 DEF Event, Seqs
  <2> QED
    BY <2>1, <2>2
<1>8. header.last_executed_seq \in Nat
  BY <1>1 DEF Header, Seqs
<1>9. HeadEvent.seq_no > header.last_executed_seq
  BY <1>1, <1>6, <1>7, <1>8 DEF CallInv
<1>10. call.last = header.last_executed_seq
  BY <1>1 DEF CallInv
<1>11. ExpectedSeq = call.last + 1
  BY <1>6, <1>8, <1>9, <1>10 DEF ExpectedSeq, saturating_add_one
<1> QED
  BY <1>1, <1>3, <1>4, <1>5, <1>7, <1>9, <1>10, <1>11

\* CrankBegin remembers the header and what had been executed.
LEMMA BeginInv ==
  ASSUME IndInv, NEW instr \in Cranks, NEW a \in Accounts, NEW max \in Nat,
         CrankBegin(instr, a, max)
  PROVE  IndInv'
<1> USE QueueAssumption DEF QueueAssumption
<1>1. /\ TypeOK /\ RingHoldsPending /\ AcceptedInSequence /\ ExecutedInOrder
      /\ CursorIsLastExecuted /\ Idle
      /\ \A i \in 1..Len(accepted) : accepted[i].seq_no > 0
  BY DEF IndInv, CrankBegin
<1>2. /\ header' = header /\ entries' = entries /\ marketSeq' = marketSeq /\ slot' = slot
      /\ authority' = authority /\ operational' = operational
      /\ accepted' = accepted /\ executed' = executed
  BY DEF CrankBegin
<1>3. /\ call'.instr = instr /\ call'.last = header.last_executed_seq
      /\ call'.saved = header /\ call'.savedExecuted = executed
      /\ call' \in Call
  BY <1>1 DEF CrankBegin, Call, TypeOK, Header
<1>4. ~Idle'
  BY <1>3 DEF Idle, Cranks
<1>5. TypeOK'
  BY <1>1, <1>2, <1>3 DEF TypeOK
<1>6. CallInv'
  <2>1. RingFrom(header, Len(executed))'
    BY <1>1, <1>2 DEF RingHoldsPending, RingFrom
  <2>2. RingFrom(call.saved, Len(call.savedExecuted))'
    BY <1>2, <1>3, <2>1 DEF RingFrom
  <2>3. /\ call'.last = header'.last_executed_seq
        /\ header'.last_executed_seq = LastSeq(executed)'
        /\ call'.saved.last_executed_seq = LastSeq(call.savedExecuted)'
        /\ marketSeq' = call'.saved.last_executed_seq
    BY <1>1, <1>2, <1>3 DEF CursorIsLastExecuted, LastSeq
  <2>4. /\ Len(call'.savedExecuted) <= Len(executed')
        /\ \A i \in 1..Len(call'.savedExecuted) : call'.savedExecuted[i] = accepted'[i]
    BY <1>1, <1>2, <1>3 DEF ExecutedInOrder, TypeOK
  <2> QED
    BY <2>2, <2>3, <2>4 DEF CallInv
<1> QED
  BY <1>1, <1>2, <1>4, <1>5, <1>6 DEF IndInv, RingHoldsPending, RingFrom,
     AcceptedInSequence, ExecutedInOrder, CursorIsLastExecuted, Idle

\* CrankSkip: only the jump over a gap is possible, and it stops in front of
\* the event behind the gap.
LEMMA SkipInv == ASSUME IndInv, CrankSkip PROVE IndInv'
<1> USE QueueAssumption DEF QueueAssumption
<1>1. /\ TypeOK /\ RingHoldsPending /\ AcceptedInSequence /\ ExecutedInOrder
      /\ \A i \in 1..Len(accepted) : accepted[i].seq_no > 0
      /\ InLoop /\ ~Idle
  BY DEF IndInv, CrankSkip, InLoop
<1>2. /\ HeadEvent \in Event /\ HeadEvent.seq_no > header.last_executed_seq
      /\ ExpectedSeq = call.last + 1 /\ call.last = header.last_executed_seq /\ CallInv
  BY <1>1, HeadFacts
<1>3. /\ HeadEvent.seq_no \in Nat /\ header.last_executed_seq \in Nat
      /\ HeadEvent.seq_no - 1 \in Seqs
  BY <1>1, <1>2 DEF TypeOK, Event, Header, Seqs
<1>4. HeadEvent.seq_no > ExpectedSeq
  BY <1>2, <1>3 DEF CrankSkip
<1>5. /\ call' = [call EXCEPT !.last = HeadEvent.seq_no - 1]
      /\ header' = [header EXCEPT !.last_executed_seq = HeadEvent.seq_no - 1]
      /\ entries' = entries /\ marketSeq' = marketSeq /\ slot' = slot
      /\ authority' = authority /\ operational' = operational
      /\ accepted' = accepted /\ executed' = executed
  BY <1>4 DEF CrankSkip
<1>6. /\ header' \in Header /\ header'.head = header.head /\ header'.count = header.count
      /\ header'.last_executed_seq = HeadEvent.seq_no - 1
  BY <1>1, <1>3, <1>5, Zenon DEF TypeOK, Header
<1>7. /\ call' \in Call /\ call'.last = HeadEvent.seq_no - 1
      /\ call'.instr = call.instr /\ call'.processed = call.processed /\ call'.max = call.max
      /\ call'.saved = call.saved /\ call'.savedExecuted = call.savedExecuted
  BY <1>1, <1>3, <1>5, Zenon DEF TypeOK, Call
<1>8. TypeOK'
  BY <1>1, <1>5, <1>6, <1>7 DEF TypeOK
<1>9. ~Idle' /\ InLoop' /\ HeadEvent' = HeadEvent
  BY <1>1, <1>5, <1>6, <1>7 DEF Idle, InLoop, HeadEvent
<1>10. GapIsClosed'
  BY <1>4, <1>5, <1>9 DEF CrankSkip, GapIsClosed, Lag
<1>11. CallInv'
  BY <1>2, <1>3, <1>5, <1>6, <1>7, <1>9, <1>10 DEF CallInv, RingFrom, LastSeq
<1> QED
  BY <1>1, <1>5, <1>6, <1>8, <1>9, <1>11 DEF IndInv, RingHoldsPending, RingFrom,
     AcceptedInSequence, ExecutedInOrder, CursorIsLastExecuted

\* CrankExecute: the event that takes effect is the next accepted one.
LEMMA ExecuteInv == ASSUME IndInv, CrankExecute PROVE IndInv'
<1> USE QueueAssumption DEF QueueAssumption
<1>1. /\ TypeOK /\ RingHoldsPending /\ AcceptedInSequence /\ ExecutedInOrder
      /\ \A i \in 1..Len(accepted) : accepted[i].seq_no > 0
      /\ InLoop /\ ~Idle
  BY DEF IndInv, CrankExecute, ReadyHead, InLoop
<1>2. /\ Len(executed) + 1 \in 1..Len(accepted)
      /\ HeadEvent = accepted[Len(executed) + 1]
      /\ HeadEvent \in Event /\ CallInv
  BY <1>1, HeadFacts
<1>3. /\ executed' = Append(executed, HeadEvent)
      /\ header' = [advance_head(header) EXCEPT !.last_executed_seq = HeadEvent.seq_no]
      /\ call' = [call EXCEPT !.last = HeadEvent.seq_no, !.processed = call.processed + 1]
      /\ entries' = entries /\ marketSeq' = marketSeq /\ slot' = slot
      /\ authority' = authority /\ operational' = operational /\ accepted' = accepted
  BY DEF CrankExecute
<1>4. /\ header \in Header /\ header.count > 0 /\ accepted \in Seq(Event)
      /\ executed \in Seq(Event) /\ HeadEvent.seq_no \in Seqs
  BY <1>1, <1>2 DEF TypeOK, InLoop, Event
<1>5. /\ advance_head(header) \in Header
      /\ advance_head(header).count = header.count - 1
      /\ \A i \in 0..(header.count - 2) :
           (advance_head(header).head + i) % Capacity = (header.head + (i + 1)) % Capacity
  BY <1>4, AdvanceHead
<1>6. /\ header' \in Header /\ header'.count = header.count - 1
      /\ header'.head = advance_head(header).head
      /\ header'.last_executed_seq = HeadEvent.seq_no
  BY <1>3, <1>4, <1>5, Zenon DEF Header
<1>7. /\ call' \in Call /\ call'.last = HeadEvent.seq_no /\ call'.instr = call.instr
      /\ call'.saved = call.saved /\ call'.savedExecuted = call.savedExecuted
  <2>1. call.processed + 1 \in Nat /\ call \in Call
    BY <1>1 DEF TypeOK, Call
  <2> QED
    BY <1>3, <1>4, <2>1, Zenon DEF Call
<1>8. /\ executed' \in Seq(Event) /\ Len(executed') = Len(executed) + 1
      /\ executed'[Len(executed) + 1] = HeadEvent
      /\ \A i \in 1..Len(executed) : executed'[i] = executed[i]
  BY <1>2, <1>3, <1>4
<1>9. TypeOK'
  BY <1>1, <1>3, <1>6, <1>7, <1>8 DEF TypeOK
<1>10. RingHoldsPending'
  <2>1. header.count \in Nat /\ Len(executed) \in Nat
    BY <1>4 DEF Header
  <2>2. Len(accepted') = Len(executed') + header'.count
    BY <1>1, <1>3, <1>6, <1>8, <2>1 DEF RingHoldsPending, RingFrom
  <2>3. ASSUME NEW i \in 0..(header'.count - 1)
        PROVE  entries'[(header'.head + i) % Capacity] = accepted'[Len(executed') + i + 1]
    <3>1. i \in 0..(header.count - 2) /\ i + 1 \in 0..(header.count - 1)
      BY <1>6, <2>1
    <3>2. (header'.head + i) % Capacity = (header.head + (i + 1)) % Capacity
      BY <1>5, <1>6, <3>1
    <3>3. entries[(header.head + (i + 1)) % Capacity] = accepted[Len(executed) + (i + 1) + 1]
      BY <1>1, <3>1 DEF RingHoldsPending, RingFrom
    <3>4. Len(executed') + i + 1 = Len(executed) + (i + 1) + 1
      BY <1>8, <2>1
    <3> QED
      BY <1>3, <3>2, <3>3, <3>4
  <2> QED
    BY <2>2, <2>3 DEF RingHoldsPending, RingFrom
<1>11. ExecutedInOrder'
  BY <1>1, <1>2, <1>3, <1>4, <1>8 DEF ExecutedInOrder
<1>12. ~Idle'
  BY <1>1, <1>7 DEF Idle
<1>13. LastSeq(executed') = HeadEvent.seq_no
  BY <1>4, <1>8 DEF LastSeq
<1>14. CallInv'
  <2>1. Len(call'.savedExecuted) <= Len(executed')
    BY <1>1, <1>2, <1>4, <1>7, <1>8 DEF CallInv, TypeOK, Call
  <2> QED
    BY <1>2, <1>3, <1>6, <1>7, <1>13, <2>1 DEF CallInv, RingFrom, LastSeq
<1> QED
  BY <1>1, <1>3, <1>9, <1>10, <1>11, <1>12, <1>14 DEF IndInv,
     AcceptedInSequence, CursorIsLastExecuted

\* CrankAbort goes back to where the call began.
LEMMA AbortInv == ASSUME IndInv, CrankAbort PROVE IndInv'
<1> USE QueueAssumption DEF QueueAssumption
<1>1. /\ TypeOK /\ AcceptedInSequence /\ ExecutedInOrder /\ CallInv
      /\ \A i \in 1..Len(accepted) : accepted[i].seq_no > 0
  BY DEF IndInv, CrankAbort, ReadyHead, InLoop
<1>2. /\ header' = call.saved /\ executed' = call.savedExecuted /\ call' = NoCall
      /\ entries' = entries /\ marketSeq' = marketSeq /\ slot' = slot
      /\ authority' = authority /\ operational' = operational /\ accepted' = accepted
  BY DEF CrankAbort
<1>3. Idle' /\ NoCall' = NoCall
  BY <1>2 DEF Idle, NoCall, ZeroHeader
<1>4. call' \in Call
  BY <1>2 DEF NoCall, Call, ZeroHeader, Header, Seqs, Indices, Event
<1>5. TypeOK'
  BY <1>1, <1>2, <1>4 DEF TypeOK, Call
<1>6. RingHoldsPending'
  BY <1>1, <1>2 DEF CallInv, RingHoldsPending, RingFrom
<1>7. ExecutedInOrder'
  BY <1>1, <1>2 DEF CallInv, ExecutedInOrder, TypeOK, Call
<1>8. CursorIsLastExecuted'
  BY <1>1, <1>2 DEF CallInv, CursorIsLastExecuted, LastSeq
<1> QED
  BY <1>1, <1>2, <1>3, <1>5, <1>6, <1>7, <1>8 DEF IndInv, AcceptedInSequence

\* CrankCommit is possible only where the cursor is the last executed event.
LEMMA CommitInv == ASSUME IndInv, CrankCommit PROVE IndInv'
<1> USE QueueAssumption DEF QueueAssumption
<1>1. /\ TypeOK /\ RingHoldsPending /\ AcceptedInSequence /\ ExecutedInOrder /\ CallInv
      /\ \A i \in 1..Len(accepted) : accepted[i].seq_no > 0
  BY DEF IndInv, CrankCommit
<1>2. /\ marketSeq' = header.last_executed_seq /\ call' = NoCall
      /\ header' = header /\ entries' = entries /\ slot' = slot
      /\ authority' = authority /\ operational' = operational
      /\ accepted' = accepted /\ executed' = executed
  BY DEF CrankCommit
<1>3. header.last_executed_seq = LastSeq(executed)
  <2>1. CASE InLoop
    <3>1. HeadEvent.seq_no > ExpectedSeq
      BY <2>1 DEF CrankCommit
    <3>2. /\ ExpectedSeq = header.last_executed_seq + 1
          /\ HeadEvent \in Event
      BY <2>1, HeadFacts
    <3> QED
      BY <1>1, <3>1, <3>2 DEF CallInv, Event, Seqs, TypeOK, Header
  <2>2. CASE ~InLoop
    BY <1>1, <2>2 DEF CallInv
  <2> QED
    BY <2>1, <2>2
<1>4. Idle' /\ NoCall' = NoCall
  BY <1>2 DEF Idle, NoCall, ZeroHeader
<1>5. call' \in Call
  BY <1>2 DEF NoCall, Call, ZeroHeader, Header, Seqs, Indices, Event
<1>6. TypeOK'
  BY <1>1, <1>2, <1>5 DEF TypeOK, Header
<1>7. CursorIsLastExecuted'
  BY <1>2, <1>3 DEF CursorIsLastExecuted, LastSeq
<1> QED
  BY <1>1, <1>2, <1>4, <1>6, <1>7 DEF IndInv, AcceptedInSequence, ExecutedInOrder,
     RingHoldsPending, RingFrom

\* The environment changes neither the queue nor a running call.
LEMMA EnvironmentInv == ASSUME IndInv, Environment PROVE IndInv'
<1> USE QueueAssumption DEF QueueAssumption
<1>1. /\ TypeOK /\ Idle
      /\ header' = header /\ entries' = entries /\ marketSeq' = marketSeq
      /\ call' = call /\ accepted' = accepted /\ executed' = executed
  BY Zenon DEF IndInv, Environment, Tick, ChangeDelegates, ToggleFreeze
<1>2. slot' \in Slots
  BY <1>1 DEF TypeOK, Slots, Environment, Tick, ChangeDelegates, ToggleFreeze
<1>3. authority' \in [Accounts -> SUBSET Users]
  <2>1. ASSUME NEW a \in Accounts, NEW d \in Users \cup {DefaultKey},
               NEW t \in Users \cup {DefaultKey}, ChangeDelegates(a, d, t)
        PROVE  authority' \in [Accounts -> SUBSET Users]
    <3>1. {Owner[a], d, t} \ {DefaultKey} \subseteq Users
      OBVIOUS
    <3> QED
      BY <1>1, <2>1, <3>1 DEF ChangeDelegates, TypeOK
  <2>2. ASSUME authority' = authority PROVE authority' \in [Accounts -> SUBSET Users]
    BY <1>1, <2>2 DEF TypeOK
  <2> QED
    BY <2>1, <2>2 DEF Environment, Tick, ToggleFreeze
<1>4. operational' \in [Accounts -> BOOLEAN]
  <2>1. ASSUME NEW a \in Accounts, ToggleFreeze(a)
        PROVE  operational' \in [Accounts -> BOOLEAN]
    BY <1>1, <2>1 DEF TypeOK, ToggleFreeze
  <2>2. ASSUME operational' = operational PROVE operational' \in [Accounts -> BOOLEAN]
    BY <1>1, <2>2 DEF TypeOK
  <2> QED
    BY <2>1, <2>2 DEF Environment, Tick, ChangeDelegates
<1>5. TypeOK'
  BY <1>1, <1>2, <1>3, <1>4 DEF TypeOK
<1> QED
  BY <1>1, <1>5 DEF IndInv, Idle, NoCall, ZeroHeader, AcceptedInSequence, ExecutedInOrder,
     RingHoldsPending, RingFrom, CursorIsLastExecuted, LastSeq

-----------------------------------------------------------------------------
(* The invariants *)

\* Every step of the queue, the cranks and their environment preserves the
\* inductive invariant.
LEMMA StepInv == IndInv /\ [Next]_vars => IndInv'
<1> SUFFICES ASSUME IndInv, [Next]_vars PROVE IndInv'
  OBVIOUS
<1>1. CASE Enqueue
  <2>1. PICK r \in Requests, seq_no \in Seqs :
          \/ enqueue_perp_event(r, seq_no)
          \/ \E e1, e2 \in Slots : perp_enqueue_operation(r, seq_no, e1, e2)
    BY <1>1 DEF Enqueue
  <2>2. Idle /\ r.event_type \in PerpActions /\ PushEvent(r, seq_no)
    BY <2>1 DEF enqueue_perp_event, perp_enqueue_operation
  <2> QED
    BY <2>2, PushInv
<1>2. CASE Crank
  <2>1. ASSUME NEW instr \in Cranks, NEW a \in Accounts, NEW max \in 0..(MaxQueuedOps + 1),
               CrankBegin(instr, a, max)
        PROVE  IndInv'
    <3>1. max \in Nat
      BY QueueAssumption DEF QueueAssumption
    <3> QED
      BY <2>1, <3>1, BeginInv
  <2> QED
    BY <1>2, <2>1, SkipInv, ExecuteInv, AbortInv, CommitInv DEF Crank
<1>3. CASE Environment
  BY <1>3, EnvironmentInv
<1>4. CASE UNCHANGED vars
  BY <1>4, Zenon DEF vars, IndInv, TypeOK, RingHoldsPending, RingFrom, AcceptedInSequence,
     ExecutedInOrder, CursorIsLastExecuted, LastSeq, Idle, NoCall, ZeroHeader, CallInv,
     InLoop, HeadEvent, GapIsClosed, Lag
<1> QED
  BY <1>1, <1>2, <1>3, <1>4 DEF Next

\* The inductive invariant holds in every reachable state of the queue.
THEOREM Invariance == Spec => []IndInv
BY InitInv, StepInv, PTL DEF Spec

\* The head, the count and the cursors of the queue always have their types: no
\* index leaves the ring.
THEOREM TypeCorrect == Spec => []TypeOK
<1>1. IndInv => TypeOK
  BY DEF IndInv
<1> QED
  BY <1>1, Invariance, PTL

\* The ring of queue_fifo.rs loses, repeats and overwrites no pending event.
THEOREM RingIsSafe == Spec => []RingHoldsPending
<1>1. IndInv => RingHoldsPending
  BY DEF IndInv
<1> QED
  BY <1>1, Invariance, PTL

\* The enqueue instructions accept strictly increasing sequence numbers.
THEOREM AcceptanceIsOrdered == Spec => []AcceptedInSequence
<1>1. IndInv => AcceptedInSequence
  BY DEF IndInv
<1> QED
  BY <1>1, Invariance, PTL

\* The cranks execute the accepted events in order, each once.
THEOREM ExecutionIsOrdered == Spec => []ExecutedInOrder
<1>1. IndInv => ExecutedInOrder
  BY DEF IndInv
<1> QED
  BY <1>1, Invariance, PTL

\* The stale-event branch of the crank loop is unreachable.
THEOREM StaleBranchIsDead == Spec => []NoStaleHead
<1>1. IndInv => NoStaleHead
  <2> SUFFICES ASSUME IndInv, InLoop PROVE HeadEvent.seq_no >= ExpectedSeq
    BY DEF NoStaleHead
  <2>1. /\ HeadEvent \in Event /\ HeadEvent.seq_no > header.last_executed_seq
        /\ ExpectedSeq = header.last_executed_seq + 1
    BY HeadFacts
  <2>2. header.last_executed_seq \in Seqs
    BY DEF IndInv, TypeOK, Header
  <2> QED
    BY <2>1, <2>2 DEF Event, Seqs
<1> QED
  BY <1>1, Invariance, PTL

\* Between instructions the header's cursor and the market's copy of it are the
\* number of the event executed last.
THEOREM CursorIsExact == Spec => []CursorIsLastExecuted
<1>1. IndInv => CursorIsLastExecuted
  BY DEF IndInv
<1> QED
  BY <1>1, Invariance, PTL

\* An event that dispatch cannot parse is never executed and never passed.
THEOREM UnparsableBlocks == Spec => []UnparsableBlocksForever
<1>1. Init => UnparsableBlocksForever
  BY DEF Init, UnparsableBlocksForever
<1>2. IndInv /\ UnparsableBlocksForever /\ [Next]_vars => UnparsableBlocksForever'
  <2> SUFFICES ASSUME IndInv, UnparsableBlocksForever, [Next]_vars
               PROVE  UnparsableBlocksForever'
    OBVIOUS
  <2>1. accepted \in Seq(Event) /\ executed \in Seq(Event) /\ Len(executed) <= Len(accepted)
    BY DEF IndInv, TypeOK, ExecutedInOrder
  <2>2. CASE Enqueue
    <3>1. PICK e : accepted' = Append(accepted, e) /\ executed' = executed
      BY <2>2 DEF Enqueue, enqueue_perp_event, perp_enqueue_operation, PushEvent
    <3>2. Len(accepted') = Len(accepted) + 1 /\ \A i \in 1..Len(accepted) : accepted'[i] = accepted[i]
      BY <2>1, <3>1
    <3> QED
      BY <2>1, <3>1, <3>2 DEF UnparsableBlocksForever
  <2>3. CASE CrankExecute
    <3>1. /\ HeadEvent = accepted[Len(executed) + 1] /\ Parsable(HeadEvent)
          /\ executed' = Append(executed, HeadEvent) /\ accepted' = accepted
      BY <2>3, HeadFacts DEF CrankExecute, ReadyHead, Dispatchable
    <3>2. Len(executed') = Len(executed) + 1
      BY <2>1, <3>1
    <3> QED
      BY <2>1, <3>1, <3>2 DEF UnparsableBlocksForever
  <2>4. CASE CrankAbort
    <3>1. /\ executed' = call.savedExecuted /\ accepted' = accepted
          /\ Len(call.savedExecuted) <= Len(executed) /\ call.savedExecuted \in Seq(Event)
      BY <2>4 DEF CrankAbort, ReadyHead, InLoop, IndInv, CallInv, TypeOK, Call
    <3> QED
      BY <2>1, <3>1 DEF UnparsableBlocksForever
  <2>5. CASE UNCHANGED <<accepted, executed>>
    BY <2>5 DEF UnparsableBlocksForever
  <2> QED
    BY <2>2, <2>3, <2>4, <2>5 DEF Next, Crank, CrankBegin, CrankSkip, CrankCommit,
       Environment, Tick, ChangeDelegates, ToggleFreeze, vars
<1> QED
  BY <1>1, <1>2, Invariance, PTL DEF Spec

\* Only an event that has waited for the lag window is executed across a gap.
THEOREM GapsWait == Spec => GapsWaitForLag
<1>1. IndInv /\ [Next]_vars =>
        [(Len(executed') > Len(executed) /\ HeadEvent.seq_no # LastSeq(executed) + 1)
           => slot - HeadEvent.submitted_slot >= MaxLagSlots]_vars
  <2> SUFFICES ASSUME IndInv, Next, Len(executed') > Len(executed),
                      HeadEvent.seq_no # LastSeq(executed) + 1
               PROVE  slot - HeadEvent.submitted_slot >= MaxLagSlots
    BY DEF vars
  <2>1. executed \in Seq(Event) /\ Len(executed) \in Nat
    BY DEF IndInv, TypeOK
  <2>2. CASE CrankExecute
    <3>1. InLoop /\ HeadEvent.seq_no = ExpectedSeq
      BY <2>2 DEF CrankExecute, ReadyHead
    <3>2. CallInv /\ ExpectedSeq = header.last_executed_seq + 1
      BY <3>1, HeadFacts
    <3> QED
      BY <3>1, <3>2 DEF CallInv, GapIsClosed, Lag
  <2>3. CASE CrankAbort
    <3>1. /\ executed' = call.savedExecuted /\ call.savedExecuted \in Seq(Event)
          /\ Len(call.savedExecuted) <= Len(executed)
      BY <2>3 DEF CrankAbort, ReadyHead, InLoop, IndInv, CallInv, TypeOK, Call
    <3> QED
      BY <2>1, <3>1
  <2>4. CASE executed' = executed
    BY <2>1, <2>4
  <2> QED
    BY <2>2, <2>3, <2>4, Zenon DEF Next, Enqueue, enqueue_perp_event, perp_enqueue_operation,
       PushEvent, Crank, CrankBegin, CrankSkip, CrankCommit,
       Environment, Tick, ChangeDelegates, ToggleFreeze
<1> QED
  BY <1>1, Invariance, PTL DEF Spec, GapsWaitForLag

-----------------------------------------------------------------------------
(* Refinement *)

\* What has been executed is a prefix of the log, as a sequence.
LEMMA ExecutedIsPrefix ==
  ASSUME IndInv
  PROVE  executed = SubSeq(accepted, 1, Len(executed))
<1>1. /\ accepted \in Seq(Event) /\ executed \in Seq(Event)
      /\ Len(executed) <= Len(accepted) /\ Len(executed) \in Nat
      /\ \A i \in 1..Len(executed) : executed[i] = accepted[i]
  BY DEF IndInv, TypeOK, ExecutedInOrder
<1>2. /\ SubSeq(accepted, 1, Len(executed)) \in Seq(Event)
      /\ Len(SubSeq(accepted, 1, Len(executed))) = Len(executed)
      /\ \A i \in 1..Len(executed) :
           SubSeq(accepted, 1, Len(executed))[i] = accepted[i]
  BY <1>1
<1> QED
  BY <1>1, <1>2

\* A crank call seen from outside: the log's execution moves on by the events
\* of one whole call, or not at all.
THEOREM QueueImplementsLog == Spec => ImplementsLog
<1>1. Init => Log!Init
  BY DEF Init, Log!Init, Idle, NoCall
<1>2. IndInv /\ [Next]_vars => [Log!Next]_(Log!vars)
  <2> SUFFICES ASSUME IndInv, [Next]_vars PROVE [Log!Next]_(Log!vars)
    OBVIOUS
  <2> DEFINE out == IF Idle THEN executed ELSE call.savedExecuted
  <2>1. /\ accepted \in Seq(Event) /\ executed \in Seq(Event) /\ Len(executed) \in Nat
        /\ Len(executed) <= Len(accepted) /\ slot \in Slots
    BY DEF IndInv, TypeOK, ExecutedInOrder
  <2>2. CASE Enqueue
    <3>1. PICK r \in Requests, seq_no \in Seqs :
            Idle /\ r.event_type \in PerpActions /\ PushEvent(r, seq_no)
      BY <2>2 DEF Enqueue, enqueue_perp_event, perp_enqueue_operation
    <3> DEFINE event == [seq_no |-> seq_no, submitted_slot |-> slot, user |-> r.user,
                         event_type |-> r.event_type, params_ok |-> r.params_ok]
    <3>2. event \in Event
      BY <2>1, <3>1, QueueAssumption DEF QueueAssumption, Event, Request
    <3>3. accepted' = Append(accepted, event) /\ executed' = executed /\ call' = call
          /\ seq_no > tail_seq
      BY <3>1 DEF PushEvent
    <3>4. out' = out
      BY <3>3 DEF Idle
    <3>5. \A i \in 1..Len(accepted) : accepted[i].seq_no < event.seq_no
      <4>1. IndInv'
        BY <3>1, PushInv
      <4>2. AcceptedInSequence' /\ Len(accepted') = Len(accepted) + 1
        BY <2>1, <3>3, <4>1 DEF IndInv
      <4>3. /\ accepted'[Len(accepted) + 1] = event
            /\ \A i \in 1..Len(accepted) : accepted'[i] = accepted[i]
        BY <2>1, <3>3
      <4> QED
        BY <2>1, <4>2, <4>3 DEF AcceptedInSequence
    <3>6. Log!Submit(event)
      BY <3>3, <3>4, <3>5 DEF Log!Submit
    <3> QED
      BY <3>2, <3>6 DEF Log!Next
  <2>3. CASE CrankCommit
    <3>1. /\ ~Idle /\ CallInv /\ call' = NoCall /\ accepted' = accepted /\ executed' = executed
      BY <2>3 DEF CrankCommit, IndInv
    <3>2. out = call.savedExecuted /\ out' = executed
      BY <3>1 DEF Idle, NoCall
    <3>3. /\ call.savedExecuted \in Seq(Event)
          /\ Len(call.savedExecuted) <= Len(executed)
          /\ \A i \in 1..Len(call.savedExecuted) : call.savedExecuted[i] = accepted[i]
      BY <3>1 DEF IndInv, TypeOK, Call, CallInv
    <3>4. executed = SubSeq(accepted, 1, Len(executed))
      BY ExecutedIsPrefix
    <3>5. CASE Len(call.savedExecuted) = Len(executed)
      <4>1. \A i \in 1..Len(executed) : call.savedExecuted[i] = executed[i]
        BY <3>3, <3>5 DEF IndInv, ExecutedInOrder
      <4>2. call.savedExecuted = executed
        BY <2>1, <3>3, <3>5, <4>1
      <4> QED
        BY <3>1, <3>2, <4>2 DEF Log!vars
    <3>6. CASE Len(call.savedExecuted) < Len(executed)
      <4>1. Len(executed) \in 1..Len(accepted)
        BY <2>1, <3>3, <3>6
      <4>2. Log!Deliver(Len(executed))
        BY <3>1, <3>2, <3>4, <3>6 DEF Log!Deliver
      <4> QED
        BY <4>1, <4>2 DEF Log!Next
    <3> QED
      BY <2>1, <3>3, <3>5, <3>6
  <2>4. CASE CrankAbort
    <3>1. /\ ~Idle /\ Idle' /\ accepted' = accepted /\ executed' = call.savedExecuted
      BY <2>4 DEF CrankAbort, ReadyHead, InLoop, Idle, NoCall
    <3> QED
      BY <3>1 DEF Log!vars
  <2>5. ASSUME NEW instr \in Cranks, NEW a \in Accounts, NEW max, CrankBegin(instr, a, max)
        PROVE  UNCHANGED Log!vars
    <3>1. /\ Idle /\ ~Idle' /\ accepted' = accepted
          /\ call'.savedExecuted = executed
      BY <2>5 DEF CrankBegin, Idle, Cranks
    <3> QED
      BY <3>1 DEF Log!vars
  <2>6. CASE CrankSkip \/ CrankExecute
    <3>1. /\ ~Idle /\ accepted' = accepted /\ call \in Call
      BY <2>6 DEF CrankSkip, CrankExecute, ReadyHead, InLoop, IndInv, TypeOK
    <3>2. call'.instr = call.instr /\ call'.savedExecuted = call.savedExecuted
      BY <2>6, <3>1, Zenon DEF CrankSkip, CrankExecute, Call
    <3> QED
      BY <3>1, <3>2 DEF Log!vars, Idle
  <2>7. CASE Environment \/ UNCHANGED vars
    <3>1. accepted' = accepted /\ executed' = executed /\ call' = call
      BY <2>7 DEF Environment, Tick, ChangeDelegates, ToggleFreeze, vars
    <3> QED
      BY <3>1 DEF Log!vars, Idle
  <2> QED
    BY <2>2, <2>3, <2>4, <2>5, <2>6, <2>7 DEF Next, Crank
<1> QED
  BY <1>1, <1>2, Invariance, PTL DEF Spec, ImplementsLog, Log!Spec
=============================================================================
