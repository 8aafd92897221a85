----------------------------- MODULE FillsFeed -----------------------------
(***************************************************************************)
(* service-mango-fills. A filter task reads versions of a perp event queue *)
(* from the chain, forks included, and turns the difference of two         *)
(* versions into messages: new fills, revoked fills, a changed head and a  *)
(* checkpoint. A sink task passes the messages to the websocket peers that *)
(* subscribed, and to postgres, where workers take them in batches.        *)
(*                                                                         *)
(* A queue account is all events its fork ever pushed, with the number of  *)
(* those popped; the ring buffer follows from it. A client's view is what  *)
(* it holds when it has read its socket up to the last message sent.       *)
(***************************************************************************)
EXTENDS Integers, Sequences, FiniteSets, SequencesExt

CONSTANTS
    QueueLen,    \* MAX_NUM_EVENTS
    EventKinds,  \* [type, parties]: what an event may be, but for seq_num
    MaxSeq,      \* events pushed on any fork
    FirstQueues, \* queues the service may find when it starts
    Versions,    \* <<slot, write_version>>
    Market, UnknownMarket, Accounts,
    Peers,
    Commands,    \* subscribe commands, see Subscribe
    Workers,     \* postgres connections; {} without postgres
    MaxBatch, MaxDbQueue,
    MayGiveUp    \* whether postgres queries may fail too often

FeedAssumption ==
    /\ QueueLen \in Nat \ {0} /\ MaxSeq \in Nat
    /\ Market # UnknownMarket
    /\ MaxBatch \in Nat \ {0} /\ MaxDbQueue \in Nat \ {0}

VARIABLES
    cache,       \* the queue last processed, {} before
    version,     \* last_evq_versions
    chan,        \* messages from the filter to the sink
    out,         \* the message the sink is passing on, {} if none
    checkpoints, \* checkpoint by key
    peers,       \* peer map
    view,        \* what each client holds
    dbq, batch, db,
    status,      \* "running", "panicked" (the filter task), "exited"
    hi           \* history: highest seq_num processed

filterVars == <<cache, version, hi>>
sinkVars == <<out, checkpoints>>
peerVars == <<peers, view>>
dbVars == <<dbq, batch, db>>
vars == <<filterVars, chan, sinkVars, peerVars, dbVars, status>>

-----------------------------------------------------------------------------
(* The event queue account *)

SeqNum(q) == Len(q.events)

(* header.head() *)
HeadOf(q) == q.popped % QueueLen

(* A slot never written is all zero, which reads as a fill. *)
Blank == [type |-> "Fill", parties |-> {}, seq |-> 0]

Slot(q, idx) ==
    LET laps == {k \in 0 .. SeqNum(q) - 1 : k % QueueLen = idx}
        last == CHOOSE k \in laps : \A j \in laps : j <= k
    IN  IF laps = {} THEN Blank
        ELSE [type |-> q.events[last + 1].type,
              parties |-> q.events[last + 1].parties, seq |-> last]

EventAt(q, seq) == Slot(q, seq % QueueLen)

(* What a fork may show: it keeps some of the events of the queue seen     *)
(* last, pushes others, and has popped any number the ring allows.         *)
PoppedChoices(n) == (IF n > QueueLen THEN n - QueueLen ELSE 0) .. n

Forks(q) ==
    UNION {
        {[events |-> SubSeq(q.events, 1, kept) \o more, popped |-> popped] :
            popped \in PoppedChoices(kept + Len(more))} :
        <<kept, more>> \in
            {<<k, m>> \in (0 .. SeqNum(q)) \X SeqOf(EventKinds, MaxSeq) :
                k + Len(m) <= MaxSeq}}

-----------------------------------------------------------------------------
(* The filter task *)

Update(state, e) ==
    IF e.type = "Fill" THEN <<[kind |-> "Update", status |-> state, fill |-> e]>>
    ELSE <<>>

StartSeq(q, prev) ==
    LET top == IF SeqNum(prev) > SeqNum(q) THEN SeqNum(prev) ELSE SeqNum(q)
    IN  IF top > QueueLen THEN top - QueueLen ELSE 0

(* Fault: the new event is published and the old one not revoked. *)
ChangeNotRevoked(q, prev, seq) ==
    IF seq >= SeqNum(prev) \/ EventAt(prev, seq) # EventAt(q, seq)
    THEN Update("New", EventAt(q, seq)) ELSE <<>>

EventDiff(q, prev, seq) ==
    IF seq >= SeqNum(prev) THEN Update("New", EventAt(q, seq))
    ELSE IF EventAt(prev, seq) # EventAt(q, seq)
         THEN Update("Revoke", EventAt(prev, seq)) \o Update("New", EventAt(q, seq))
         ELSE <<>>

DroppedEvents(q, prev) ==
    FlattenSeq([i \in 1 .. SeqNum(prev) - SeqNum(q) |->
        Update("Revoke", EventAt(prev, SeqNum(q) + i - 1))])

EventUpdates(q, prev) ==
    FlattenSeq([i \in 1 .. SeqNum(q) - StartSeq(q, prev) |->
        EventDiff(q, prev, StartSeq(q, prev) + i - 1)])

(* seq_num + 1 of the event before the head; for head 0 that index is out  *)
(* of range.                                                               *)
HeadReadable(q) == HeadOf(q) # 0

HeadSeqNum(q) == Slot(q, HeadOf(q) - 1).seq + 1

HeadChange(q, prev) ==
    IF HeadOf(q) = HeadOf(prev) THEN <<>>
    ELSE <<[kind |-> "HeadUpdate", head |-> HeadOf(q), prev_head |-> HeadOf(prev),
            head_seq_num |-> HeadSeqNum(q), prev_head_seq_num |-> HeadSeqNum(prev)]>>

Checkpoint(q, prev) ==
    [kind |-> "Checkpoint",
     fills |-> {e \in {EventAt(q, k) : k \in StartSeq(q, prev) .. SeqNum(q) - 1} :
                    e.type = "Fill"}]

(* Updates are sent before the head is looked at, so they go out even when *)
(* the task then panics.                                                   *)
publish_changes_perp(q, prev) ==
    EventUpdates(q, prev) \o DroppedEvents(q, prev)
    \o IF HeadReadable(q) /\ HeadReadable(prev)
       THEN Append(HeadChange(q, prev), Checkpoint(q, prev))
       ELSE <<>>

Newer(v, last) == v # last /\ v[1] >= last[1] /\ (v[1] = last[1] => v[2] >= last[2])

Processed(q) ==
    /\ cache' = {q}
    /\ hi' = IF SeqNum(q) > hi THEN SeqNum(q) ELSE hi

(* The first version of a queue only fills the caches. *)
FilterFirst(q) ==
    /\ cache = {}
    /\ Processed(q)
    /\ UNCHANGED <<chan, status>>

FilterChange(q) ==
    /\ \E prev \in cache :
        /\ chan' = chan \o publish_changes_perp(q, prev)
        /\ IF HeadReadable(q) /\ HeadReadable(prev)
           THEN Processed(q) /\ UNCHANGED status
           ELSE status' = "panicked" /\ UNCHANGED <<cache, hi>>

Filter(v, q) ==
    /\ status = "running"
    /\ Newer(v, version)
    /\ version' = v
    /\ FilterFirst(q) \/ FilterChange(q)
    /\ UNCHANGED <<sinkVars, peerVars, dbVars>>

FilterNext ==
    \E v \in Versions :
        /\ Newer(v, version)
        /\ \E q \in IF cache = {} THEN FirstQueues
                    ELSE UNION {Forks(prev) : prev \in cache} :
               Filter(v, q)

-----------------------------------------------------------------------------
(* The sink task *)

IsSubscribed(p, msg) ==
    \/ Market \in peers[p].markets
    \/ peers[p].accounts \cap msg.fill.parties # {}

Receivers(msg) ==
    {p \in DOMAIN peers :
        IF msg.kind = "Update" THEN IsSubscribed(p, msg)
        ELSE peers[p].head_updates /\ Market \in peers[p].markets}

(* The peer map is copied under its lock; the sends happen later. *)
SinkTake ==
    /\ status # "exited" /\ out = {} /\ chan # <<>>
    /\ chan' = Tail(chan)
    /\ LET msg == Head(chan) IN
       IF msg.kind = "Checkpoint"
       THEN /\ checkpoints' = [k \in DOMAIN checkpoints \cup {"queue"} |-> msg.fills]
            /\ UNCHANGED out
       ELSE /\ out' = {[msg |-> msg, to |-> Receivers(msg)]}
            /\ UNCHANGED checkpoints
    /\ UNCHANGED <<filterVars, peerVars, dbVars, status>>

(* What a client makes of a message. It ignores updates that still arrive  *)
(* after it has unsubscribed.                                              *)
Apply(p, msg) ==
    IF msg.kind = "HeadUpdate" \/ ~IsSubscribed(p, msg) THEN view[p]
    ELSE IF msg.status = "New" THEN view[p] \cup {msg.fill}
    ELSE view[p] \ {msg.fill}

SinkSend(p) ==
    /\ status # "exited"
    /\ \E o \in out :
        /\ p \in o.to
        /\ out' = {[o EXCEPT !.to = @ \ {p}]}
        /\ view' = [view EXCEPT ![p] = Apply(p, o.msg)]
    /\ UNCHANGED <<filterVars, chan, checkpoints, peers, dbVars, status>>

(* Sending to postgres waits while its queue is full. *)
SinkDone ==
    /\ status # "exited"
    /\ \E o \in out :
        /\ o.to = {}
        /\ IF o.msg.kind = "Update" /\ Workers # {}
           THEN Len(dbq) < MaxDbQueue /\ dbq' = Append(dbq, o.msg)
           ELSE UNCHANGED dbq
    /\ out' = {}
    /\ UNCHANGED <<filterVars, chan, checkpoints, peerVars, batch, db, status>>

-----------------------------------------------------------------------------
(* Websocket peers *)

NoPeer == [markets |-> {}, accounts |-> {}, head_updates |-> FALSE]

(* A peer, once in the map, is known by its address. *)
handle_connection(p) ==
    /\ status # "exited" /\ p \notin DOMAIN peers
    /\ peers' = [r \in DOMAIN peers \cup {p} |-> IF r = p THEN NoPeer ELSE peers[r]]
    /\ UNCHANGED <<filterVars, chan, sinkVars, view, dbVars, status>>

(* Sends to a peer that has gone fail, and the error is only logged. *)
Disconnect(p) ==
    /\ status # "exited" /\ p \in DOMAIN peers
    /\ peers' = [r \in DOMAIN peers \ {p} |-> peers[r]]
    /\ view' = [view EXCEPT ![p] = {}]
    /\ out' = {[o EXCEPT !.to = @ \ {p}] : o \in out}
    /\ UNCHANGED <<filterVars, chan, checkpoints, dbVars, status>>

(* The fields of a command that are absent are {}, the others {value}.     *)
(* market_ids are handled in order up to the first unknown one, where the  *)
(* whole command ends.                                                     *)
Wildcard(c) == c.market_id = {} /\ c.market_ids = {} /\ c.account_ids = {}

UnknownAt(ids) == {i \in DOMAIN ids : ids[i] # Market}

NamedMarkets(c) ==
    c.market_id
    \cup UNION {{ids[i] : i \in {j \in DOMAIN ids : \A k \in 1 .. j : ids[k] = Market}} :
                    ids \in c.market_ids}

Completes(c) == \A ids \in c.market_ids : UnknownAt(ids) = {}

Fresh(p, c) == (NamedMarkets(c) \cup IF Wildcard(c) THEN {Market} ELSE {}) \ peers[p].markets

(* The sink stores checkpoints by event queue; the lookup is by market.    *)
CheckpointKey(market) == market

Subscribe(p, c) ==
    /\ status # "exited" /\ p \in DOMAIN peers
    /\ c.market_id \subseteq {Market}
    /\ LET fresh == Fresh(p, c)
           accounts == IF Completes(c) THEN UNION c.account_ids ELSE {}
           asked == fresh \ IF Wildcard(c) THEN {Market} ELSE {}
           found == {m \in asked : CheckpointKey(m) \in DOMAIN checkpoints}
       IN  /\ peers' = [peers EXCEPT
                ![p].markets = @ \cup fresh,
                ![p].accounts = @ \cup accounts,
                ![p].head_updates = IF Completes(c) /\ c.head_updates # {}
                                    THEN TRUE \in c.head_updates ELSE @]
           /\ view' = [view EXCEPT
                ![p] = @ \cup UNION {checkpoints[CheckpointKey(m)] : m \in found}]
    /\ UNCHANGED <<filterVars, chan, sinkVars, dbVars, status>>

(* A client that unsubscribes keeps only the fills of its accounts. *)
Unsubscribe(p, market) ==
    /\ status # "exited" /\ p \in DOMAIN peers
    /\ peers' = [peers EXCEPT ![p].markets = @ \ {market}]
    /\ view' = [view EXCEPT ![p] = {f \in @ : f.parties \cap peers[p].accounts # {}}]
    /\ UNCHANGED <<filterVars, chan, sinkVars, dbVars, status>>

PeerNext ==
    \E p \in Peers :
        \/ handle_connection(p)
        \/ Disconnect(p)
        \/ \E c \in Commands : Subscribe(p, c)
        \/ Unsubscribe(p, Market)

-----------------------------------------------------------------------------
(* Postgres *)

(* Up to MaxBatch updates that wait. *)
DbTake(w) ==
    /\ status # "exited" /\ batch[w] = <<>> /\ dbq # <<>>
    /\ LET n == IF Len(dbq) < MaxBatch THEN Len(dbq) ELSE MaxBatch IN
       /\ batch' = [batch EXCEPT ![w] = SubSeq(dbq, 1, n)]
       /\ dbq' = SubSeq(dbq, n + 1, Len(dbq))
    /\ UNCHANGED <<filterVars, chan, sinkVars, peerVars, db, status>>

(* INSERT .. ON CONFLICT (market, seq_num) DO NOTHING, or DELETE *)
process_update(rows, msg) ==
    IF msg.status = "Revoke" THEN {r \in rows : r.seq # msg.fill.seq}
    ELSE IF \E r \in rows : r.seq = msg.fill.seq THEN rows ELSE rows \cup {msg.fill}

(* The queries of a batch run concurrently, and those that fail again.     *)
DbExecute(w) ==
    /\ status # "exited"
    /\ \E i \in DOMAIN batch[w] :
        /\ db' = process_update(db, batch[w][i])
        /\ batch' = [batch EXCEPT ![w] = RemoveAt(@, i)]
    /\ UNCHANGED <<filterVars, chan, sinkVars, peerVars, dbq, status>>

(* Too many retries, or no connection for too long: std::process::exit(1) *)
DbGiveUp(w) ==
    /\ MayGiveUp /\ status # "exited" /\ batch[w] # <<>>
    /\ status' = "exited"
    /\ UNCHANGED <<filterVars, chan, sinkVars, peerVars, dbVars>>

DbNext == \E w \in Workers : DbTake(w) \/ DbExecute(w) \/ DbGiveUp(w)

-----------------------------------------------------------------------------
Init ==
    /\ cache = {} /\ hi = 0 /\ version = <<0, 0>>
    /\ chan = <<>> /\ out = {}
    /\ checkpoints = [k \in {} |-> {}]
    /\ peers = [p \in {} |-> NoPeer]
    /\ view = [p \in Peers |-> {}]
    /\ dbq = <<>> /\ batch = [w \in Workers |-> <<>>] /\ db = {}
    /\ status = "running"

SinkNext == SinkTake \/ SinkDone \/ \E p \in Peers : SinkSend(p)

Next == FilterNext \/ SinkNext \/ PeerNext \/ DbNext

Spec == Init /\ [][Next]_vars

-----------------------------------------------------------------------------

(* The sink has passed on all the filter said. *)
Drained == status = "running" /\ chan = <<>> /\ out = {}

(* Events that no version processed so far has pushed out of the ring.     *)
InWindow(f) == f.seq >= hi - QueueLen

QueueFills ==
    {f \in UNION {{EventAt(q, k) : k \in 0 .. SeqNum(q) - 1} : q \in cache} :
        f.type = "Fill" /\ InWindow(f)}

(* A client that applies new and revoked fills holds, among the events of  *)
(* the ring, no fill the queue last processed does not have, whatever      *)
(* forks came before, and whenever it subscribed                           *)
(* (publish_changes_perp, the sink of main).                               *)
NoRevokedFillHeld ==
    Drained => \A p \in Peers : {f \in view[p] : InWindow(f)} \subseteq QueueFills

=============================================================================
