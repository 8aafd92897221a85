------------------------------ MODULE BookFeed ------------------------------
(***************************************************************************)
(* service-mango-orderbook. A filter task keeps the two sides of a market  *)
(* as they were when last processed, and publishes for a changed side the  *)
(* checkpoints of the market and the differences by level (L2) and by      *)
(* order (L3). A sink task stores the checkpoints and passes the           *)
(* differences to the websocket peers that subscribed. On perp markets the *)
(* displayed price of pegged orders follows the oracle account.            *)
(***************************************************************************)
EXTENDS Integers, Sequences, FiniteSets, FiniteSetsExt

CONSTANTS
    IsPerp,     \* a perp market, or else a spot market without an oracle
    Orders,     \* [price, pegged, quantity, owner]; pegged prices are offsets
    Books,      \* sets of orders a side may hold, {} among them
    Prices,     \* oracle prices
    Bad,        \* an oracle account that cannot be read
    MaxWrites,  \* account writes in all
    Market, UnknownMarket, Peers

Sides == {"bids", "asks"}
Other(s) == IF s = "bids" THEN "asks" ELSE "bids"
Keys == Sides \cup {"oracle"}

BookFeedAssumption ==
    /\ IsPerp \in BOOLEAN /\ MaxWrites \in Nat /\ Market # UnknownMarket
    /\ Bad \notin Int /\ Prices \subseteq Int \cup {Bad}
    /\ Books \subseteq SUBSET Orders /\ {} \in Books
    /\ ~IsPerp => \A o \in Orders : ~o.pegged

VARIABLES
    account,  \* latest content of the accounts in the chain cache
    version,  \* and its version, 0 if unknown
    last,     \* last_write_versions
    cache,    \* bookside_cache: {} or {displayed orders}, by side
    chan,     \* messages from the filter to the sink
    out,      \* the update the sink is passing on, {} if none
    levelMap, bookMap, \* checkpoints stored, {} or {checkpoint}
    peers,    \* peer map
    view      \* what each client holds

chainVars == <<account, version>>
filterVars == <<last, cache>>
sinkVars == <<out, levelMap, bookMap>>
vars == <<chainVars, filterVars, chan, sinkVars, peers, view>>

-----------------------------------------------------------------------------
(* The filter task *)

(* iter_valid, and conversion to display units, which keeps the order.     *)
Displayed(book, price) ==
    {[price |-> IF o.pegged THEN price + o.price ELSE o.price,
      quantity |-> o.quantity, owner |-> o.owner] : o \in book}

(* Orders of a spot market have no peg. *)
DisplayedSpot(book) ==
    {[price |-> o.price, quantity |-> o.quantity, owner |-> o.owner] : o \in book}

(* Orders of one price are one level, <<price, quantity>>. *)
Levels(orders) ==
    {<<p, MapThenSumSet(LAMBDA o : o.quantity, {o \in orders : o.price = p})>> :
        p \in {o.price : o \in orders}}

(* Fault: levels that are gone are not told. *)
LevelsAddedOnly(old, new) == Levels(new) \ Levels(old)

LevelUpdate(old, new) ==
    {<<l[1], 0>> : l \in {k \in Levels(old) : \A n \in Levels(new) : n[1] # k[1]}}
    \cup (Levels(new) \ Levels(old))

Checkpoints(s, new, others) ==
    IF others = {} THEN <<>>
    ELSE LET other == CHOOSE o \in others : TRUE
             both == [r \in Sides |-> IF r = s THEN new ELSE other]
         IN  <<[kind |-> "BookCheckpoint", sides |-> both],
               [kind |-> "LevelCheckpoint", sides |-> [r \in Sides |-> Levels(both[r])]]>>

(* Sent when there are both additions and removals. *)
BookUpdate(s, new, old) ==
    IF new \ old = {} \/ old \ new = {} THEN <<>>
    ELSE <<[kind |-> "BookUpdate", side |-> s,
            additions |-> new \ old, removals |-> old \ new]>>

publish_changes(s, new, old, others) ==
    Checkpoints(s, new, others)
    \o (IF LevelUpdate(old, new) = {} THEN <<>>
        ELSE <<[kind |-> "LevelUpdate", side |-> s, update |-> LevelUpdate(old, new)]>>)
    \o BookUpdate(s, new, old)

(* "neither bookside nor oracle was updated" *)
Updated(ver, lst, s) == ver[s] > lst[s] \/ ver["oracle"] > lst["oracle"]

Known(ver, s) == ver[s] # 0 /\ (IsPerp => ver["oracle"] # 0)

(* f is the filter's state. The first time a side is only remembered.      *)
ShowSide(f, s, new) ==
    [f EXCEPT
        !.cache[s] = {new},
        !.chan = @ \o IF f.cache[s] = {} THEN <<>>
                      ELSE publish_changes(s, new, CHOOSE o \in f.cache[s] : TRUE,
                                           f.cache[Other(s)])]

(* One side of a perp market in one round of the loop: the versions count  *)
(* as seen even if the oracle cannot be read.                              *)
ProcessPerpSide(f, acc, ver, s) ==
    IF ~Known(ver, s) \/ ~Updated(ver, f.last, s) THEN f
    ELSE LET seen == [f EXCEPT !.last[s] = ver[s], !.last["oracle"] = ver["oracle"]]
         IN  IF acc["oracle"] = Bad THEN seen
             ELSE ShowSide(seen, s, Displayed(acc[s], acc["oracle"]))

ProcessSpotSide(f, acc, ver, s) ==
    IF ~Known(ver, s) \/ ver[s] <= f.last[s] THEN f
    ELSE ShowSide([f EXCEPT !.last[s] = ver[s]], s, DisplayedSpot(acc[s]))

ProcessSide(f, acc, ver, s) ==
    IF IsPerp THEN ProcessPerpSide(f, acc, ver, s) ELSE ProcessSpotSide(f, acc, ver, s)

SumWrites(ver) == MapThenSumSet(LAMBDA k : ver[k], Keys)

(* Account writes reach the chain cache, singly or with a change of fork   *)
(* several at once; then the loop looks at both sides.                     *)
Receive(written, acc) ==
    /\ written # {}
    /\ \A k \in Keys : k \notin written => acc[k] = account[k]
    /\ SumWrites(version) + Cardinality(written) <= MaxWrites
    /\ account' = acc
    /\ version' = [k \in Keys |-> IF k \in written THEN version[k] + 1 ELSE version[k]]
    /\ LET f0 == [last |-> last, cache |-> cache, chan |-> chan]
           f1 == ProcessSide(f0, acc, version', "bids")
           f2 == ProcessSide(f1, acc, version', "asks")
       IN  last' = f2.last /\ cache' = f2.cache /\ chan' = f2.chan
    /\ UNCHANGED <<sinkVars, peers, view>>

AccountStates == {[k \in Keys |-> IF k = "oracle" THEN p ELSE b[k]] :
                   p \in Prices, b \in [Sides -> Books]}

FilterNext ==
    \E written \in SUBSET (IF IsPerp THEN Keys ELSE Sides) :
        \E acc \in AccountStates : Receive(written, acc)

-----------------------------------------------------------------------------
(* The sink task *)

Subscribers(msg) ==
    {p \in DOMAIN peers : IF msg.kind = "LevelUpdate" THEN peers[p].level ELSE peers[p].book}

SinkTake ==
    /\ out = {} /\ chan # <<>>
    /\ chan' = Tail(chan)
    /\ LET msg == Head(chan) IN
       /\ levelMap' = IF msg.kind = "LevelCheckpoint" THEN {msg.sides} ELSE levelMap
       /\ bookMap' = IF msg.kind = "BookCheckpoint" THEN {msg.sides} ELSE bookMap
       /\ out' = IF msg.kind \in {"LevelUpdate", "BookUpdate"}
                 THEN {[msg |-> msg, to |-> Subscribers(msg)]} ELSE {}
    /\ UNCHANGED <<chainVars, filterVars, peers, view>>

(* What a client makes of a message: a level of quantity 0 is removed.     *)
Apply(v, msg) ==
    IF msg.kind = "LevelUpdate"
    THEN [v EXCEPT !.level[msg.side] =
            {l \in @ : \A u \in msg.update : u[1] # l[1]}
            \cup {u \in msg.update : u[2] # 0}]
    ELSE [v EXCEPT !.book[msg.side] = (@ \ msg.removals) \cup msg.additions]

SinkSend(p) ==
    /\ \E o \in out :
        /\ p \in o.to
        /\ out' = {[o EXCEPT !.to = @ \ {p}]}
        /\ view' = [view EXCEPT ![p] = Apply(@, o.msg)]
    /\ UNCHANGED <<chainVars, filterVars, chan, levelMap, bookMap, peers>>

SinkDone ==
    /\ \E o \in out : o.to = {}
    /\ out' = {}
    /\ UNCHANGED <<chainVars, filterVars, chan, levelMap, bookMap, peers, view>>

-----------------------------------------------------------------------------
(* Websocket peers *)

NoPeer == [level |-> FALSE, book |-> FALSE]
Empty == [s \in Sides |-> {}]
(* levelFrom: whether the client started from a checkpoint (history). *)
NoView == [level |-> Empty, book |-> Empty, levelFrom |-> FALSE]

handle_connection(p) ==
    /\ p \notin DOMAIN peers
    /\ peers' = [r \in DOMAIN peers \cup {p} |-> IF r = p THEN NoPeer ELSE peers[r]]
    /\ UNCHANGED <<chainVars, filterVars, chan, sinkVars, view>>

(* Sends to a peer that has gone fail, and the error is only logged. *)
Disconnect(p) ==
    /\ p \in DOMAIN peers
    /\ peers' = [r \in DOMAIN peers \ {p} |-> peers[r]]
    /\ view' = [view EXCEPT ![p] = NoView]
    /\ out' = {[o EXCEPT !.to = @ \ {p}] : o \in out}
    /\ UNCHANGED <<chainVars, filterVars, chan, levelMap, bookMap>>

(* The checkpoint is sent if there is one. *)
SubscribeLevel(p, market) ==
    /\ p \in DOMAIN peers /\ market = Market /\ ~peers[p].level
    /\ peers' = [peers EXCEPT ![p].level = TRUE]
    /\ view' = [view EXCEPT ![p].level = IF levelMap = {} THEN Empty ELSE CHOOSE c \in levelMap : TRUE,
                            ![p].levelFrom = levelMap # {}]
    /\ UNCHANGED <<chainVars, filterVars, chan, sinkVars>>

SubscribeBook(p, market) ==
    /\ p \in DOMAIN peers /\ market = Market /\ ~peers[p].book
    /\ peers' = [peers EXCEPT ![p].book = TRUE]
    /\ view' = [view EXCEPT ![p].book = IF bookMap = {} THEN Empty ELSE CHOOSE c \in bookMap : TRUE]
    /\ UNCHANGED <<chainVars, filterVars, chan, sinkVars>>

(* Ends the level subscription; there is no way to end that of the book.   *)
Unsubscribe(p) ==
    /\ p \in DOMAIN peers /\ peers[p].level
    /\ peers' = [peers EXCEPT ![p].level = FALSE]
    /\ view' = [view EXCEPT ![p].level = Empty, ![p].levelFrom = FALSE]
    /\ UNCHANGED <<chainVars, filterVars, chan, sinkVars>>

-----------------------------------------------------------------------------
Init ==
    /\ account = [k \in Keys |-> IF k = "oracle" THEN CHOOSE p \in Prices : TRUE ELSE {}]
    /\ version = [k \in Keys |-> 0] /\ last = [k \in Keys |-> 0]
    /\ cache = [s \in Sides |-> {}]
    /\ chan = <<>> /\ out = {} /\ levelMap = {} /\ bookMap = {}
    /\ peers = [p \in {} |-> NoPeer]
    /\ view = [p \in Peers |-> NoView]

SinkNext == SinkTake \/ SinkDone \/ \E p \in Peers : SinkSend(p)

PeerNext ==
    \E p \in Peers :
        \/ handle_connection(p) \/ Disconnect(p) \/ Unsubscribe(p)
        \/ \E m \in {Market, UnknownMarket} : SubscribeLevel(p, m) \/ SubscribeBook(p, m)

Next == FilterNext \/ SinkNext \/ PeerNext

Spec == Init /\ [][Next]_vars

-----------------------------------------------------------------------------

Drained == chan = <<>> /\ out = {}

(* A client that started from an L2 checkpoint and applied the updates     *)
(* since holds the levels the service has, whenever between the messages   *)
(* it subscribed (publish_changes, send_checkpoint, the sink of main).     *)
LevelFollowersAgree ==
    Drained => \A p \in Peers : view[p].levelFrom =>
        \A s \in Sides : cache[s] = {} \/ view[p].level[s] \in {Levels(b) : b \in cache[s]}

=============================================================================
