----------------------------- MODULE MCRecords -----------------------------
(***************************************************************************)
(* The parts that keep a record of something else and must agree with it:  *)
(* who may act for an account, the bytes and slots of an account, the      *)
(* order tree, the data feeds and the work lists of the liquidator.  Each  *)
(* is checked on a small instance of its own.  A behaviour is a behaviour  *)
(* of one part: the part is chosen at the start and does not change, v1 to *)
(* v12 stand for its variables, and the variables of LiquidatorJobs are    *)
(* those of the part "liquidator".                                         *)
(***************************************************************************)
EXTENDS LiquidatorJobs, TLC

CONSTANT Unreadable

VARIABLES part, v1, v2, v3, v4, v5, v6, v7, v8, v9, v10, v11, v12

-----------------------------------------------------------------------------
(* Instances *)

\* Two accounts of the group and one of another group; an admin, a security
\* admin, an owner and a delegate.
Access == INSTANCE AccessControl WITH
    group <- v1, acct <- v2, now <- v3, tx <- v4, result <- v5, edits <- v6,
    Keys <- {"adm", "sec", "own", "del"}, Creator <- "adm", NoKey <- "none", Guard <- "sec",
    Devs <- {"sec"}, Accounts <- {"a1", "a2", "a3"}, Foreign <- {"a3"},
    OwnerOf <- [a1 |-> "own", a2 |-> "adm", a3 |-> "own"], Dao <- "a2", MainGroup <- TRUE,
    WEEK <- 1, MaxTime <- 2, MaxEdits <- 2,
    GateArgs <- {{}, {"PerpPlaceOrder", "TokenDeposit"}},
    GroupArgs <- {[admin |-> "own", fast |-> "sec", testing |-> TRUE, buyback |-> TRUE]},
    DelegateArgs <- {[delegate |-> "del"],
                     [delegate |-> "none", temp |-> "del", expiry |-> 1]}

\* Slots of different sizes, and lists that grow and shrink.
Layout == INSTANCE AccountLayout WITH
    dynamic <- v1, start <- v2, new <- v3, active <- v4, pc <- v5,
    MaxHealthAccounts <- 7, MaxPerpOo <- 2, MaxTcs <- 2, Reserved <- 1,
    Size <- [token |-> 1, serum3 |-> 2, perp |-> 1, perp_oo |-> 2, tcs |-> 1],
    Headers <- {[token |-> 1, serum3 |-> 0, perp |-> 1, perp_oo |-> 2, tcs |-> 1],
                [token |-> 2, serum3 |-> 2, perp |-> 1, perp_oo |-> 1, tcs |-> 0],
                [token |-> 1, serum3 |-> 2, perp |-> 1, perp_oo |-> 2, tcs |-> 1],
                [token |-> 2, serum3 |-> 0, perp |-> 1, perp_oo |-> 1, tcs |-> 1]},
    MinSlots <- [token |-> 1, serum3 |-> 1, perp |-> 1]

\* Two tokens that a spot market, two perp markets and the conditional swaps
\* share, with fewer slots than things to hold.
SlotCounts(token, serum3, perp, perp_oo) ==
    [token |-> token, serum3 |-> serum3, perp |-> perp, perp_oo |-> perp_oo, tcs |-> 1]

Slots == INSTANCE AccountSlots WITH
    acct <- v1, open <- v2, book <- v3,
    MaxHealthAccounts <- 9, MaxPerpOo <- 3, MaxTcs <- 2,
    Tokens <- {"usdc", "sol"}, Markets <- {"m1"}, Perps <- {"p1", "p2"},
    Base <- [m1 |-> "sol"], Quote <- [m1 |-> "usdc"], Settle <- [p1 |-> "usdc", p2 |-> "sol"],
    FirstHeader <- SlotCounts(2, 1, 1, 2),
    Headers <- {SlotCounts(3, 1, 1, 2), SlotCounts(1, 0, 1, 1)}

\* Four nodes, which two orders of a tree and one of the other tree fill.
Tree == INSTANCE OrderTree WITH
    tree <- v1, roots <- v2, dropped <- v3, ops <- v4,
    PriceBits <- 3, SeqBits <- 1, MAX_ORDERTREE_NODES <- 4, Prices <- {2}, Offsets <- {0},
    Seqs <- {0, 1}, Expiries <- {1, 1000}, Times <- {0, 2}, OraclePrices <- {1, 2}, MaxOps <- 4

\* A queue of two events that wraps around, with forks that replace events;
\* and a longer one, whose head moves, with postgres.  One event is consumed
\* at the start, so that the head is not zero.
Fill(parties) == [type |-> "Fill", parties |-> parties]
Out == [type |-> "Out", parties |-> {}]

Command(id, ids, accounts, heads) ==
    [market_id |-> id, market_ids |-> ids, account_ids |-> accounts, head_updates |-> heads]

Fills == INSTANCE FillsFeed WITH
    cache <- v1, version <- v2, chan <- v3, out <- v4, checkpoints <- v5, peers <- v6,
    view <- v7, dbq <- v8, batch <- v9, db <- v10, status <- v11, hi <- v12,
    QueueLen <- 2, EventKinds <- {Fill({"a1", "a2"}), Out}, MaxSeq <- 3,
    FirstQueues <- {[events |-> <<Out>>, popped |-> 1]},
    Versions <- {<<1, 1>>, <<1, 2>>, <<2, 1>>}, Market <- "m", UnknownMarket <- "x",
    Accounts <- {"a1", "a2"}, Peers <- {"p"},
    Commands <- {Command({}, {}, {}, {}), Command({}, {<<"m", "x">>}, {{"a1"}}, {}),
                 Command({}, {}, {{"a1"}}, {})},
    Workers <- {}, MaxBatch <- 1, MaxDbQueue <- 1, MayGiveUp <- FALSE

StoredFills == INSTANCE FillsFeed WITH
    cache <- v1, version <- v2, chan <- v3, out <- v4, checkpoints <- v5, peers <- v6,
    view <- v7, dbq <- v8, batch <- v9, db <- v10, status <- v11, hi <- v12,
    QueueLen <- 3, EventKinds <- {Fill({"a1"}), Fill({"a2"})}, MaxSeq <- 2,
    FirstQueues <- {[events |-> <<Out>>, popped |-> 1]},
    Versions <- {<<1, 1>>, <<1, 2>>, <<2, 1>>}, Market <- "m", UnknownMarket <- "x",
    Accounts <- {"a1", "a2"}, Peers <- {"p"}, Commands <- {Command({"m"}, {}, {}, {TRUE})},
    Workers <- {"w"}, MaxBatch <- 1, MaxDbQueue <- 1, MayGiveUp <- TRUE

\* A fixed and a pegged order; the oracle moves and may be unreadable.  On a
\* spot market there is no peg and no oracle.
Order(price, pegged, quantity, owner) ==
    [price |-> price, pegged |-> pegged, quantity |-> quantity, owner |-> owner]

AliceFixed == Order(4, FALSE, 1, "alice")
BobFixed == Order(4, FALSE, 2, "bob")
BobPegged == Order(1, TRUE, 2, "bob")

PerpBook == INSTANCE BookFeed WITH
    account <- v1, version <- v2, last <- v3, cache <- v4, chan <- v5, out <- v6,
    levelMap <- v7, bookMap <- v8, peers <- v9, view <- v10,
    IsPerp <- TRUE, Orders <- {AliceFixed, BobPegged}, Prices <- {3, 4, Unreadable},
    Books <- {{}, {AliceFixed, BobPegged}}, Bad <- Unreadable, MaxWrites <- 4,
    Market <- "m", UnknownMarket <- "x", Peers <- {"p"}

SpotBook == INSTANCE BookFeed WITH
    account <- v1, version <- v2, last <- v3, cache <- v4, chan <- v5, out <- v6,
    levelMap <- v7, bookMap <- v8, peers <- v9, view <- v10,
    IsPerp <- FALSE, Orders <- {AliceFixed, BobFixed}, Prices <- {0},
    Books <- {{}, {AliceFixed}, {AliceFixed, BobFixed}}, Bad <- Unreadable, MaxWrites <- 4,
    Market <- "m", UnknownMarket <- "x", Peers <- {"p"}

ASSUME
    /\ Access!AccessAssumption /\ Layout!LayoutAssumption /\ Tree!TreeAssumption
    /\ Fills!FeedAssumption /\ StoredFills!FeedAssumption
    /\ PerpBook!BookFeedAssumption /\ SpotBook!BookFeedAssumption /\ Signals!WorkSignalsAssumption

\* The liquidator: one account with one swap.
MCTcs == {<<"a1", 1, 5>>}

-----------------------------------------------------------------------------
(* The specification *)

From11 == <<v11, v12>>
From7 == <<v7, v8, v9, v10, From11>>
From5 == <<v5, v6, From7>>
areaVars == <<part, v1, v2, v3, v4, From5, vars>>

Unused11 == v11 = 0 /\ v12 = 0
Unused7 == v7 = 0 /\ v8 = 0 /\ v9 = 0 /\ v10 = 0 /\ Unused11
Unused6 == v6 = 0 /\ Unused7
Unused5 == v5 = 0 /\ Unused6
Unused4 == v4 = 0 /\ Unused5

\* One initial state of LiquidatorJobs for the other parts.
NothingToDo == \A a \in Accounts : chain[a] = "true"

AreaInit ==
    /\ Init
    /\ \/ part = "liquidator" /\ v1 = 0 /\ v2 = 0 /\ v3 = 0 /\ Unused4
       \/ NothingToDo /\ part = "access" /\ Access!Init /\ Unused7
       \/ NothingToDo /\ part = "layout" /\ Layout!Init /\ Unused6
       \/ NothingToDo /\ part = "slots" /\ Slots!Init /\ Unused4
       \/ NothingToDo /\ part = "tree" /\ Tree!Init /\ Unused5
       \/ NothingToDo /\ part = "fills" /\ Fills!Init
       \/ NothingToDo /\ part = "stored fills" /\ StoredFills!Init
       \/ NothingToDo /\ part = "perp book" /\ PerpBook!Init /\ Unused11
       \/ NothingToDo /\ part = "spot book" /\ SpotBook!Init /\ Unused11

AreaNext ==
    /\ part' = part
    /\ \/ part = "liquidator" /\ Next /\ UNCHANGED <<v1, v2, v3, v4, From5>>
       \/ part = "access" /\ Access!Next /\ UNCHANGED <<From7, vars>>
       \/ part = "layout" /\ Layout!Next /\ UNCHANGED <<v6, From7, vars>>
       \/ part = "slots" /\ Slots!Next /\ UNCHANGED <<v4, From5, vars>>
       \/ part = "tree" /\ Tree!Next /\ UNCHANGED <<From5, vars>>
       \/ part = "fills" /\ Fills!Next /\ UNCHANGED vars
       \/ part = "stored fills" /\ StoredFills!Next /\ UNCHANGED vars
       \/ part = "perp book" /\ PerpBook!Next /\ UNCHANGED <<From11, vars>>
       \/ part = "spot book" /\ SpotBook!Next /\ UNCHANGED <<From11, vars>>

AreaSpec == AreaInit /\ [][AreaNext]_areaVars

-----------------------------------------------------------------------------
(* Properties: those of the parts, each for the behaviours of its part.    *)
(* The liquidator's, KeepsSignals, is stated in LiquidatorJobs.            *)

\* Nobody but its owner, or a delegate while the delegation lasts, acts for
\* an account (is_owner_or_delegate and the constraints of the handlers).
ConsentHolds == [][part = "access" => Access!ConsentHolds]_areaVars

\* Resizing an account in place loses and mixes up nothing
\* (expand_dynamic_content, resize_dynamic_content).
ContentPreserved == part = "layout" => Layout!ContentPreserved

\* A token position counts exactly what keeps it open (increment_in_use,
\* decrement_in_use and their callers).
InUseExact == part = "slots" => Slots!InUseExact

\* The trees behave like sets of orders, those that iteration visits
\* (insert_leaf, remove_by_key, remove_one_expired, remove_worst).
ImplementsOrderSet ==
    /\ part = "tree" => Tree!AsSets!Init
    /\ [][part = "tree" => Tree!ImplementsOrderSet]_areaVars

\* A client holds no fill that a fork has revoked (publish_changes_perp).
NoRevokedFillHeld ==
    /\ part = "fills" => Fills!NoRevokedFillHeld
    /\ part = "stored fills" => StoredFills!NoRevokedFillHeld

\* A client that follows the levels of a book has the levels of the service
\* (publish_changes, send_checkpoint).
LevelFollowersAgree ==
    /\ part = "perp book" => PerpBook!LevelFollowersAgree
    /\ part = "spot book" => SpotBook!LevelFollowersAgree
=============================================================================
