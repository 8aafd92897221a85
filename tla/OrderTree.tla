------------------------------ MODULE OrderTree -----------------------------
(***************************************************************************)
(* One side of a perp order book as it is stored: an array of nodes shared *)
(* by two crit-bit trees (fixed-price and oracle-pegged orders), a free    *)
(* list threaded through the unused nodes, and in every inner node the     *)
(* earliest expiry below each child, kept up to date on the way back up.   *)
(*                                                                         *)
(* Keys have PriceBits bits of price data above SeqBits bits of order      *)
(* number.  The book gives every order a new number; the model also posts  *)
(* keys again, which the code handles by replacing the leaf.               *)
(***************************************************************************)
EXTENDS Integers, Sequences, SequencesExt, FiniteSets

CONSTANTS
  PriceBits, SeqBits, MAX_ORDERTREE_NODES,
  Prices, Offsets, Seqs,      \* of the orders posted
  Expiries, Times, OraclePrices,
  MaxOps

NEVER == 1000
MaxPrice == 2^(PriceBits - 1) - 1
KeyBits == PriceBits + SeqBits
Handles == 0 .. MAX_ORDERTREE_NODES - 1
Components == {"Fixed", "OraclePegged"}

TreeAssumption ==
  /\ MAX_ORDERTREE_NODES \in Nat \ {0} /\ PriceBits \in Nat \ {0, 1} /\ SeqBits \in Nat
  /\ Prices \subseteq 1 .. MaxPrice /\ OraclePrices \subseteq 1 .. MaxPrice
  /\ Offsets \subseteq -MaxPrice - 1 .. MaxPrice
  /\ Seqs \subseteq 0 .. 2^SeqBits - 1
  /\ Expiries \subseteq 0 .. NEVER /\ Times \subseteq 0 .. NEVER - 1

VARIABLES
  tree,      \* order_tree_type, nodes, bump_index and the free list
  roots,     \* component -> maybe_node, leaf_count
  dropped,   \* component and leaf of the orders the last step dropped (history)
  ops

vars == <<tree, roots, dropped, ops>>

-----------------------------------------------------------------------------
(* Keys *)

fixed_price_data(price) == price
oracle_pegged_price_data(offset) == (offset + MaxPrice + 1) % 2^PriceBits
oracle_pegged_price_offset(data) == data - MaxPrice - 1

new_node_key(bids, price_data, seq) ==
  price_data * 2^SeqBits + (IF bids THEN 2^SeqBits - 1 - seq ELSE seq)

price_data(key) == key \div 2^SeqBits

key_for_fixed_price(key, price) == fixed_price_data(price) * 2^SeqBits + (key % 2^SeqBits)

Bit(key, n) == (key \div 2^(KeyBits - 1 - n)) % 2

\* Leading bits that two keys share.
SharedPrefix(a, b) ==
  CHOOSE n \in 0 .. KeyBits :
    /\ a \div 2^(KeyBits - n) = b \div 2^(KeyBits - n)
    /\ n < KeyBits => Bit(a, n) # Bit(b, n)

\* The price of a pegged order, kept in the range of prices.
Clamped(offset, oracle) ==
  LET sum == oracle + offset
  IN  IF sum > MaxPrice THEN MaxPrice ELSE IF sum < -MaxPrice - 1 THEN -MaxPrice - 1 ELSE sum

PegPrice(leaf, oracle) == Clamped(oracle_pegged_price_offset(price_data(leaf.key)), oracle)

\* The key an order has in the merged book.
RankOf(c, leaf, oracle) ==
  IF c = "Fixed" THEN leaf.key
  ELSE key_for_fixed_price(leaf.key, IF PegPrice(leaf, oracle) < 1 THEN 1
                                     ELSE PegPrice(leaf, oracle))

-----------------------------------------------------------------------------
(* Nodes *)

LeafNode(key, expiry) == [tag |-> "LeafNode", key |-> key, expiry |-> expiry]

InnerNode(prefix_len, key, bit, child, expiry, other, other_expiry) ==
  [tag |-> "InnerNode", key |-> key, prefix_len |-> prefix_len,
   children |-> [b \in 0 .. 1 |-> IF b = bit THEN child ELSE other],
   child_earliest_expiry |-> [b \in 0 .. 1 |-> IF b = bit THEN expiry ELSE other_expiry]]

Leaves ==
  {LeafNode(new_node_key(b, p, s), e) :
     b \in BOOLEAN, p \in 0 .. 2^PriceBits - 1, s \in Seqs, e \in Expiries}

earliest_expiry(node) ==
  IF node.tag = "LeafNode" THEN node.expiry
  ELSE LET e == node.child_earliest_expiry IN IF e[0] < e[1] THEN e[0] ELSE e[1]

IsLeaf(t, h) == t.nodes[h].tag = "LeafNode"

remove(t, h) ==
  [t EXCEPT !.nodes[h] = [tag |-> IF t.free_list_len = 0 THEN "LastFreeNode" ELSE "FreeNode",
                          next |-> t.free_list_head],
            !.free_list_len = @ + 1, !.free_list_head = h]

HasNode(t) == t.free_list_len > 0 \/ t.bump_index < MAX_ORDERTREE_NODES

\* The handle insert gives out next.
NextHandle(t) == IF t.free_list_len = 0 THEN t.bump_index ELSE t.free_list_head

insert(t, node) ==
  LET h == NextHandle(t)
  IN  IF t.free_list_len = 0 THEN [t EXCEPT !.nodes[h] = node, !.bump_index = @ + 1]
      ELSE [t EXCEPT !.nodes[h] = node, !.free_list_len = @ - 1,
                     !.free_list_head = t.nodes[h].next]

is_full(t) == t.free_list_len <= 1 /\ t.bump_index >= MAX_ORDERTREE_NODES - 1

-----------------------------------------------------------------------------
(* Walks.  A path is the inner nodes passed, each with the bit taken. *)

walk_down(node, key) ==
  LET b == Bit(key, node.prefix_len) IN [bit |-> b, child |-> node.children[b]]

\* Down to the leaf that may have the key.
RECURSIVE PathTo(_, _, _)
PathTo(t, h, key) ==
  IF IsLeaf(t, h) THEN <<>>
  ELSE LET w == walk_down(t.nodes[h], key)
       IN  <<[node |-> h, bit |-> w.bit]>> \o PathTo(t, w.child, key)

\* Down to the node whose place the new leaf shares.
RECURSIVE InsertPath(_, _, _)
InsertPath(t, h, key) ==
  IF IsLeaf(t, h) \/ SharedPrefix(t.nodes[h].key, key) < t.nodes[h].prefix_len THEN <<>>
  ELSE LET w == walk_down(t.nodes[h], key)
       IN  <<[node |-> h, bit |-> w.bit]>> \o InsertPath(t, w.child, key)

EndOf(t, root, path) ==
  IF path = <<>> THEN root.maybe_node
  ELSE t.nodes[Last(path).node].children[Last(path).bit]

RECURSIVE update_parent_earliest_expiry(_, _, _, _)
update_parent_earliest_expiry(t, path, outdated, new) ==
  IF path = <<>> \/ t.nodes[Last(path).node].child_earliest_expiry[Last(path).bit] # outdated
  THEN t
  ELSE LET h == Last(path).node
           changed == [t EXCEPT !.nodes[h].child_earliest_expiry[Last(path).bit] = new]
       IN  update_parent_earliest_expiry(changed, Front(path), earliest_expiry(t.nodes[h]),
                                         earliest_expiry(changed.nodes[h]))

RECURSIVE leaf_min_max(_, _, _)
leaf_min_max(t, h, i) == IF IsLeaf(t, h) THEN h ELSE leaf_min_max(t, t.nodes[h].children[i], i)

RECURSIVE find_earliest_expiry(_, _)
find_earliest_expiry(t, h) ==
  IF IsLeaf(t, h) THEN h
  ELSE LET e == t.nodes[h].child_earliest_expiry
       IN  find_earliest_expiry(t, t.nodes[h].children[IF e[0] > e[1] THEN 1 ELSE 0])

-----------------------------------------------------------------------------
(* Changing a tree: a record of the nodes and the tree's root *)

\* A leaf with the same key is replaced.
Clobbered(t, root, path, h, leaf) ==
  [tree |-> update_parent_earliest_expiry([t EXCEPT !.nodes[h] = leaf], path,
                                          t.nodes[h].expiry, leaf.expiry),
   root |-> root]

\* The node at h moves away and h becomes the parent of it and the leaf.
Split(t, root, path, h, leaf) ==
  LET old == t.nodes[h]
      prefix == SharedPrefix(old.key, leaf.key)
      one == insert(t, leaf)
      two == insert(one, old)
      new == InnerNode(prefix, leaf.key, Bit(leaf.key, prefix), NextHandle(t), leaf.expiry,
                       NextHandle(one), earliest_expiry(old))
      linked == [two EXCEPT !.nodes[h] = new]
  IN  [tree |-> IF leaf.expiry < earliest_expiry(old)
                THEN update_parent_earliest_expiry(linked, path, earliest_expiry(old), leaf.expiry)
                ELSE linked,
       root |-> [root EXCEPT !.leaf_count = @ + 1]]

\* The set of outcomes: empty when there are not enough nodes.
insert_leaf(t, root, leaf) ==
  IF root.leaf_count = 0
  THEN IF HasNode(t)
       THEN {[tree |-> insert(t, leaf), root |-> [maybe_node |-> NextHandle(t), leaf_count |-> 1]]}
       ELSE {}
  ELSE LET path == InsertPath(t, root.maybe_node, leaf.key)
           h == EndOf(t, root, path)
       IN  CASE IsLeaf(t, h) /\ t.nodes[h].key = leaf.key -> {Clobbered(t, root, path, h, leaf)}
             [] HasNode(t) /\ HasNode(insert(t, leaf)) -> {Split(t, root, path, h, leaf)}
             [] OTHER -> {}

\* The sibling takes the place of the parent.
Unlink(t, root, path, h) ==
  LET parent == Last(path).node
      other == t.nodes[parent].children[1 - Last(path).bit]
      moved == [remove(t, other) EXCEPT !.nodes[parent] = t.nodes[other]]
  IN  [tree |-> update_parent_earliest_expiry(remove(moved, h), Front(path), t.nodes[h].expiry,
                                              earliest_expiry(t.nodes[other])),
       root |-> [root EXCEPT !.leaf_count = @ - 1]]

\* The set of outcomes: empty when no leaf has the key.
remove_by_key(t, root, key) ==
  IF root.leaf_count = 0 THEN {}
  ELSE LET path == PathTo(t, root.maybe_node, key)
           h == EndOf(t, root, path)
       IN  CASE t.nodes[h].key # key -> {}
             [] path = <<>> -> {[tree |-> remove(t, h), leaf |-> t.nodes[h],
                                 root |-> [maybe_node |-> 0, leaf_count |-> 0]]}
             [] OTHER -> {[leaf |-> t.nodes[h]] @@ Unlink(t, root, path, h)}

-----------------------------------------------------------------------------
(* A book side: two trees in one array *)

Bids == tree.order_tree_type = "Bids"

\* A book side is the record [tree, roots].
RemovedFrom(b, c, key) ==
  {[tree |-> r.tree, roots |-> [b.roots EXCEPT ![c] = r.root],
    dropped |-> {<<c, r.leaf>>}] : r \in remove_by_key(b.tree, b.roots[c], key)}

\* The outcomes of trying one component.
OneExpired(b, c, now) ==
  IF b.roots[c].leaf_count = 0 THEN {}
  ELSE LET leaf == b.tree.nodes[find_earliest_expiry(b.tree, b.roots[c].maybe_node)]
       IN  IF leaf.expiry < now THEN RemovedFrom(b, c, leaf.key) ELSE {}

remove_one_expired(b, c, now) ==
  LET other == CHOOSE d \in Components : d # c
  IN  IF OneExpired(b, c, now) # {} THEN OneExpired(b, c, now) ELSE OneExpired(b, other, now)

\* Fault: the order that matches first.
FindBest(b, c) ==
  b.tree.nodes[leaf_min_max(b.tree, b.roots[c].maybe_node, IF Bids THEN 1 ELSE 0)]

find_worst(b, c) ==
  b.tree.nodes[leaf_min_max(b.tree, b.roots[c].maybe_node, IF Bids THEN 0 ELSE 1)]

\* Which of two orders matches first; ties go to the pegged one.
FixedBetter(f, o, oracle) ==
  IF Bids THEN f.key > RankOf("OraclePegged", o, oracle)
  ELSE f.key < RankOf("OraclePegged", o, oracle)

remove_worst(b, oracle) ==
  LET Full == {c \in Components : b.roots[c].leaf_count > 0}
      c == IF Full # Components THEN CHOOSE d \in Full : TRUE
           ELSE IF FixedBetter(find_worst(b, "Fixed"), find_worst(b, "OraclePegged"), oracle)
                THEN "OraclePegged" ELSE "Fixed"
  IN  IF Full = {} THEN {} ELSE RemovedFrom(b, c, find_worst(b, c).key)

PriceOf(c, leaf, oracle) == price_data(RankOf(c, leaf, oracle))

is_price_better(p, q) == IF Bids THEN p > q ELSE p < q

-----------------------------------------------------------------------------
(* Iteration.  An iterator has the inner nodes whose far side is still to  *)
(* be visited, and the handle of its next leaf or None.                    *)

None == -1

Near == IF Bids THEN 1 ELSE 0

RECURSIVE find_leftmost_leaf(_, _)
find_leftmost_leaf(stack, h) ==
  IF IsLeaf(tree, h) THEN [stack |-> stack, next_leaf |-> h]
  ELSE find_leftmost_leaf(Append(stack, h), tree.nodes[h].children[Near])

iter(c) ==
  IF roots[c].leaf_count = 0 THEN [stack |-> <<>>, next_leaf |-> None]
  ELSE find_leftmost_leaf(<<>>, roots[c].maybe_node)

Advance(it) ==
  IF it.stack = <<>> THEN [it EXCEPT !.next_leaf = None]
  ELSE find_leftmost_leaf(Front(it.stack), tree.nodes[Last(it.stack)].children[1 - Near])

\* The orders of a component that iterating over it visits.
RECURSIVE Visited(_)
Visited(it) ==
  IF it.next_leaf = None THEN {} ELSE {tree.nodes[it.next_leaf]} \cup Visited(Advance(it))

-----------------------------------------------------------------------------
(* Operations *)

Init ==
  /\ \E type \in {"Bids", "Asks"} :
       tree = [order_tree_type |-> type, bump_index |-> 0, free_list_len |-> 0,
               free_list_head |-> 0, nodes |-> [h \in Handles |-> [tag |-> "Uninitialized"]]]
  /\ roots = [c \in Components |-> [maybe_node |-> 0, leaf_count |-> 0]]
  /\ dropped = {}
  /\ ops = 0

Counted == ops < MaxOps /\ ops' = ops + 1

\* The part of new_order that posts the rest of an order.
Post(c, leaf, now, oracle) ==
  LET start == [tree |-> tree, roots |-> roots, dropped |-> {}]
  IN  /\ Counted
      /\ \E one \in IF remove_one_expired(start, c, now) = {} THEN {start}
                     ELSE remove_one_expired(start, c, now) :
         \E two \in IF is_full(one.tree) THEN remove_worst(one, oracle) ELSE {one} :
         \E done \in insert_leaf(two.tree, two.roots[c], leaf) :
           /\ is_full(one.tree) =>
                \A x \in two.dropped :
                  is_price_better(PriceOf(c, leaf, oracle), PriceOf(x[1], x[2], oracle))
           /\ tree' = done.tree
           /\ roots' = [two.roots EXCEPT ![c] = done.root]
           /\ dropped' = one.dropped \cup (IF is_full(one.tree) THEN two.dropped ELSE {})

PostFixed ==
  \E p \in Prices, s \in Seqs, e \in Expiries, now \in Times, oracle \in OraclePrices :
    Post("Fixed", LeafNode(new_node_key(Bids, fixed_price_data(p), s), e), now, oracle)

PostPegged ==
  \E o \in Offsets, s \in Seqs, e \in Expiries, now \in Times, oracle \in OraclePrices :
    /\ oracle + o >= 1
    /\ Post("OraclePegged", LeafNode(new_node_key(Bids, oracle_pegged_price_data(o), s), e),
            now, oracle)

\* A cancel, or an order that was filled.
RemoveByKey ==
  \E c \in Components, key \in {l.key : l \in Leaves} :
    /\ Counted
    /\ \E done \in RemovedFrom([tree |-> tree, roots |-> roots], c, key) :
         tree' = done.tree /\ roots' = done.roots /\ dropped' = done.dropped

Next == PostFixed \/ PostPegged \/ RemoveByKey

Spec == Init /\ [][Next]_vars

-----------------------------------------------------------------------------
(* Properties *)

\* Nodes the trees with these orders need.
NodesOf(o) ==
  LET Of(c) == IF o[c] = {} THEN 0 ELSE 2 * Cardinality(o[c]) - 1
  IN  Of("Fixed") + Of("OraclePegged")

AsSets ==
  INSTANCE OrderSet WITH
    orders <- [c \in Components |-> Visited(iter(c))], bids <- Bids, Capacity <- MAX_ORDERTREE_NODES

\* The trees behave like two sets of orders, those that iteration visits:
\* posting adds the order and drops only one expired and one worst order,
\* removing takes the order with the key (insert_leaf, remove_by_key,
\* remove_one_expired, remove_worst).
ImplementsOrderSet == AsSets!Next \/ UNCHANGED AsSets!vars

=============================================================================
