---------------------------- MODULE AccountSlots ----------------------------
(***************************************************************************)
(* The slots of one mango account over its life: token positions and the   *)
(* count of what keeps them open, open orders accounts, perp positions and *)
(* orders, conditional swaps, and the resizing and closing of the account. *)
(***************************************************************************)
EXTENDS AccountHeader

CONSTANTS
    Tokens, Markets, Perps,
    Base, Quote,    \* tokens of a serum market
    Settle,         \* settle token of a perp market
    FirstHeader,    \* slot counts of the account when it is created
    Headers         \* counts account_expand is asked for

VARIABLES acct, open, book

vars == <<acct, open, book>>

Balances == {"debt", "zero", "dust", "funds"}

Rank == [debt |-> 1, zero |-> 2, dust |-> 3, funds |-> 4]

-----------------------------------------------------------------------------
(* Lookups: the raw index of a slot, 0 if there is none *)

is_active_for_token(slot, t) == IsActive(slot) /\ slot[1].token = t

is_active_for_market(slot, m) == IsActive(slot) /\ slot[1].market = m

token_index(a, t) == SelectInSeq(a.token, LAMBDA p : is_active_for_token(p, t))

serum3_index(a, m) == SelectInSeq(a.serum3, LAMBDA p : is_active_for_market(p, m))

perp_index(a, m) == SelectInSeq(a.perp, LAMBDA p : is_active_for_market(p, m))

FirstFree(slots) == SelectInSeq(slots, LAMBDA p : ~IsActive(p))

MatchOrFree(a, t) ==
    IF token_index(a, t) # 0 THEN token_index(a, t) ELSE FirstFree(a.token)

ensure_token_position(a, t) ==
    LET i == MatchOrFree(a, t) IN
    IF is_active_for_token(a.token[i], t) THEN a
    ELSE [a EXCEPT !.token[i] = <<[token |-> t, in_use |-> 0, bal |-> "zero"]>>]

increment_in_use(a, t) ==
    LET i == MatchOrFree(a, t) IN
    [ensure_token_position(a, t) EXCEPT !.token[i][1].in_use = @ + 1]

decrement_in_use(a, t) ==
    [a EXCEPT !.token[token_index(a, t)][1].in_use = IF @ > 0 THEN @ - 1 ELSE 0]

deactivate_token_position(a, t) == [a EXCEPT !.token[token_index(a, t)] = Free]

token_decrement_dust_deactivate(a, t) ==
    IF token_index(a, t) = 0 THEN a
    ELSE LET b == decrement_in_use(a, t)
             p == b.token[token_index(b, t)][1]
         IN IF p.in_use = 0 /\ p.bal \in {"zero", "dust"}
            THEN deactivate_token_position(b, t) ELSE b

-----------------------------------------------------------------------------
Init ==
    /\ acct = [s \in Names |-> Pad(<<>>, FirstHeader[s])]
    /\ open = TRUE
    /\ book = {}

(* A deposit, or any credit: it dusts only what it lifts out of a debt. *)
Deposit(t, bal) ==
    /\ open /\ MatchOrFree(acct, t) # 0
    /\ LET a == ensure_token_position(acct, t)
           i == token_index(a, t)
           p == a.token[i][1]
       IN /\ Rank[bal] >= Rank[p.bal]
          /\ acct' = IF p.bal = "debt" /\ bal \in {"zero", "dust"} /\ p.in_use = 0
                     THEN deactivate_token_position(a, t)
                     ELSE [a EXCEPT !.token[i][1].bal = bal]
    /\ UNCHANGED <<open, book>>

(* A withdrawal, or any debit. *)
Withdraw(t, bal) ==
    /\ open /\ MatchOrFree(acct, t) # 0
    /\ LET a == ensure_token_position(acct, t)
           i == token_index(a, t)
           p == a.token[i][1]
       IN /\ Rank[bal] <= Rank[p.bal]
          /\ acct' = IF bal \in {"zero", "dust"} /\ p.in_use = 0
                     THEN deactivate_token_position(a, t)
                     ELSE [a EXCEPT !.token[i][1].bal = bal]
    /\ UNCHANGED <<open, book>>

(* Fault: only the base token is kept open. *)
OpenOrdersForgetQuote(m) ==
    /\ open
    /\ serum3_index(acct, m) = 0 /\ FirstFree(acct.serum3) # 0
    /\ LET a == [acct EXCEPT !.serum3[FirstFree(acct.serum3)] = <<[market |-> m]>>]
       IN /\ MatchOrFree(a, Quote[m]) # 0
          /\ MatchOrFree(ensure_token_position(a, Quote[m]), Base[m]) # 0
          /\ acct' = increment_in_use(ensure_token_position(a, Quote[m]), Base[m])
    /\ UNCHANGED <<open, book>>

serum3_create_open_orders(m) ==
    /\ open
    /\ serum3_index(acct, m) = 0 /\ FirstFree(acct.serum3) # 0
    /\ LET a == [acct EXCEPT !.serum3[FirstFree(acct.serum3)] = <<[market |-> m]>>]
       IN /\ MatchOrFree(a, Quote[m]) # 0
          /\ MatchOrFree(increment_in_use(a, Quote[m]), Base[m]) # 0
          /\ acct' = increment_in_use(increment_in_use(a, Quote[m]), Base[m])
    /\ UNCHANGED <<open, book>>

serum3_close_open_orders(m) ==
    /\ open
    /\ serum3_index(acct, m) # 0
    /\ token_index(acct, Base[m]) # 0 /\ token_index(acct, Quote[m]) # 0
    /\ acct' = [decrement_in_use(decrement_in_use(acct, Base[m]), Quote[m])
                EXCEPT !.serum3[serum3_index(acct, m)] = Free]
    /\ UNCHANGED <<open, book>>

token_conditional_swap_create(buy, sell) ==
    /\ open /\ buy # sell
    /\ MatchOrFree(acct, buy) # 0
    /\ MatchOrFree(increment_in_use(acct, buy), sell) # 0
    /\ FirstFree(acct.tcs) # 0
    /\ acct' = [increment_in_use(increment_in_use(acct, buy), sell) EXCEPT
                  !.tcs[FirstFree(acct.tcs)] = <<[buy |-> buy, sell |-> sell]>>]
    /\ UNCHANGED <<open, book>>

(* The owner cancels it, or it is triggered for the last time or expired. *)
token_conditional_swap_remove(i) ==
    /\ open /\ IsActive(acct.tcs[i])
    /\ LET tcs == acct.tcs[i][1]
           a == token_decrement_dust_deactivate(
                    [acct EXCEPT !.tcs[i] = Free], tcs.buy)
       IN acct' = token_decrement_dust_deactivate(a, tcs.sell)
    /\ UNCHANGED <<open, book>>

CanEnsurePerp(a, m) ==
    \/ perp_index(a, m) # 0
    \/ FirstFree(a.perp) # 0 /\ MatchOrFree(a, Settle[m]) # 0

ensure_perp_position(a, m) ==
    IF perp_index(a, m) # 0 THEN a
    ELSE increment_in_use(
            [a EXCEPT !.perp[FirstFree(a.perp)] =
                <<[market |-> m, orders |-> 0, base |-> FALSE]>>], Settle[m])

(* An order that trades at once, rests on the book in a slot of the        *)
(* account, or both.                                                       *)
perp_place_order(m, posts, trades) ==
    /\ open /\ CanEnsurePerp(acct, m)
    /\ posts => FirstFree(acct.perp_oo) # 0
    /\ LET a == ensure_perp_position(acct, m)
           i == perp_index(a, m)
           slot == FirstFree(acct.perp_oo)
           b == IF trades THEN [a EXCEPT !.perp[i][1].base = TRUE] ELSE a
       IN IF posts
          THEN /\ acct' = [b EXCEPT !.perp[i][1].orders = @ + 1,
                                    !.perp_oo[slot] = <<[market |-> m]>>]
               /\ book' = book \cup {[owner_slot |-> slot, market |-> m]}
          ELSE acct' = b /\ UNCHANGED book
    /\ UNCHANGED open

(* A leaf leaves the book, cancelled or filled, and frees its slot. *)
remove_perp_order(leaf, fill) ==
    /\ open /\ leaf \in book
    /\ LET i == perp_index(acct, leaf.market) IN
       /\ i # 0
       /\ acct' = [acct EXCEPT !.perp[i][1].orders = @ - 1,
                               !.perp[i][1].base = @ \/ fill,
                               !.perp_oo[leaf.owner_slot] = Free]
    /\ book' = book \ {leaf}
    /\ UNCHANGED open

(* Opposite trades and settlement bring a position back to nothing. *)
ClosePerp(m) ==
    /\ open /\ perp_index(acct, m) # 0
    /\ acct' = [acct EXCEPT !.perp[perp_index(acct, m)][1].base = FALSE]
    /\ UNCHANGED <<open, book>>

perp_deactivate_position(m) ==
    /\ open /\ perp_index(acct, m) # 0
    /\ ~acct.perp[perp_index(acct, m)][1].base
    /\ acct.perp[perp_index(acct, m)][1].orders = 0
    /\ token_index(acct, Settle[m]) # 0
    /\ acct' = decrement_in_use([acct EXCEPT !.perp[perp_index(acct, m)] = Free],
                                Settle[m])
    /\ UNCHANGED <<open, book>>

Counts(a) == [s \in Names |-> Len(a[s])]

account_expand(h) ==
    /\ open /\ check_resize_from(h, Counts(acct)) /\ Fits(acct, h)
    /\ acct' = Resized(acct, h)
    /\ UNCHANGED <<open, book>>

(* The conditional swaps and the orders are not looked at. *)
account_close ==
    /\ open
    /\ \A s \in {"token", "serum3", "perp"} : \A i \in 1 .. Len(acct[s]) :
            ~IsActive(acct[s][i])
    /\ open' = FALSE
    /\ UNCHANGED <<acct, book>>

Next ==
    \/ \E t \in Tokens, bal \in Balances : Deposit(t, bal) \/ Withdraw(t, bal)
    \/ \E m \in Markets : serum3_create_open_orders(m) \/ serum3_close_open_orders(m)
    \/ \E buy, sell \in Tokens : token_conditional_swap_create(buy, sell)
    \/ \E i \in 1 .. Len(acct.tcs) : token_conditional_swap_remove(i)
    \/ \E m \in Perps, posts, trades \in BOOLEAN : perp_place_order(m, posts, trades)
    \/ \E leaf \in book, fill \in BOOLEAN : remove_perp_order(leaf, fill)
    \/ \E m \in Perps : ClosePerp(m) \/ perp_deactivate_position(m)
    \/ \E h \in Headers : account_expand(h)
    \/ account_close

Spec == Init /\ [][Next]_vars

-----------------------------------------------------------------------------
(* Properties *)

ActiveAt(s) == {i \in 1 .. Len(acct[s]) : IsActive(acct[s][i])}

Users(t) ==
    Cardinality({i \in ActiveAt("serum3") : Base[acct.serum3[i][1].market] = t})
    + Cardinality({i \in ActiveAt("serum3") : Quote[acct.serum3[i][1].market] = t})
    + Cardinality({i \in ActiveAt("perp") : Settle[acct.perp[i][1].market] = t})
    + Cardinality({i \in ActiveAt("tcs") : t \in {acct.tcs[i][1].buy, acct.tcs[i][1].sell}})

(* in_use_count is exactly the number of open orders accounts, perp        *)
(* positions and conditional swaps that need the token position, and a     *)
(* token that something needs has one. The saturating decrement and the    *)
(* tolerance for missing positions never hide a lost count.                *)
InUseExact ==
    \A t \in Tokens :
        IF token_index(acct, t) = 0 THEN Users(t) = 0
        ELSE acct.token[token_index(acct, t)][1].in_use = Users(t)

=============================================================================
