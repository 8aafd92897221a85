----------------------------- MODULE TxBrackets -----------------------------
(***************************************************************************)
(* Transactions with brackets: FlashLoanBegin .. FlashLoanEnd lends the    *)
(* vaults' tokens to the instructions in between, HealthRegionBegin ..     *)
(* HealthRegionEnd lets them skip the health check. A Begin reads the      *)
(* instructions that follow it in the transaction and refuses those it     *)
(* cannot allow. Health is counted in halves of a native token.            *)
(***************************************************************************)
EXTENDS Integers, Sequences, FiniteSets, SequencesExt

CONSTANTS
    Accounts, Banks,
    Loan,        \* what a FlashLoanBegin asks of each bank it names
    Vault,       \* tokens in the vaults at the start
    MaxIxs,      \* instructions in a transaction
    MaxTxs,      \* transactions
    Deltas,      \* changes of health by an instruction
    Grace,       \* health (in halves) below which roundings are forgiven
    InitialPos,  \* native positions an account may start with
    InitialOther \* the rest of its health at the start

BracketsAssumption ==
    /\ Loan \in [Banks -> Nat] /\ Vault \in [Banks -> Nat] /\ Grace \in Int /\ Grace < 0

NoLoan == -1     \* u64::MAX in flash_loan_token_account_initial

VARIABLES st, saved, tx, ip, by, txs

vars == <<st, saved, tx, ip, by, txs>>

(* Instructions. "inner" ones may appear in a health region, "mango" ones  *)
(* may not; "swap" is one of the programs delegates may use, "foreign" any *)
(* other; the last one is passed the mango program and may call it.        *)
Ixs ==
    [k : {"FlashLoanBegin"}, acct : Accounts, banks : (SUBSET Banks) \ {{}}]
    \cup [k : {"FlashLoanEnd"}, acct : Accounts, banks : (SUBSET Banks) \ {{}},
          type : {"Unknown", "Swap"}]
    \cup [k : {"HealthRegionBegin", "HealthRegionEnd", "inner", "mango"},
          acct : Accounts]
    \cup [k : {"swap", "foreign", "foreignCpi"}]

IsMango(ix) == ix.k \notin {"swap", "foreign", "foreignCpi"}

Health(s, a) ==
    s.other[a] + 2 * FoldSet(LAMBDA b, sum : sum + s.pos[a][b], 0, Banks)

Ceil(h) == IF h % 2 = 0 THEN h ELSE h + 1
Floor(h) == IF h % 2 = 0 THEN h ELSE h - 1

check_health_post_checks(pre, post) ==
    \/ post >= 0
    \/ IF post < Grace THEN Ceil(post) >= Ceil(pre) ELSE post >= pre

-----------------------------------------------------------------------------
(* Reading ahead *)

Rest == SubSeq(tx, ip + 1, Len(tx))

InsideLoanOK(ix) ==
    /\ ~IsMango(ix) /\ ix.k # "foreignCpi"
    /\ by = "delegate" => ix.k = "swap"

EndMatches(begin, ix) ==
    ix.k = "FlashLoanEnd" /\ ix.acct = begin.acct /\ ix.banks = begin.banks

FlashLoanEndFollows(begin) ==
    \E n \in 1 .. Len(Rest) :
        /\ EndMatches(begin, Rest[n])
        /\ \A i \in 1 .. n - 1 : InsideLoanOK(Rest[i])

HealthRegionEndFollows(begin) ==
    \E n \in 1 .. Len(Rest) :
        /\ Rest[n].k = "HealthRegionEnd" /\ Rest[n].acct = begin.acct
        /\ \A i \in 1 .. n - 1 : Rest[i].k = "inner"

-----------------------------------------------------------------------------
(* Effects: the sets of states an instruction may lead to. An empty set is *)
(* an error.                                                               *)

flash_loan_begin(ix) ==
    IF /\ FlashLoanEndFollows(ix)
       /\ \A b \in ix.banks : /\ st.approved[b] = 0 /\ st.initial[b] = NoLoan
                              /\ st.vault[b] >= Loan[b]
    THEN {[st EXCEPT
            !.approved = [b \in Banks |-> IF b \in ix.banks THEN Loan[b] ELSE @[b]],
            !.initial = [b \in Banks |-> IF b \in ix.banks THEN st.user[b] ELSE @[b]],
            !.vault = [b \in Banks |-> IF b \in ix.banks THEN @[b] - Loan[b] ELSE @[b]],
            !.user = [b \in Banks |-> IF b \in ix.banks THEN @[b] + Loan[b] ELSE @[b]]]}
    ELSE {}

Excess(b) == IF st.user[b] > st.initial[b] THEN st.user[b] - st.initial[b] ELSE 0

(* The loan origination fee is on what is borrowed, the swap fee on what   *)
(* is given away; both rates are one half here.                            *)
BorrowedPart(a, b) ==
    IF st.pos[a][b] > 0
    THEN IF st.approved[b] > st.pos[a][b] THEN st.approved[b] - st.pos[a][b] ELSE 0
    ELSE st.approved[b]

LoanFee(a, b) == BorrowedPart(a, b) \div 2

SwapFee(ix, change) ==
    IF change < 0 /\ ix.type = "Swap" THEN (- change) \div 2 ELSE 0

(* Fault: what was lent and not returned is forgotten. *)
ChangeForgetsLoan(b) == Excess(b)

VaultChange(b) == Excess(b) - st.approved[b]

(* The changes of the vaults become changes of the position, less fees.    *)
(* Limits of the banks and reduce-only modes may refuse as well: a         *)
(* transaction may abort at any point.                                     *)
ApplyChanges(ix) ==
    LET a == ix.acct
        Fee(b) == LoanFee(a, b) + SwapFee(ix, VaultChange(b))
    IN [st EXCEPT
          !.user = [b \in Banks |-> IF b \in ix.banks THEN @[b] - Excess(b) ELSE @[b]],
          !.vault = [b \in Banks |-> IF b \in ix.banks THEN @[b] + Excess(b) ELSE @[b]],
          !.fees = [b \in Banks |-> IF b \in ix.banks THEN @[b] + Fee(b) ELSE @[b]],
          !.pos[a] = [b \in Banks |->
              IF b \in ix.banks THEN @[b] + VaultChange(b) - Fee(b) ELSE @[b]],
          !.approved = [b \in Banks |-> IF b \in ix.banks THEN 0 ELSE @[b]],
          !.initial = [b \in Banks |-> IF b \in ix.banks THEN NoLoan ELSE @[b]]]

flash_loan_end(ix) ==
    IF /\ \A b \in ix.banks : st.initial[b] # NoLoan
       /\ ix.type = "Swap" => Cardinality(ix.banks) = 2
       /\ check_health_post_checks(Health(st, ix.acct),
                                   Health(ApplyChanges(ix), ix.acct))
    THEN {ApplyChanges(ix)} ELSE {}

(* Fault: the health at the start is rounded down. *)
RegionBeginFloor(ix) ==
    IF HealthRegionEndFollows(ix) /\ ~st.region[ix.acct]
    THEN {[st EXCEPT !.region[ix.acct] = TRUE,
                     !.begin[ix.acct] = Floor(Health(st, ix.acct))]}
    ELSE {}

health_region_begin(ix) ==
    IF HealthRegionEndFollows(ix) /\ ~st.region[ix.acct]
    THEN {[st EXCEPT !.region[ix.acct] = TRUE,
                     !.begin[ix.acct] = Ceil(Health(st, ix.acct))]}
    ELSE {}

health_region_end(ix) ==
    IF /\ st.region[ix.acct]
       /\ check_health_post_checks(st.begin[ix.acct], Health(st, ix.acct))
    THEN {[st EXCEPT !.region[ix.acct] = FALSE, !.begin[ix.acct] = 0]}
    ELSE {}

(* Any other instruction changes the health of an account and checks it    *)
(* unless the account is in a health region.                               *)
OtherMango(a) ==
    {[st EXCEPT !.other[a] = @ + d] :
        d \in {d \in Deltas :
                \/ st.region[a]
                \/ check_health_post_checks(Health(st, a), Health(st, a) + d)}}

(* Another program moves the user's own tokens, as a swap does. *)
Foreign ==
    {[st EXCEPT !.user = [@ EXCEPT ![b] = @ - 1, ![c] = @ + 1]] :
        <<b, c>> \in {p \in Banks \X Banks : st.user[p[1]] > 0}}
    \cup {st}

Effects(ix) ==
    CASE ix.k = "FlashLoanBegin" -> flash_loan_begin(ix)
      [] ix.k = "FlashLoanEnd" -> flash_loan_end(ix)
      [] ix.k = "HealthRegionBegin" -> health_region_begin(ix)
      [] ix.k = "HealthRegionEnd" -> health_region_end(ix)
      [] ix.k \in {"inner", "mango"} -> OtherMango(ix.acct)
      [] ix.k \in {"swap", "foreign"} -> Foreign
      [] ix.k = "foreignCpi" -> UNION {OtherMango(a) : a \in Accounts}

-----------------------------------------------------------------------------
Init ==
    /\ \E p \in InitialPos, o \in InitialOther :
         st = [vault |-> Vault, user |-> [b \in Banks |-> 1],
               approved |-> [b \in Banks |-> 0], initial |-> [b \in Banks |-> NoLoan],
               fees |-> [b \in Banks |-> 0],
               pos |-> [a \in Accounts |-> [b \in Banks |-> p[b]]],
               other |-> [a \in Accounts |-> o],
               region |-> [a \in Accounts |-> FALSE], begin |-> [a \in Accounts |-> 0]]
    /\ saved = st
    /\ tx = <<>> /\ ip = 0 /\ by = "owner" /\ txs = 0

Submit ==
    /\ tx = <<>> /\ txs < MaxTxs
    /\ \E n \in 1 .. MaxIxs : tx' \in [1 .. n -> Ixs]
    /\ by' \in {"owner", "delegate"}
    /\ ip' = 1 /\ saved' = st /\ txs' = txs + 1
    /\ UNCHANGED st

Step ==
    /\ ip \in 1 .. Len(tx)
    /\ st' \in Effects(tx[ip])
    /\ ip' = ip + 1
    /\ UNCHANGED <<saved, tx, by, txs>>

Commit ==
    /\ tx # <<>> /\ ip = Len(tx) + 1
    /\ tx' = <<>> /\ ip' = 0
    /\ UNCHANGED <<st, saved, by, txs>>

(* An instruction fails, for a reason given here or for another one, and   *)
(* the transaction changes nothing.                                        *)
Abort ==
    /\ ip \in 1 .. Len(tx)
    /\ st' = saved /\ tx' = <<>> /\ ip' = 0
    /\ UNCHANGED <<saved, by, txs>>

Next == Submit \/ Step \/ Commit \/ Abort

Spec == Init /\ [][Next]_vars

-----------------------------------------------------------------------------
(* Properties *)

(* Amounts stay natural and flags boolean. *)
TypeOK ==
    /\ \A b \in Banks : /\ st.vault[b] \in Nat /\ st.user[b] \in Nat
                        /\ st.approved[b] \in Nat /\ st.fees[b] \in Nat
                        /\ st.initial[b] \in Nat \cup {NoLoan}
    /\ st.region \in [Accounts -> BOOLEAN]
    /\ ip \in 0 .. Len(tx) + 1

Owed(s, b) ==
    s.fees[b] + FoldSet(LAMBDA a, sum : sum + s.pos[a][b], 0, Accounts)

(* What is missing in a vault is on loan or owed by the account that ended *)
(* the loan: no sequence of loans makes tokens of the vault disappear from *)
(* the books.                                                              *)
VaultsAccountedFor ==
    \A b \in Banks :
        st.vault[b] + st.approved[b] - Owed(st, b) = saved.vault[b] - Owed(saved, b)

(* A committed transaction leaves every account with a health of at least  *)
(* zero or not below what it had before, up to the rounding to whole       *)
(* native tokens, although a health region skips the checks inside it.     *)
HealthNotWorse ==
    tx # <<>> /\ tx' = <<>> /\ ip > Len(tx) =>
      \A a \in Accounts :
         \/ Health(st, a) >= 0
         \/ Ceil(Health(st, a)) >= Ceil(Health(saved, a))

=============================================================================
