--------------------------- MODULE AccessControl ---------------------------
(***************************************************************************)
(* Who may change what: the group's admins, instruction gates and          *)
(* settings, the owners, delegates and freezes of the mango accounts, and  *)
(* the validation every transaction passes before its handler runs.        *)
(*                                                                         *)
(* A transaction is signed first and lands later, at a time when the group *)
(* or the account may have changed. It either satisfies its row of the     *)
(* table in Instructions and takes effect, or fails and changes nothing.   *)
(***************************************************************************)
EXTENDS Integers, FiniteSets, Instructions

CONSTANTS
    Keys,        \* signers
    Creator,     \* the key that created the group
    NoKey,       \* Pubkey::default()
    Guard,       \* the security admin when the model starts
    Devs,        \* DEV1 and DEV2
    Accounts,    \* mango accounts
    Foreign,     \* those of them that belong to another group
    OwnerOf,     \* the owner in each account's address
    Dao,         \* buyback_fees_swap_mango_account
    MainGroup,   \* is the group MAIN_GROUP_ID?
    WEEK,        \* the longest freeze and the longest temporary delegation
    MaxTime,     \* bound of the clock
    MaxEdits,    \* bound of the transactions that change who may do what
    GateArgs,    \* arguments of IxGateSet: sets of gates to be off
    GroupArgs,   \* arguments of GroupEdit
    DelegateArgs \* arguments of AccountEdit

AccessAssumption ==
    /\ Creator \in Keys /\ Guard \in Keys \cup {NoKey} /\ NoKey \notin Keys
    /\ Foreign \subseteq Accounts /\ OwnerOf \in [Accounts -> Keys]
    /\ WEEK \in Nat \ {0}

VARIABLES group, acct, now, tx, result, edits

vars == <<group, acct, now, tx, result, edits>>

NoTx == [row |-> "none"]

-----------------------------------------------------------------------------
(* Predicates of the group and of an account *)

is_ix_enabled(gate) == gate \notin group.off

multiple_banks_supported == group.testing \/ group.version > 1

serum3_supported == group.testing \/ group.version > 0

perps_supported == group.testing \/ group.version > 1

openbook_v2_supported == group.testing

Supports(need) ==
    CASE need = "testing" -> group.testing
      [] need = "multiple_banks" -> multiple_banks_supported
      [] need = "serum3" -> serum3_supported
      [] need = "perps" -> perps_supported
      [] need = "openbook" -> openbook_v2_supported
      [] need = "buyback" -> group.buyback
      [] need = "main" -> MainGroup

is_operational(a) == acct[a].frozen_until < now

(* Fault: the expiry of a temporary delegate is not looked at. *)
DelegateWithoutExpiry(a, key) ==
    acct[a].delegate = key \/ acct[a].temp = key

is_delegate(a, key) ==
    \/ acct[a].delegate = key
    \/ now <= acct[a].expiry /\ acct[a].temp = key

is_owner_or_delegate(a, key) == OwnerOf[a] = key \/ is_delegate(a, key)

(* An argument re-enables a gate: only the group admin may do that. *)
ReEnables(t) == t.row = IxGateSet /\ group.off \ t.arg # {}

RequireGroupAdmin(t) ==
    IF t.row = IxGateSet THEN ReEnables(t) ELSE t.arg = "strict"

SignerOK(t) ==
    LET principal == t.roles[t.row.principal] IN
    CASE t.row.signer = "anyone" -> TRUE
      [] t.row.signer = "admin" -> group.admin = t.signer
      [] t.row.signer = "listing" -> t.signer \in {group.admin, group.fast}
      [] t.row.signer = "security" ->
            \/ group.admin = t.signer
            \/ ~RequireGroupAdmin(t) /\ group.security = t.signer
      [] t.row.signer = "dev" -> t.signer \in Devs
      [] t.row.signer \in {"owner", "newOwner"} -> OwnerOf[principal] = t.signer
      [] t.row.signer = "ownerOrDelegate" ->
            is_owner_or_delegate(principal, t.signer)

(* What anchor and the first checks of the handlers require. AccountCreate *)
(* is the only instruction whose account must not exist yet.               *)
Valid(t) ==
    /\ group.open
    /\ \A g \in t.row.gates : is_ix_enabled(g)
    /\ \A n \in t.row.needs : Supports(n)
    /\ \A r \in t.row.takes : acct[t.roles[r]].open = (t.row # AccountCreate)
    /\ \A r \in t.row.home : t.roles[r] \notin Foreign
    /\ \A r \in t.row.live : is_operational(t.roles[r])
    /\ \A r, s \in t.row.apart : r # s => t.roles[r] # t.roles[s]
    /\ "dao" \in t.row.takes => t.roles["dao"] = Dao
    /\ SignerOK(t)

-----------------------------------------------------------------------------
(* Handlers of the instructions that change who may do what *)

group_edit(o) ==
    [group EXCEPT !.admin = IF "admin" \in DOMAIN o THEN o.admin ELSE @,
                  !.fast = IF "fast" \in DOMAIN o THEN o.fast ELSE @,
                  !.security = IF "security" \in DOMAIN o THEN o.security ELSE @,
                  !.testing = IF "testing" \in DOMAIN o THEN o.testing ELSE @,
                  !.version = IF "version" \in DOMAIN o THEN o.version ELSE @,
                  !.buyback = IF "buyback" \in DOMAIN o THEN o.buyback ELSE @]

group_edit_ok(o) == "admin" \in DOMAIN o => o.admin # NoKey

ix_gate_set(off) == [group EXCEPT !.off = off]

account_edit_ok(o) ==
    /\ "name" \in DOMAIN o \/ "delegate" \in DOMAIN o
    /\ ("temp" \in DOMAIN o) = ("expiry" \in DOMAIN o)
    /\ "temp" \in DOMAIN o => now + WEEK > o.expiry

account_edit(a, o) ==
    [acct[a] EXCEPT
        !.delegate = IF "delegate" \in DOMAIN o THEN o.delegate ELSE @,
        !.temp = IF "temp" \in DOMAIN o THEN o.temp ELSE @,
        !.expiry = IF "expiry" \in DOMAIN o THEN o.expiry ELSE @]

account_toggle_freeze(a, freeze) ==
    [acct[a] EXCEPT !.frozen_until = IF freeze THEN now + WEEK ELSE 0]

Fresh == [open |-> TRUE, delegate |-> NoKey, temp |-> NoKey, expiry |-> 0,
          frozen_until |-> 0]

(* A handler may refuse for reasons that are not about access: balances,   *)
(* health, prices. Those refusals are the transactions that do not land.   *)
HandlerOK(t) ==
    CASE t.row = AccountEdit -> account_edit_ok(t.arg)
      [] t.row = GroupEdit -> group_edit_ok(t.arg)
      [] OTHER -> TRUE

Changes(t) == t.row \in {AccountCreate, AccountClose, AccountEdit,
                         AccountToggleFreeze, GroupEdit, GroupClose, IxGateSet}

Apply(t) ==
    LET a == t.roles["account"] IN
    /\ acct' = CASE t.row = AccountCreate -> [acct EXCEPT ![a] = Fresh]
                 [] t.row = AccountClose -> [acct EXCEPT ![a].open = FALSE]
                 [] t.row = AccountEdit ->
                        [acct EXCEPT ![a] = account_edit(a, t.arg)]
                 [] t.row = AccountToggleFreeze ->
                        [acct EXCEPT ![a] = account_toggle_freeze(a, t.arg)]
                 [] OTHER -> acct
    /\ group' = CASE t.row = GroupEdit -> group_edit(t.arg)
                  [] t.row = IxGateSet -> ix_gate_set(t.arg)
                  [] t.row = GroupClose -> [group EXCEPT !.open = FALSE]
                  [] OTHER -> group

-----------------------------------------------------------------------------
Args(row) ==
    CASE row = IxGateSet -> GateArgs
      [] row = GroupEdit -> GroupArgs
      [] row = AccountEdit -> DelegateArgs
      [] row = AccountToggleFreeze -> BOOLEAN
      [] row.signer = "security" -> {"strict", "lenient"}
      [] OTHER -> {"none"}

(* group_create: the creator is the admin, every gate is open. The admin   *)
(* may have named a security admin already.                                *)
Init ==
    /\ group = [open |-> TRUE, admin |-> Creator, fast |-> NoKey,
                security |-> Guard, testing |-> FALSE, version |-> 0,
                buyback |-> FALSE, off |-> {}]
    /\ acct = [a \in Accounts |-> Fresh]
    /\ now = 1
    /\ tx = NoTx
    /\ result = "none"
    /\ edits = 0

Submit ==
    /\ tx = NoTx
    /\ \E row \in Rows, signer \in Keys :
         \E arg \in Args(row), roles \in [row.takes -> Accounts] :
            tx' = [row |-> row, signer |-> signer, arg |-> arg, roles |-> roles]
    /\ result' = "none"
    /\ UNCHANGED <<group, acct, now, edits>>

Land ==
    /\ tx # NoTx
    /\ Valid(tx) /\ HandlerOK(tx)
    /\ Changes(tx) => edits < MaxEdits
    /\ Apply(tx)
    /\ edits' = IF Changes(tx) THEN edits + 1 ELSE edits
    /\ tx' = NoTx
    /\ result' = "ok"
    /\ UNCHANGED now

Drop ==
    /\ tx # NoTx
    /\ tx' = NoTx
    /\ result' = "rejected"
    /\ UNCHANGED <<group, acct, now, edits>>

Tick ==
    /\ now < MaxTime
    /\ now' = now + 1
    /\ UNCHANGED <<group, acct, tx, result, edits>>

Next == Submit \/ Land \/ Drop \/ Tick

Spec == Init /\ [][Next]_vars

-----------------------------------------------------------------------------
(* Properties *)

Landing == tx # NoTx /\ tx' = NoTx /\ result' = "ok"

(* The instructions that may change an account without its owner's word:   *)
(* liquidation and triggering of the liqee, settlement, forced closing,    *)
(* cranks, deposits by others, migration, brackets and fees.               *)
NoConsentNeeded(row, r) ==
    \/ r \in {"liqee", "account_a", "account_b", "dao"}
    \/ row.ix \in {"AccountSizeMigration", "AccountToggleFreeze",
          "HealthRegionBegin", "HealthRegionEnd", "TokenChargeCollateralFees",
          "TokenDepositIntoExisting", "TokenForceWithdraw", "PerpConsumeEvents",
          "PerpForceCloseUnmatched", "PerpLiqForceCancelOrders",
          "PerpSettleFees", "PerpSettleUnmatched", "Serum3LiqForceCancelOrders"}

(* Every other change of an account is signed by its owner or by a         *)
(* delegate whose power the owner granted and that has not run out when    *)
(* the transaction lands, however long ago it was signed.                  *)
ConsentHolds ==
    Landing => \A r \in tx.row.writes :
      LET a == acct[tx.roles[r]] IN
      \/ NoConsentNeeded(tx.row, r)
      \/ tx.signer \in {OwnerOf[tx.roles[r]], a.delegate}
      \/ tx.signer = a.temp /\ now <= a.expiry

=============================================================================
