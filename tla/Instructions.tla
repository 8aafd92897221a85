---------------------------- MODULE Instructions ----------------------------
(***************************************************************************)
(* The account constraints of every instruction of the program: one row    *)
(* per accounts struct of accounts_ix/, together with the signer check its *)
(* handler makes at the place the struct marks "#1".                       *)
(*                                                                         *)
(* A row says which gates must be open, which group settings the           *)
(* instruction needs, who must sign and for which account (principal),     *)
(* which mango accounts it takes, which of them must be operational        *)
(* (live), must belong to the group that is passed (home), must be         *)
(* different (apart), and which of them it changes (writes).               *)
(***************************************************************************)
EXTENDS FiniteSets, Sequences

NoAccounts(ix) ==
    [ix |-> ix, gates |-> {ix}, needs |-> {}, signer |-> "anyone",
     principal |-> "account", takes |-> {}, live |-> {}, home |-> {},
     writes |-> {}, apart |-> {}]

(* No signature of an account owner is needed for these roles. *)
ForAnyone(ix, roles) ==
    [NoAccounts(ix) EXCEPT !.takes = roles, !.live = roles, !.home = roles,
                           !.writes = roles]

ForUser(ix) == [ForAnyone(ix, {"account"}) EXCEPT !.signer = "ownerOrDelegate"]

ForOwner(ix) == [ForAnyone(ix, {"account"}) EXCEPT !.signer = "owner"]

ForAdmin(ix, needs) ==
    [NoAccounts(ix) EXCEPT !.signer = "admin", !.needs = needs]

(* The liqor's owner or delegate signs; the liqee has no say. Both are     *)
(* loaded mutably at once, which fails when they are the same account.     *)
ForLiqor(ix) ==
    [ForAnyone(ix, {"liqor", "liqee"}) EXCEPT !.signer = "ownerOrDelegate",
                                              !.principal = "liqor",
                                              !.apart = {"liqor", "liqee"}]

(* The handlers of the OpenBook v2 instructions are empty: what is left of *)
(* the instruction is its account validation.                              *)
Unimplemented(ix) == [ForAnyone(ix, {"account"}) EXCEPT !.writes = {}]

-----------------------------------------------------------------------------
(* Accounts and groups *)

AccountBuybackFeesWithMngo ==
    [ForUser("AccountBuybackFeesWithMngo") EXCEPT
        !.needs = {"buyback"}, !.takes = {"account", "dao"},
        !.home = {"account", "dao"}, !.writes = {"account", "dao"},
        !.apart = {"account", "dao"}]
AccountClose == ForOwner("AccountClose")
AccountCreate ==
    [ForOwner("AccountCreate") EXCEPT !.signer = "newOwner", !.live = {}]

AccountEdit == ForOwner("AccountEdit")
AccountExpand == ForOwner("AccountExpand")
AccountSizeMigration ==
    [ForAnyone("AccountSizeMigration", {"account"}) EXCEPT !.live = {}]
AccountToggleFreeze ==
    [ForAnyone("AccountToggleFreeze", {"account"}) EXCEPT
        !.signer = "admin", !.live = {}]
AdminPerpWithdrawFees == ForAdmin("AdminPerpWithdrawFees", {})
AdminTokenWithdrawFees == ForAdmin("AdminTokenWithdrawFees", {})
AltExtend == ForAdmin("AltExtend", {})
AltSet == ForAdmin("AltSet", {})
ComputeAccountData ==
    [ForAnyone("ComputeAccountData", {"account"}) EXCEPT
        !.gates = {}, !.needs = {"testing"}, !.live = {}, !.writes = {}]
GroupChangeInsuranceFund == ForAdmin("GroupChangeInsuranceFund", {})
GroupClose == ForAdmin("GroupClose", {"testing"})
GroupEdit == [ForAdmin("GroupEdit", {}) EXCEPT !.gates = {}]
GroupWithdrawInsuranceFund == ForAdmin("GroupWithdrawInsuranceFund", {})
IxGateSet ==
    [NoAccounts("IxGateSet") EXCEPT !.gates = {}, !.signer = "security"]
SequenceCheck == ForOwner("SequenceCheck")
HealthCheck ==
    [ForAnyone("HealthCheck", {"account"}) EXCEPT !.writes = {}]
HealthRegionBegin ==
    [ForAnyone("HealthRegionBegin", {"account"}) EXCEPT
        !.gates = {"HealthRegion"}]
HealthRegionEnd ==
    [ForAnyone("HealthRegionEnd", {"account"}) EXCEPT !.gates = {}, !.home = {}]
FlashLoanBegin ==
    [ForUser("FlashLoanBegin") EXCEPT
        !.gates = {"FlashLoan"}, !.home = {}, !.writes = {}]
FlashLoanSwapBegin == [FlashLoanBegin EXCEPT !.ix = "FlashLoanSwapBegin"]
FlashLoanEnd == [ForUser("FlashLoanEnd") EXCEPT !.gates = {}]

-----------------------------------------------------------------------------
(* Tokens, their oracles and conditional swaps *)

StubOracleClose == ForAdmin("StubOracleClose", {"testing"})
StubOracleCreate == ForAdmin("StubOracleCreate", {})
StubOracleSet == ForAdmin("StubOracleSet", {})
TokenAddBank == ForAdmin("TokenAddBank", {"multiple_banks", "testing"})
TokenChargeCollateralFees ==
    [ForAnyone("TokenChargeCollateralFees", {"account"}) EXCEPT !.gates = {}]
TokenConditionalSwapCancel == ForUser("TokenConditionalSwapCancel")
TokenConditionalSwapCreate == ForUser("TokenConditionalSwapCreate")
TokenConditionalSwapCreatePremiumAuction ==
    ForUser("TokenConditionalSwapCreatePremiumAuction")
TokenConditionalSwapCreateLinearAuction ==
    ForUser("TokenConditionalSwapCreateLinearAuction")
TokenConditionalSwapStart == ForLiqor("TokenConditionalSwapStart")
TokenConditionalSwapTrigger == ForLiqor("TokenConditionalSwapTrigger")

TokenDeposit == ForUser("TokenDeposit")
TokenDepositIntoExisting ==
    [ForAnyone("TokenDepositIntoExisting", {"account"}) EXCEPT
        !.gates = {"TokenDeposit"}]
TokenDeregister == ForAdmin("TokenDeregister", {"testing"})
TokenEdit == [NoAccounts("TokenEdit") EXCEPT !.gates = {}, !.signer = "security"]
TokenForceCloseBorrowsWithToken == ForLiqor("TokenForceCloseBorrowsWithToken")
TokenForceWithdraw == ForAnyone("TokenForceWithdraw", {"account"})
TokenLiqBankruptcy == ForLiqor("TokenLiqBankruptcy")
TokenLiqWithToken == ForLiqor("TokenLiqWithToken")
TokenRegister == ForAdmin("TokenRegister", {})
TokenRegisterTrustless ==
    [ForAdmin("TokenRegisterTrustless", {}) EXCEPT !.signer = "listing"]
TokenUpdateIndexAndRate == NoAccounts("TokenUpdateIndexAndRate")
TokenWithdraw == ForUser("TokenWithdraw")

-----------------------------------------------------------------------------
(* Perp markets *)

(* For the two cranks of queued orders the key is the one that signed the  *)
(* queued event: anyone may send the transaction.                          *)
CrankFifoQueue == ForUser("CrankFifoQueue")
EnqueuePerpEvent ==
    [NoAccounts("EnqueuePerpEvent") EXCEPT !.gates = {"PerpEnqueueEvent"}]
PerpCancelAllOrders == [ForUser("PerpCancelAllOrders") EXCEPT !.live = {}]
PerpCancelAllOrdersBySide == ForUser("PerpCancelAllOrdersBySide")
PerpCancelOrder == ForUser("PerpCancelOrder")
PerpCancelOrderByClientOrderId ==
    [ForUser("PerpCancelOrderByClientOrderId") EXCEPT !.live = {}]
PerpCloseMarket == ForAdmin("PerpCloseMarket", {"testing"})
PerpConsumeEvents ==
    [ForAnyone("PerpConsumeEvents", {"account"}) EXCEPT !.live = {}]
PerpCrankQueuedOperations == ForUser("PerpCrankQueuedOperations")
PerpCreateMarket == ForAdmin("PerpCreateMarket", {"perps"})
PerpDeactivatePosition == ForUser("PerpDeactivatePosition")
PerpEditMarket ==
    [NoAccounts("PerpEditMarket") EXCEPT !.gates = {}, !.signer = "security"]
PerpEnqueueOperation ==
    [ForAnyone("PerpEnqueueOperation", {"account"}) EXCEPT
        !.gates = {"PerpEnqueueEvent"}, !.live = {}, !.writes = {}]
PerpForceClosePosition ==
    [ForAnyone("PerpForceClosePosition", {"account_a", "account_b"}) EXCEPT
        !.apart = {"account_a", "account_b"}]
PerpForceCloseUnmatched ==
    [ForAnyone("PerpForceCloseUnmatched", {"account"}) EXCEPT
        !.needs = {"main"}, !.signer = "dev"]
PerpLiqBaseOrPositivePnl == ForLiqor("PerpLiqBaseOrPositivePnl")
PerpLiqForceCancelOrders ==
    [ForAnyone("PerpLiqForceCancelOrders", {"account"}) EXCEPT !.live = {}]
PerpLiqNegativePnlOrBankruptcy == ForLiqor("PerpLiqNegativePnlOrBankruptcy")
PerpLiqNegativePnlOrBankruptcyV2 ==
    [PerpLiqNegativePnlOrBankruptcy EXCEPT
        !.ix = "PerpLiqNegativePnlOrBankruptcyV2"]

PerpPlaceOrder == ForUser("PerpPlaceOrder")
PerpSettleFees == ForAnyone("PerpSettleFees", {"account"})
PerpSettlePnl ==
    [ForAnyone("PerpSettlePnl", {"settler", "account_a", "account_b"}) EXCEPT
        !.signer = "ownerOrDelegate", !.principal = "settler",
        !.apart = {"account_a", "account_b"}]
PerpSettleUnmatched ==
    [ForAnyone("PerpSettleUnmatched", {"account"}) EXCEPT
        !.needs = {"main"}, !.signer = "dev"]
PerpUpdateFunding == NoAccounts("PerpUpdateFunding")

-----------------------------------------------------------------------------
(* Serum 3 and OpenBook v2 spot markets *)

Serum3CancelAllOrders == [ForUser("Serum3CancelAllOrders") EXCEPT !.writes = {}]
Serum3CancelOrder == ForUser("Serum3CancelOrder")
Serum3CloseOpenOrders == ForUser("Serum3CloseOpenOrders")
Serum3CreateOpenOrders == ForUser("Serum3CreateOpenOrders")
Serum3DeregisterMarket == ForAdmin("Serum3DeregisterMarket", {"testing"})
Serum3EditMarket ==
    [NoAccounts("Serum3EditMarket") EXCEPT
        !.gates = {}, !.needs = {"serum3"}, !.signer = "security"]
Serum3LiqForceCancelOrders ==
    [ForAnyone("Serum3LiqForceCancelOrders", {"account"}) EXCEPT !.live = {}]
Serum3PlaceOrder == ForUser("Serum3PlaceOrder")
Serum3PlaceOrderV2 == ForUser("Serum3PlaceOrderV2")
Serum3RegisterMarket ==
    [ForAdmin("Serum3RegisterMarket", {"serum3"}) EXCEPT !.signer = "listing"]
Serum3SettleFunds == ForUser("Serum3SettleFunds")
OpenbookV2CancelOrder ==
    [Unimplemented("OpenbookV2CancelOrder") EXCEPT !.gates = {}]
OpenbookV2CloseOpenOrders == Unimplemented("OpenbookV2CloseOpenOrders")
OpenbookV2CreateOpenOrders == Unimplemented("OpenbookV2CreateOpenOrders")
OpenbookV2DeregisterMarket == ForAdmin("OpenbookV2DeregisterMarket", {"testing"})
OpenbookV2EditMarket ==
    [ForAdmin("OpenbookV2EditMarket", {"openbook"}) EXCEPT !.gates = {}]
OpenbookV2LiqForceCancelOrders ==
    [Unimplemented("OpenbookV2LiqForceCancelOrders") EXCEPT !.live = {}]
OpenbookV2PlaceOrder == Unimplemented("OpenbookV2PlaceOrder")
OpenbookV2PlaceTakeOrder == Unimplemented("OpenbookV2PlaceTakeOrder")
OpenbookV2RegisterMarket == ForAdmin("OpenbookV2RegisterMarket", {"openbook"})
OpenbookV2SettleFunds == Unimplemented("OpenbookV2SettleFunds")

-----------------------------------------------------------------------------
AccountRows ==
    {AccountBuybackFeesWithMngo, AccountClose, AccountCreate, AccountEdit,
     AccountExpand, AccountSizeMigration, AccountToggleFreeze,
     AdminPerpWithdrawFees, AdminTokenWithdrawFees, AltExtend, AltSet,
     ComputeAccountData, GroupChangeInsuranceFund, GroupClose, GroupEdit,
     GroupWithdrawInsuranceFund, IxGateSet, SequenceCheck, HealthCheck,
     HealthRegionBegin, HealthRegionEnd, FlashLoanBegin, FlashLoanSwapBegin,
     FlashLoanEnd}

TokenRows ==
    {StubOracleClose, StubOracleCreate, StubOracleSet, TokenAddBank,
     TokenChargeCollateralFees, TokenConditionalSwapCancel,
     TokenConditionalSwapCreate, TokenConditionalSwapCreatePremiumAuction,
     TokenConditionalSwapCreateLinearAuction, TokenConditionalSwapStart,
     TokenConditionalSwapTrigger, TokenDeposit, TokenDepositIntoExisting,
     TokenDeregister, TokenEdit, TokenForceCloseBorrowsWithToken,
     TokenForceWithdraw, TokenLiqBankruptcy, TokenLiqWithToken, TokenRegister,
     TokenRegisterTrustless, TokenUpdateIndexAndRate, TokenWithdraw}

PerpRows ==
    {CrankFifoQueue, EnqueuePerpEvent, PerpCancelAllOrders,
     PerpCancelAllOrdersBySide, PerpCancelOrder, PerpCancelOrderByClientOrderId,
     PerpCloseMarket, PerpConsumeEvents, PerpCrankQueuedOperations,
     PerpCreateMarket, PerpDeactivatePosition, PerpEditMarket,
     PerpEnqueueOperation, PerpForceClosePosition, PerpForceCloseUnmatched,
     PerpLiqBaseOrPositivePnl, PerpLiqForceCancelOrders,
     PerpLiqNegativePnlOrBankruptcy, PerpLiqNegativePnlOrBankruptcyV2,
     PerpPlaceOrder, PerpSettleFees, PerpSettlePnl, PerpSettleUnmatched,
     PerpUpdateFunding}

SpotMarketRows ==
    {Serum3CancelAllOrders, Serum3CancelOrder, Serum3CloseOpenOrders,
     Serum3CreateOpenOrders, Serum3DeregisterMarket, Serum3EditMarket,
     Serum3LiqForceCancelOrders, Serum3PlaceOrder, Serum3PlaceOrderV2,
     Serum3RegisterMarket, Serum3SettleFunds, OpenbookV2CancelOrder,
     OpenbookV2CloseOpenOrders, OpenbookV2CreateOpenOrders,
     OpenbookV2DeregisterMarket, OpenbookV2EditMarket,
     OpenbookV2LiqForceCancelOrders, OpenbookV2PlaceOrder,
     OpenbookV2PlaceTakeOrder, OpenbookV2RegisterMarket, OpenbookV2SettleFunds}

Rows == AccountRows \cup TokenRows \cup PerpRows \cup SpotMarketRows
=============================================================================
