--------------------------- MODULE LiquidatorJobs ---------------------------
(***************************************************************************)
(* The tasks of bin/liquidator and the state they share: the data job that *)
(* follows the chain, the liquidation and TCS jobs that scan the known     *)
(* accounts for work, the transaction workers and the rebalance job. Each  *)
(* action is what one task does between two locks, sends or awaits.        *)
(***************************************************************************)
EXTENDS ErrorTracking, Integers, FiniteSets

CONSTANTS
    Accounts,
    Tcs,            \* <<account, id, volume>>, the keys of interesting_tcs
    Workers,        \* 0 .. max_parallel_operations - 1
    LiqEnabled, TcsEnabled, RebalanceEnabled, \* the jobs that are spawned
    Checks,         \* what checking an account may give, among Results
    Outcomes,       \* what liquidating it may give, among Results
    MaxBatch,       \* max_tcs_batch_size
    LiqThreshold, TcsThreshold, \* skip_threshold of the two trackers
    MaxSignals      \* bound: no TCS scan starts with more signals waiting

\* anyhow::Result<bool>, with the errors that name an oracle apart
Results == {"true", "false", "err", "oracle"}

ASSUME LiquidatorAssumption ==
    /\ Checks \cup Outcomes \subseteq Results
    /\ \A t \in Tcs : t[1] \in Accounts
    /\ 0 \in Workers /\ MaxBatch \in Nat \ {0}
    /\ IsFiniteSet(Accounts) /\ IsFiniteSet(Tcs) /\ IsFiniteSet(Workers)

VARIABLES
    state,      \* SharedState
    chain,      \* what checking each account on the cached chain data gives
    message,    \* {} or {the message the data job has applied to chain}
    liqErrors, tcsErrors, \* LiqErrorType::Liq; TcsCollectionHard
    liqQ, tcsQ, rebalQ,   \* signals in the channels
    liqJob, tcsJob, worker, rebalance

errorVars == <<liqErrors, tcsErrors>>
channels == <<liqQ, tcsQ, rebalQ>>
vars == <<state, chain, message, errorVars, channels, liqJob, tcsJob, worker, rebalance>>

-----------------------------------------------------------------------------
(* indexmap::IndexSet, as a map from each member to its index *)

NoMembers == [x \in {} |-> 0]

insert(set, x) ==
    [y \in DOMAIN set \cup {x} |-> IF y \in DOMAIN set THEN set[y] ELSE Cardinality(DOMAIN set)]

(* Members behind a removed one move up. *)
shift_remove(set, removed) ==
    [y \in DOMAIN set \ removed |->
        set[y] - Cardinality({x \in removed \cap DOMAIN set : set[x] < set[y]})]

(* What iter().filter(..).take(n) may give for the members of from: those  *)
(* in front, and all if there are fewer than n.                            *)
Taken(set, from, n) ==
    {batch \in SUBSET from :
        /\ Cardinality(batch) <= n
        /\ Cardinality(batch) < n => batch = from
        /\ \A x \in batch, y \in from \ batch : set[x] < set[y]}

-----------------------------------------------------------------------------
NoTask == [pc |-> "wait", liq |-> {}, tcs |-> {}]

Init ==
    /\ state = [mango_accounts |-> {}, one_snapshot_done |-> FALSE,
                event |-> FALSE, \* oldest_chain_event_reception_time.is_some()
                candidates |-> NoMembers, interesting_tcs |-> NoMembers,
                processing_liquidation |-> {}, processing_tcs |-> {}]
    /\ chain \in [Accounts -> Checks] /\ message = {}
    /\ liqErrors = NewTracker(Accounts) /\ tcsErrors = NewTracker(Accounts)
    /\ liqQ = 0 /\ tcsQ = 0 /\ rebalQ = 0
    /\ liqJob = [pc |-> "idle", todo |-> {}, at |-> {}, result |-> "false"]
    /\ tcsJob = [pc |-> "idle", todo |-> {}, found |-> {}]
    /\ worker = [w \in Workers |-> NoTask]
    /\ rebalance = "wait"

-----------------------------------------------------------------------------
(* The data job: the message first changes the chain data, then the state. *)

(* A write to a mango account changes its check; a write to another        *)
(* account (an oracle, a bank) or a snapshot may change every check.       *)
DataApply ==
    /\ message = {}
    /\ \E m \in [kind : {"account"}, accounts : {{a} : a \in Accounts} \cup {{}}]
                \cup [kind : {"snapshot"}, accounts : SUBSET Accounts],
          new \in [Accounts -> Checks] :
        /\ m.kind = "account" /\ m.accounts # {} =>
            \A a \in Accounts \ m.accounts : new[a] = chain[a]
        /\ message' = {m}
        /\ chain' = new
    /\ UNCHANGED <<state, errorVars, channels, liqJob, tcsJob, worker, rebalance>>

DataNote ==
    \E m \in message :
        /\ message' = {}
        /\ state' = [state EXCEPT !.event = TRUE,
                        !.mango_accounts = @ \cup m.accounts,
                        !.one_snapshot_done = @ \/ m.kind = "snapshot"]
        /\ UNCHANGED <<chain, errorVars, channels, liqJob, tcsJob, worker,
                       rebalance>>

-----------------------------------------------------------------------------
(* The liquidation job *)

(* log_or_ignore_error: what a result does to the tracker. *)
log_or_ignore_error(errors, a, result) ==
    CASE result = "oracle" -> errors
      [] result = "err" -> record(errors, a, LiqThreshold)
      [] OTHER -> clear(errors, a)

LiqTick ==
    /\ LiqEnabled /\ liqJob.pc = "idle"
    /\ \/ /\ ~state.one_snapshot_done
          /\ state' = [state EXCEPT !.event = FALSE]
          /\ UNCHANGED <<liqErrors, liqJob>>
       \/ /\ state.one_snapshot_done /\ state.event
          /\ liqErrors' = update(liqErrors)
          /\ liqJob' = [liqJob EXCEPT !.pc = "pick", !.todo = state.mango_accounts]
          /\ UNCHANGED state
    /\ UNCHANGED <<chain, message, tcsErrors, channels, tcsJob, worker, rebalance>>

(* find_candidates: the accounts in any order. The check reads the chain   *)
(* data before it awaits, its result is used afterwards.                   *)
LiqPick(a) ==
    /\ liqJob.pc = "pick" /\ a \in liqJob.todo
    /\ liqJob' =
        IF had_too_many_errors(liqErrors, a, LiqThreshold)
        THEN [liqJob EXCEPT !.todo = @ \ {a}]
        ELSE [liqJob EXCEPT !.todo = @ \ {a}, !.pc = "log", !.at = {a},
                            !.result = chain[a]]
    /\ UNCHANGED <<state, chain, message, errorVars, channels, tcsJob, worker,
                   rebalance>>

NextAccount(job) == [job EXCEPT !.pc = "pick", !.at = {}, !.result = "false"]

LiqLog ==
    /\ liqJob.pc = "log"
    /\ \E a \in liqJob.at :
        liqErrors' = log_or_ignore_error(liqErrors, a, liqJob.result)
    /\ liqJob' = IF liqJob.result = "true" THEN [liqJob EXCEPT !.pc = "insert"]
                 ELSE NextAccount(liqJob)
    /\ UNCHANGED <<state, chain, message, tcsErrors, channels, tcsJob, worker,
                   rebalance>>

LiqInsert ==
    /\ liqJob.pc = "insert"
    /\ \E a \in liqJob.at :
        IF a \in DOMAIN state.candidates
        THEN liqJob' = NextAccount(liqJob) /\ UNCHANGED state
        ELSE /\ state' = [state EXCEPT !.candidates = insert(@, a)]
             /\ liqJob' = [liqJob EXCEPT !.pc = "signal"]
    /\ UNCHANGED <<chain, message, errorVars, channels, tcsJob, worker, rebalance>>

LiqSignal ==
    /\ liqJob.pc = "signal"
    /\ liqQ' = liqQ + 1
    /\ liqJob' = NextAccount(liqJob)
    /\ UNCHANGED <<state, chain, message, errorVars, tcsQ, rebalQ, tcsJob, worker,
                   rebalance>>

(* The end of a scan takes the reception time of the event and resets it.  *)
LiqEnd ==
    /\ liqJob.pc = "pick" /\ liqJob.todo = {}
    /\ state' = [state EXCEPT !.event = FALSE]
    /\ liqJob' = [liqJob EXCEPT !.pc = "idle"]
    /\ UNCHANGED <<chain, message, errorVars, channels, tcsJob, worker, rebalance>>

-----------------------------------------------------------------------------
(* The TCS job *)

(* The time against which errors are old is taken when the scan starts,    *)
(* and only the scan itself records this type of error.                    *)
TcsTick ==
    /\ TcsEnabled /\ tcsJob.pc = "idle" /\ state.one_snapshot_done
    /\ liqQ + tcsQ <= MaxSignals
    /\ tcsErrors' = update(tcsErrors)
    /\ tcsJob' = [tcsJob EXCEPT !.pc = "pick",
                    !.todo = {a \in state.mango_accounts :
                        ~had_too_many_errors(tcsErrors', a, TcsThreshold)}]
    /\ UNCHANGED <<state, chain, message, liqErrors, channels, liqJob, worker,
                   rebalance>>

(* find_interesting_tcs_for_account: at most one volume for each swap.     *)
Finds(a) ==
    {f \in SUBSET {t \in Tcs : t[1] = a} : \A t, u \in f : t[2] = u[2] => t = u}

TcsPick(a) ==
    /\ tcsJob.pc = "pick" /\ a \in tcsJob.todo
    /\ \/ /\ "err" \in Checks
          /\ tcsErrors' = record(tcsErrors, a, TcsThreshold)
          /\ tcsJob' = [tcsJob EXCEPT !.todo = @ \ {a}]
       \/ \E f \in Finds(a) :
          /\ tcsErrors' = clear(tcsErrors, a)
          /\ tcsJob' = [tcsJob EXCEPT !.todo = @ \ {a}, !.found = f,
                                      !.pc = IF f = {} THEN "pick" ELSE "insert"]
    /\ UNCHANGED <<state, chain, message, liqErrors, channels, liqJob, worker,
                   rebalance>>

NextFound(job) == [job EXCEPT !.pc = IF job.found = {} THEN "pick" ELSE "insert"]

(* One after the other, in the order of the slots they take in their       *)
(* account, which may be any.                                              *)
TcsInsert ==
    /\ tcsJob.pc = "insert"
    /\ \E t \in tcsJob.found :
        LET job == [tcsJob EXCEPT !.found = @ \ {t}] IN
        IF t \in DOMAIN state.interesting_tcs
        THEN tcsJob' = NextFound(job) /\ UNCHANGED state
        ELSE /\ state' = [state EXCEPT !.interesting_tcs = insert(@, t)]
             /\ tcsJob' = [job EXCEPT !.pc = "signal"]
    /\ UNCHANGED <<chain, message, errorVars, channels, liqJob, worker, rebalance>>

TcsSignal ==
    /\ tcsJob.pc = "signal"
    /\ tcsQ' = tcsQ + 1
    /\ tcsJob' = NextFound(tcsJob)
    /\ UNCHANGED <<state, chain, message, errorVars, liqQ, rebalQ, liqJob, worker,
                   rebalance>>

TcsEnd ==
    /\ tcsJob.pc = "pick" /\ tcsJob.todo = {}
    /\ tcsJob' = [tcsJob EXCEPT !.pc = "idle"]
    /\ UNCHANGED <<state, chain, message, errorVars, channels, liqJob, worker,
                   rebalance>>

-----------------------------------------------------------------------------
(* The transaction workers *)

Reserved == IF Cardinality(Workers) > 1 /\ LiqEnabled THEN {0} ELSE {}

(* The wait of worker_loop. *)
WorkerWait(w) ==
    /\ worker[w].pc = "wait"
    /\ \/ liqQ > 0 /\ liqQ' = liqQ - 1 /\ UNCHANGED tcsQ
       \/ w \notin Reserved /\ tcsQ > 0 /\ tcsQ' = tcsQ - 1 /\ UNCHANGED liqQ
    /\ worker' = [worker EXCEPT ![w].pc = "woken"]
    /\ UNCHANGED <<state, chain, message, errorVars, rebalQ, liqJob, tcsJob,
                   rebalance>>

UnclaimedLiq == DOMAIN state.candidates \ state.processing_liquidation
UnclaimedTcs == DOMAIN state.interesting_tcs \ state.processing_tcs

ClaimLiquidation(w, a) ==
    /\ state' = [state EXCEPT !.processing_liquidation = @ \cup {a}]
    /\ worker' = [worker EXCEPT ![w] = [pc |-> "claimed", liq |-> {a}, tcs |-> {}]]

(* With an empty batch (NoWork) the worker waits again. *)
ClaimTcs(w, batch) ==
    /\ state' = [state EXCEPT !.processing_tcs = @ \cup batch]
    /\ worker' = [worker EXCEPT ![w] =
        [pc |-> IF batch = {} THEN "wait" ELSE "claimed", liq |-> {}, tcs |-> batch]]

(* Fault: the signal is not handed on. *)
DropSignal(w) == worker' = [worker EXCEPT ![w].pc = "wait"] /\ UNCHANGED state

GiveUpTcs(w) == worker' = [worker EXCEPT ![w].pc = "giveup"] /\ UNCHANGED state

(* The first liquidation nobody processes; or else the reserved worker     *)
(* gives up, another takes the first swaps nobody processes.               *)
worker_pull_task(w) ==
    IF UnclaimedLiq # {}
    THEN \E a \in UnclaimedLiq :
        /\ \A b \in UnclaimedLiq : state.candidates[a] <= state.candidates[b]
        /\ ClaimLiquidation(w, a)
    ELSE IF w \in Reserved THEN GiveUpTcs(w)
    ELSE \E batch \in Taken(state.interesting_tcs, UnclaimedTcs, MaxBatch) :
        ClaimTcs(w, batch)

WorkerPull(w) ==
    /\ worker[w].pc = "woken"
    /\ worker_pull_task(w)
    /\ UNCHANGED <<chain, message, errorVars, channels, liqJob, tcsJob, rebalance>>

worker_give_up_tcs(w) ==
    /\ worker[w].pc = "giveup"
    /\ tcsQ' = tcsQ + 1
    /\ worker' = [worker EXCEPT ![w].pc = "wait"]
    /\ UNCHANGED <<state, chain, message, errorVars, liqQ, rebalQ, liqJob, tcsJob,
                   rebalance>>

(* maybe_liquidate_and_log_error up to its await. *)
LiquidateStart(w) ==
    /\ worker[w].pc = "claimed"
    /\ \E a \in worker[w].liq :
        worker' = [worker EXCEPT ![w].pc =
            IF had_too_many_errors(liqErrors, a, LiqThreshold) THEN "finish" ELSE "busy"]
    /\ UNCHANGED <<state, chain, message, errorVars, channels, liqJob, tcsJob,
                   rebalance>>

(* send_unless_full on a channel for one signal. *)
TriggerRebalance(needed) == rebalQ' = IF needed THEN 1 ELSE rebalQ

(* The rest of it: the account was fetched anew, and refreshed in the      *)
(* chain data without an event.                                            *)
LiquidateDone(w) ==
    /\ worker[w].pc = "busy"
    /\ \E a \in worker[w].liq, result \in Outcomes, seen \in Checks :
        /\ liqErrors' = log_or_ignore_error(liqErrors, a, result)
        /\ chain' = [chain EXCEPT ![a] = seen]
        /\ TriggerRebalance(result = "true")
    /\ worker' = [worker EXCEPT ![w].pc = "finish"]
    /\ UNCHANGED <<state, message, tcsErrors, liqQ, tcsQ, liqJob, tcsJob, rebalance>>

(* maybe_take_token_conditional_swap: swaps of a batch may be executed.     *)
TakeTcs(w) ==
    /\ worker[w].pc = "claimed" /\ worker[w].tcs # {}
    /\ \E taken \in BOOLEAN : TriggerRebalance(taken)
    /\ worker' = [worker EXCEPT ![w].pc = "finish"]
    /\ UNCHANGED <<state, chain, message, errorVars, liqQ, tcsQ, liqJob, tcsJob,
                   rebalance>>

worker_finalize_task(w) ==
    /\ worker[w].pc = "finish"
    /\ state' = [state EXCEPT
        !.candidates = shift_remove(@, worker[w].liq),
        !.processing_liquidation = @ \ worker[w].liq,
        !.interesting_tcs = shift_remove(@, worker[w].tcs),
        !.processing_tcs = @ \ worker[w].tcs]
    /\ worker' = [worker EXCEPT ![w] = NoTask]
    /\ UNCHANGED <<chain, message, errorVars, channels, liqJob, tcsJob, rebalance>>

-----------------------------------------------------------------------------
(* The rebalance job: it wakes for a trigger or by its interval, and       *)
(* sleeps after an error.                                                  *)

StartRebalance == rebalance' = IF state.one_snapshot_done THEN "run" ELSE rebalance

RebalanceTriggered ==
    /\ RebalanceEnabled /\ rebalance = "wait" /\ rebalQ = 1
    /\ rebalQ' = 0
    /\ StartRebalance
    /\ UNCHANGED <<state, chain, message, errorVars, liqQ, tcsQ, liqJob, tcsJob,
                   worker>>

RebalanceTick ==
    /\ RebalanceEnabled /\ rebalance = "wait"
    /\ StartRebalance
    /\ UNCHANGED <<state, chain, message, errorVars, channels, liqJob, tcsJob, worker>>

RebalanceEnd ==
    /\ rebalance = "run"
    /\ rebalance' \in {"wait", "sleep"}
    /\ UNCHANGED <<state, chain, message, errorVars, channels, liqJob, tcsJob, worker>>

RebalanceWake ==
    /\ rebalance = "sleep"
    /\ rebalance' = "wait"
    /\ UNCHANGED <<state, chain, message, errorVars, channels, liqJob, tcsJob, worker>>

(* Time passes for the trackers. *)
Tick ==
    /\ liqErrors' = Elapse(liqErrors) /\ tcsErrors' = Elapse(tcsErrors)
    /\ UNCHANGED <<state, chain, message, channels, liqJob, tcsJob, worker, rebalance>>

-----------------------------------------------------------------------------
LiqStep ==
    \/ LiqTick \/ LiqLog \/ LiqInsert \/ LiqSignal \/ LiqEnd
    \/ \E a \in Accounts : LiqPick(a)
TcsStep ==
    \/ TcsTick \/ TcsInsert \/ TcsSignal \/ TcsEnd
    \/ \E a \in Accounts : TcsPick(a)
WorkerStep(w) ==
    \/ WorkerWait(w) \/ WorkerPull(w) \/ worker_give_up_tcs(w)
    \/ LiquidateStart(w) \/ LiquidateDone(w) \/ TakeTcs(w) \/ worker_finalize_task(w)
RebalanceStep == RebalanceTriggered \/ RebalanceTick \/ RebalanceEnd \/ RebalanceWake

Next ==
    \/ DataApply \/ DataNote
    \/ LiqStep \/ TcsStep
    \/ \E w \in Workers : WorkerStep(w)
    \/ RebalanceStep
    \/ Tick

Spec == Init /\ [][Next]_vars

-----------------------------------------------------------------------------

(* The tasks between a find and its signal, and between a signal and its use. *)
LiqDue == IF liqJob.pc = "signal" THEN 1 ELSE 0
TcsDue == IF tcsJob.pc = "signal" THEN 1 ELSE 0
Woken == {w \in Workers : worker[w].pc = "woken"}
Giving == {w \in Workers : worker[w].pc = "giveup"}

Signals == INSTANCE WorkSignals WITH
    Liq <- Accounts, liq <- UnclaimedLiq, tcs <- UnclaimedTcs,
    liqDue <- LiqDue, tcsDue <- TcsDue, woken <- Woken, giving <- Giving

\* The jobs and workers keep the protocol of WorkSignals, which loses no wakeup.
KeepsSignals == Signals!Spec

=============================================================================
