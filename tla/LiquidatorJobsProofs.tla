------------------------ MODULE LiquidatorJobsProofs ------------------------
(***************************************************************************)
(* The tasks of the liquidator keep the protocol of WorkSignals, for any   *)
(* accounts, swaps, workers, batch size and thresholds.  The invariant     *)
(* says which worker has claimed what: a claim is only given back by the   *)
(* worker that made it, so finishing a task leaves unclaimed work alone.   *)
(***************************************************************************)
EXTENDS LiquidatorJobs, FiniteSetTheorems, TLAPS

IndexSet(S) == UNION {[T -> Int] : T \in SUBSET S}

StateType ==
    [mango_accounts : SUBSET Accounts, one_snapshot_done : BOOLEAN, event : BOOLEAN,
     candidates : IndexSet(Accounts), interesting_tcs : IndexSet(Tcs),
     processing_liquidation : SUBSET Accounts, processing_tcs : SUBSET Tcs]

WorkerType ==
    [pc : {"wait", "woken", "giveup", "claimed", "busy", "finish"},
     liq : SUBSET Accounts, tcs : SUBSET Tcs]

TypeOK ==
    /\ state \in StateType
    /\ chain \in [Accounts -> Checks]
    /\ message \in SUBSET [kind : {"account", "snapshot"}, accounts : SUBSET Accounts]
    /\ liqQ \in Nat /\ tcsQ \in Nat
    /\ liqJob \in [pc : {"idle", "pick", "log", "insert", "signal"}, todo : SUBSET Accounts,
                   at : SUBSET Accounts, result : Results]
    /\ tcsJob \in [pc : {"idle", "pick", "insert", "signal"}, todo : SUBSET Accounts,
                   found : SUBSET Tcs]
    /\ worker \in [Workers -> WorkerType]

\* What is being processed is in the lists, and is what the workers have
\* claimed, each piece one worker: a claim is neither forgotten nor shared.
ClaimsHeld ==
    /\ state.processing_liquidation \subseteq DOMAIN state.candidates
    /\ state.processing_tcs \subseteq DOMAIN state.interesting_tcs
    /\ state.processing_liquidation = UNION {worker[w].liq : w \in Workers}
    /\ state.processing_tcs = UNION {worker[w].tcs : w \in Workers}
    /\ \A v, w \in Workers : v # w =>
        worker[v].liq \cap worker[w].liq = {} /\ worker[v].tcs \cap worker[w].tcs = {}

\* A worker has claimed something only between its pull and the end of its task.
IdleHoldNothing ==
    \A w \in Workers : worker[w].pc \in {"wait", "woken", "giveup"} =>
        worker[w].liq = {} /\ worker[w].tcs = {}

IInv == TypeOK /\ ClaimsHeld /\ IdleHoldNothing

-----------------------------------------------------------------------------
(* IndexSet *)

LEMMA MembersDomain ==
    ASSUME NEW S, NEW set \in IndexSet(S)
    PROVE  DOMAIN set \subseteq S
  BY DEF IndexSet

LEMMA NoMembersType ==
    ASSUME NEW S
    PROVE  NoMembers \in IndexSet(S) /\ DOMAIN NoMembers = {}
  BY DEF IndexSet, NoMembers

\* A new member is added.
LEMMA InsertMember ==
    ASSUME NEW S, IsFiniteSet(S), NEW set \in IndexSet(S), NEW x \in S
    PROVE  /\ insert(set, x) \in IndexSet(S)
           /\ DOMAIN insert(set, x) = DOMAIN set \cup {x}
  <1>1. DOMAIN insert(set, x) = DOMAIN set \cup {x}
    BY DEF insert
  <1>2. PICK T \in SUBSET S : set \in [T -> Int]
    BY DEF IndexSet
  <1>3. Cardinality(T) \in Int
    BY <1>2, FS_Subset, FS_CardinalityType
  <1>4. insert(set, x) \in [T \cup {x} -> Int]
    BY <1>2, <1>3 DEF insert
  <1> QED
    BY <1>1, <1>4 DEF IndexSet

\* Members are removed, and the others stay.
LEMMA RemoveMembers ==
    ASSUME NEW S, IsFiniteSet(S), NEW set \in IndexSet(S), NEW removed
    PROVE  /\ shift_remove(set, removed) \in IndexSet(S)
           /\ DOMAIN shift_remove(set, removed) = DOMAIN set \ removed
  <1>1. DOMAIN shift_remove(set, removed) = DOMAIN set \ removed
    BY DEF shift_remove
  <1>2. PICK T \in SUBSET S : set \in [T -> Int]
    BY DEF IndexSet
  <1>3. ASSUME NEW y \in T
        PROVE  Cardinality({x \in removed \cap DOMAIN set : set[x] < set[y]}) \in Int
    <2>1. {x \in removed \cap DOMAIN set : set[x] < set[y]} \subseteq S
      BY <1>2
    <2> QED
      BY <2>1, FS_Subset, FS_CardinalityType
  <1>4. shift_remove(set, removed) \in [T \ removed -> Int]
    BY <1>2, <1>3 DEF shift_remove
  <1> QED
    BY <1>1, <1>4 DEF IndexSet

-----------------------------------------------------------------------------
(* The invariant *)

LEMMA InitInv == Init => IInv
  <1> SUFFICES ASSUME Init PROVE IInv
    OBVIOUS
  <1>1. TypeOK
    BY NoMembersType, LiquidatorAssumption
    DEF Init, TypeOK, StateType, WorkerType, NoTask, Results
  <1>2. ClaimsHeld /\ IdleHoldNothing
    BY NoMembersType DEF Init, ClaimsHeld, IdleHoldNothing, NoTask
  <1> QED
    BY <1>1, <1>2 DEF IInv

\* A step that leaves the work lists and the workers alone keeps the claims.
LEMMA SameClaims ==
    ASSUME ClaimsHeld, IdleHoldNothing, worker' = worker,
           DOMAIN state.candidates \subseteq DOMAIN state'.candidates,
           DOMAIN state.interesting_tcs \subseteq DOMAIN state'.interesting_tcs,
           state'.processing_liquidation = state.processing_liquidation,
           state'.processing_tcs = state.processing_tcs
    PROVE  ClaimsHeld' /\ IdleHoldNothing'
  BY DEF ClaimsHeld, IdleHoldNothing

\* The data job only adds accounts.
LEMMA DataKeeps ==
    ASSUME IInv, DataApply \/ DataNote
    PROVE  IInv'
  <1>0. TypeOK /\ ClaimsHeld /\ IdleHoldNothing
    BY DEF IInv
  <1>1. CASE DataApply
    <2>1. TypeOK'
      BY <1>0, <1>1 DEF TypeOK, DataApply, channels
    <2> QED
      BY <1>0, <1>1, <2>1, SameClaims DEF IInv, DataApply
  <1>2. CASE DataNote
    <2>1. PICK m \in message :
            state' = [state EXCEPT !.event = TRUE,
                        !.mango_accounts = @ \cup m.accounts,
                        !.one_snapshot_done = @ \/ m.kind = "snapshot"]
      BY <1>2 DEF DataNote
    <2>2. state' \in StateType
      BY <1>0, <2>1 DEF TypeOK, StateType
    <2>3. TypeOK'
      BY <1>0, <1>2, <2>2 DEF TypeOK, DataNote, channels
    <2>4. /\ state'.candidates = state.candidates
          /\ state'.interesting_tcs = state.interesting_tcs
          /\ state'.processing_liquidation = state.processing_liquidation
          /\ state'.processing_tcs = state.processing_tcs
      BY <1>0, <2>1 DEF TypeOK, StateType
    <2> QED
      BY <1>0, <1>2, <2>3, <2>4, SameClaims DEF IInv, DataNote
  <1> QED
    BY <1>1, <1>2

\* The reset of the reception time.
LEMMA EventReset ==
    ASSUME state \in StateType, state' = [state EXCEPT !.event = FALSE]
    PROVE  /\ state' \in StateType
           /\ state'.candidates = state.candidates
           /\ state'.interesting_tcs = state.interesting_tcs
           /\ state'.processing_liquidation = state.processing_liquidation
           /\ state'.processing_tcs = state.processing_tcs
  BY DEF StateType

\* The liquidation job enters accounts and claims nothing.
LEMMA LiqKeeps ==
    ASSUME IInv, LiqStep
    PROVE  IInv'
  <1>0. TypeOK /\ ClaimsHeld /\ IdleHoldNothing
    BY DEF IInv
  <1>1. CASE LiqTick
    <2>1. CASE ~state.one_snapshot_done
      <3>1. state' = [state EXCEPT !.event = FALSE] /\ liqJob' = liqJob
        BY <1>1, <2>1 DEF LiqTick
      <3>2. TypeOK'
        BY <1>0, <1>1, <3>1, EventReset DEF TypeOK, LiqTick, channels
      <3> QED
        BY <1>0, <1>1, <3>1, <3>2, EventReset, SameClaims DEF IInv, LiqTick, TypeOK
    <2>2. CASE state.one_snapshot_done
      <3>1. state' = state
            /\ liqJob' = [liqJob EXCEPT !.pc = "pick", !.todo = state.mango_accounts]
        BY <1>1, <2>2 DEF LiqTick
      <3>2. state.mango_accounts \in SUBSET Accounts
        BY <1>0 DEF TypeOK, StateType
      <3>3. TypeOK'
        BY <1>0, <1>1, <3>1, <3>2 DEF TypeOK, LiqTick, channels
      <3> QED
        BY <1>0, <1>1, <3>1, <3>3, SameClaims DEF IInv, LiqTick
    <2> QED
      BY <2>1, <2>2
  <1>2. CASE LiqLog
    <2>1. TypeOK'
      BY <1>0, <1>2 DEF TypeOK, LiqLog, NextAccount, Results, channels
    <2> QED
      BY <1>0, <1>2, <2>1, SameClaims DEF IInv, LiqLog
  <1>3. CASE LiqInsert
    <2>1. PICK a \in liqJob.at :
            IF a \in DOMAIN state.candidates
            THEN liqJob' = NextAccount(liqJob) /\ UNCHANGED state
            ELSE /\ state' = [state EXCEPT !.candidates = insert(@, a)]
                 /\ liqJob' = [liqJob EXCEPT !.pc = "signal"]
      BY <1>3 DEF LiqInsert
    <2>2. a \in Accounts /\ state.candidates \in IndexSet(Accounts)
      BY <1>0 DEF TypeOK, StateType
    <2>3. /\ insert(state.candidates, a) \in IndexSet(Accounts)
          /\ DOMAIN insert(state.candidates, a) = DOMAIN state.candidates \cup {a}
      <3>1. \A set \in IndexSet(Accounts) : \A x \in Accounts :
              /\ insert(set, x) \in IndexSet(Accounts)
              /\ DOMAIN insert(set, x) = DOMAIN set \cup {x}
        BY InsertMember, LiquidatorAssumption
      <3> QED
        BY <2>2, <3>1
    <2>4. CASE a \in DOMAIN state.candidates
      <3>1. liqJob' = NextAccount(liqJob) /\ state' = state
        BY <2>1, <2>4
      <3>2. TypeOK'
        BY <1>0, <1>3, <3>1 DEF TypeOK, LiqInsert, NextAccount, Results, channels
      <3> QED
        BY <1>0, <1>3, <3>1, <3>2, SameClaims DEF IInv, LiqInsert
    <2>5. CASE a \notin DOMAIN state.candidates
      <3>1. /\ state' = [state EXCEPT !.candidates = insert(state.candidates, a)]
            /\ liqJob' = [liqJob EXCEPT !.pc = "signal"]
        BY <2>1, <2>5
      <3>2. state' \in StateType
        BY <1>0, <2>3, <3>1 DEF TypeOK, StateType
      <3>3. /\ state'.candidates = insert(state.candidates, a)
            /\ state'.interesting_tcs = state.interesting_tcs
            /\ state'.processing_liquidation = state.processing_liquidation
            /\ state'.processing_tcs = state.processing_tcs
        BY <1>0, <3>1 DEF TypeOK, StateType
      <3>4. TypeOK'
        BY <1>0, <1>3, <3>1, <3>2 DEF TypeOK, LiqInsert, channels
      <3> QED
        BY <1>0, <1>3, <2>3, <3>3, <3>4, SameClaims DEF IInv, LiqInsert
    <2> QED
      BY <2>4, <2>5
  <1>4. CASE LiqSignal
    <2>1. liqJob' \in [pc : {"idle", "pick", "log", "insert", "signal"}, todo : SUBSET Accounts,
                       at : SUBSET Accounts, result : Results]
      BY <1>0, <1>4 DEF TypeOK, LiqSignal, NextAccount, Results
    <2>2. liqQ' \in Nat
      BY <1>0, <1>4 DEF TypeOK, LiqSignal
    <2>3. TypeOK'
      BY <1>0, <1>4, <2>1, <2>2 DEF TypeOK, LiqSignal
    <2> QED
      BY <1>0, <1>4, <2>3, SameClaims DEF IInv, LiqSignal
  <1>5. CASE LiqEnd
    <2>1. TypeOK'
      BY <1>0, <1>5, EventReset DEF TypeOK, LiqEnd, channels
    <2> QED
      BY <1>0, <1>5, <2>1, EventReset, SameClaims DEF IInv, LiqEnd, TypeOK
  <1>6. ASSUME NEW a \in Accounts, LiqPick(a) PROVE IInv'
    <2>1. chain[a] \in Results
      BY <1>0, LiquidatorAssumption DEF TypeOK
    <2>2. TypeOK'
      BY <1>0, <1>6, <2>1 DEF TypeOK, LiqPick, channels
    <2> QED
      BY <1>0, <1>6, <2>2, SameClaims DEF IInv, LiqPick
  <1> QED
    BY <1>1, <1>2, <1>3, <1>4, <1>5, <1>6 DEF LiqStep

\* The TCS job enters swaps and claims nothing.
LEMMA TcsKeeps ==
    ASSUME IInv, TcsStep
    PROVE  IInv'
  <1>0. TypeOK /\ ClaimsHeld /\ IdleHoldNothing
    BY DEF IInv
  <1>1. CASE TcsTick
    <2>1. state.mango_accounts \in SUBSET Accounts
      BY <1>0 DEF TypeOK, StateType
    <2>2. TypeOK'
      BY <1>0, <1>1, <2>1 DEF TypeOK, TcsTick, channels
    <2> QED
      BY <1>0, <1>1, <2>2, SameClaims DEF IInv, TcsTick
  <1>2. CASE TcsInsert
    <2>1. PICK t \in tcsJob.found :
            LET job == [tcsJob EXCEPT !.found = @ \ {t}] IN
            IF t \in DOMAIN state.interesting_tcs
            THEN tcsJob' = NextFound(job) /\ UNCHANGED state
            ELSE /\ state' = [state EXCEPT !.interesting_tcs = insert(@, t)]
                 /\ tcsJob' = [job EXCEPT !.pc = "signal"]
      BY <1>2 DEF TcsInsert
    <2>2. t \in Tcs /\ state.interesting_tcs \in IndexSet(Tcs)
      BY <1>0 DEF TypeOK, StateType
    <2>3. /\ insert(state.interesting_tcs, t) \in IndexSet(Tcs)
          /\ DOMAIN insert(state.interesting_tcs, t) = DOMAIN state.interesting_tcs \cup {t}
      <3>1. \A set \in IndexSet(Tcs) : \A x \in Tcs :
              /\ insert(set, x) \in IndexSet(Tcs)
              /\ DOMAIN insert(set, x) = DOMAIN set \cup {x}
        BY InsertMember, LiquidatorAssumption
      <3> QED
        BY <2>2, <3>1
    <2>4. CASE t \in DOMAIN state.interesting_tcs
      <3>1. tcsJob' = NextFound([tcsJob EXCEPT !.found = @ \ {t}]) /\ state' = state
        BY <2>1, <2>4
      <3>2. TypeOK'
        BY <1>0, <1>2, <3>1 DEF TypeOK, TcsInsert, NextFound, channels
      <3> QED
        BY <1>0, <1>2, <3>1, <3>2, SameClaims DEF IInv, TcsInsert
    <2>5. CASE t \notin DOMAIN state.interesting_tcs
      <3>1. /\ state' = [state EXCEPT !.interesting_tcs = insert(state.interesting_tcs, t)]
            /\ tcsJob' = [tcsJob EXCEPT !.found = @ \ {t}, !.pc = "signal"]
        BY <2>1, <2>5
      <3>2. state' \in StateType
        BY <1>0, <2>3, <3>1 DEF TypeOK, StateType
      <3>3. /\ state'.candidates = state.candidates
            /\ state'.interesting_tcs = insert(state.interesting_tcs, t)
            /\ state'.processing_liquidation = state.processing_liquidation
            /\ state'.processing_tcs = state.processing_tcs
        BY <1>0, <3>1 DEF TypeOK, StateType
      <3>4. TypeOK'
        BY <1>0, <1>2, <3>1, <3>2 DEF TypeOK, TcsInsert, channels
      <3> QED
        BY <1>0, <1>2, <2>3, <3>3, <3>4, SameClaims DEF IInv, TcsInsert
    <2> QED
      BY <2>4, <2>5
  <1>3. CASE TcsSignal
    <2>1. TypeOK'
      BY <1>0, <1>3 DEF TypeOK, TcsSignal, NextFound
    <2> QED
      BY <1>0, <1>3, <2>1, SameClaims DEF IInv, TcsSignal
  <1>4. CASE TcsEnd
    <2>1. TypeOK'
      BY <1>0, <1>4 DEF TypeOK, TcsEnd, channels
    <2> QED
      BY <1>0, <1>4, <2>1, SameClaims DEF IInv, TcsEnd
  <1>5. ASSUME NEW a \in Accounts, TcsPick(a) PROVE IInv'
    <2>1. tcsJob' \in [pc : {"idle", "pick", "insert", "signal"}, todo : SUBSET Accounts,
                       found : SUBSET Tcs]
      <3>1. CASE tcsJob' = [tcsJob EXCEPT !.todo = @ \ {a}]
        BY <1>0, <3>1 DEF TypeOK
      <3>2. ASSUME NEW f \in SUBSET Tcs,
                   tcsJob' = [tcsJob EXCEPT !.todo = @ \ {a}, !.found = f,
                                            !.pc = IF f = {} THEN "pick" ELSE "insert"]
            PROVE  tcsJob' \in [pc : {"idle", "pick", "insert", "signal"},
                                todo : SUBSET Accounts, found : SUBSET Tcs]
        BY <1>0, <3>2 DEF TypeOK
      <3>3. Finds(a) \subseteq SUBSET Tcs
        BY DEF Finds
      <3> QED
        BY <1>5, <3>1, <3>2, <3>3 DEF TcsPick
    <2>2. TypeOK'
      BY <1>0, <1>5, <2>1 DEF TypeOK, TcsPick, channels
    <2> QED
      BY <1>0, <1>5, <2>2, SameClaims DEF IInv, TcsPick
  <1> QED
    BY <1>1, <1>2, <1>3, <1>4, <1>5 DEF TcsStep

-----------------------------------------------------------------------------
(* The workers *)

\* A worker that goes on to its next point without a claim or a release.
LEMMA PcKeeps ==
    ASSUME TypeOK, ClaimsHeld, IdleHoldNothing, state' = state, NEW w \in Workers,
           NEW pc \in {"wait", "woken", "giveup", "claimed", "busy", "finish"},
           worker' = [worker EXCEPT ![w].pc = pc],
           pc \in {"wait", "woken", "giveup"} =>
               worker[w].pc \in {"wait", "woken", "giveup"}
    PROVE  worker' \in [Workers -> WorkerType] /\ ClaimsHeld' /\ IdleHoldNothing'
  <1>1. worker' \in [Workers -> WorkerType]
    BY DEF TypeOK, WorkerType
  <1>2. \A v \in Workers : worker'[v].liq = worker[v].liq /\ worker'[v].tcs = worker[v].tcs
    BY DEF TypeOK, WorkerType
  <1>3. \A v \in Workers : v # w => worker'[v].pc = worker[v].pc
    BY DEF TypeOK, WorkerType
  <1>4. worker'[w].pc = pc
    BY DEF TypeOK, WorkerType
  <1>5. ClaimsHeld'
    BY <1>2 DEF ClaimsHeld
  <1>6. IdleHoldNothing'
    BY <1>2, <1>3, <1>4 DEF IdleHoldNothing
  <1> QED
    BY <1>1, <1>5, <1>6

\* A worker that held nothing claims what nobody had claimed.
LEMMA ClaimKeeps ==
    ASSUME TypeOK, ClaimsHeld, IdleHoldNothing, NEW w \in Workers,
           worker[w].pc \in {"wait", "woken", "giveup"},
           NEW pc \in {"wait", "claimed"},
           NEW L \in SUBSET UnclaimedLiq, NEW T \in SUBSET UnclaimedTcs,
           pc = "wait" => L = {} /\ T = {},
           state' = [state EXCEPT !.processing_liquidation = @ \cup L,
                                  !.processing_tcs = @ \cup T],
           worker' = [worker EXCEPT ![w] = [pc |-> pc, liq |-> L, tcs |-> T]]
    PROVE  /\ state' \in StateType /\ worker' \in [Workers -> WorkerType]
           /\ ClaimsHeld' /\ IdleHoldNothing'
  <1>1. /\ DOMAIN state.candidates \subseteq Accounts
        /\ DOMAIN state.interesting_tcs \subseteq Tcs
    BY MembersDomain DEF TypeOK, StateType
  <1>2. L \subseteq Accounts /\ T \subseteq Tcs
    BY <1>1 DEF UnclaimedLiq, UnclaimedTcs
  <1>3. state' \in StateType
    BY <1>2 DEF TypeOK, StateType
  <1>4. worker' \in [Workers -> WorkerType]
    BY <1>2 DEF TypeOK, WorkerType
  <1>5. /\ worker'[w] = [pc |-> pc, liq |-> L, tcs |-> T]
        /\ \A v \in Workers : v # w => worker'[v] = worker[v]
    BY DEF TypeOK
  <1>6. /\ state'.candidates = state.candidates
        /\ state'.interesting_tcs = state.interesting_tcs
        /\ state'.processing_liquidation = state.processing_liquidation \cup L
        /\ state'.processing_tcs = state.processing_tcs \cup T
    BY DEF TypeOK, StateType
  <1>7. worker[w].liq = {} /\ worker[w].tcs = {}
    BY DEF IdleHoldNothing
  <1>8. /\ L \subseteq DOMAIN state.candidates /\ L \cap state.processing_liquidation = {}
        /\ T \subseteq DOMAIN state.interesting_tcs /\ T \cap state.processing_tcs = {}
    BY DEF UnclaimedLiq, UnclaimedTcs
  <1>9. /\ state'.processing_liquidation \subseteq DOMAIN state'.candidates
        /\ state'.processing_tcs \subseteq DOMAIN state'.interesting_tcs
    BY <1>6, <1>8 DEF ClaimsHeld
  <1>10. state'.processing_liquidation = UNION {worker'[v].liq : v \in Workers}
    BY <1>5, <1>6, <1>7 DEF ClaimsHeld
  <1>11. state'.processing_tcs = UNION {worker'[v].tcs : v \in Workers}
    BY <1>5, <1>6, <1>7 DEF ClaimsHeld
  <1>12. ASSUME NEW u \in Workers, NEW v \in Workers, u # v
         PROVE  worker'[u].liq \cap worker'[v].liq = {} /\ worker'[u].tcs \cap worker'[v].tcs = {}
    <2>1. \A x \in Workers : /\ worker[x].liq \subseteq state.processing_liquidation
                             /\ worker[x].tcs \subseteq state.processing_tcs
      BY DEF ClaimsHeld
    <2> QED
      BY <1>5, <1>8, <1>12, <2>1 DEF ClaimsHeld
  <1>13. ClaimsHeld'
    BY <1>9, <1>10, <1>11, <1>12 DEF ClaimsHeld
  <1>14. IdleHoldNothing'
    BY <1>5 DEF IdleHoldNothing
  <1> QED
    BY <1>3, <1>4, <1>13, <1>14

\* A worker that ends its task gives back what it claimed, and only that.
LEMMA ReleaseKeeps ==
    ASSUME TypeOK, ClaimsHeld, IdleHoldNothing, NEW w \in Workers,
           state' = [state EXCEPT
               !.candidates = shift_remove(@, worker[w].liq),
               !.processing_liquidation = @ \ worker[w].liq,
               !.interesting_tcs = shift_remove(@, worker[w].tcs),
               !.processing_tcs = @ \ worker[w].tcs],
           worker' = [worker EXCEPT ![w] = NoTask]
    PROVE  /\ state' \in StateType /\ worker' \in [Workers -> WorkerType]
           /\ ClaimsHeld' /\ IdleHoldNothing'
           /\ UNCHANGED <<UnclaimedLiq, UnclaimedTcs>>
  <1> DEFINE C == shift_remove(state.candidates, worker[w].liq)
             I == shift_remove(state.interesting_tcs, worker[w].tcs)
  <1>1. /\ C \in IndexSet(Accounts)
        /\ DOMAIN C = DOMAIN state.candidates \ worker[w].liq
    <2>1. \A set \in IndexSet(Accounts) : \A removed :
            /\ shift_remove(set, removed) \in IndexSet(Accounts)
            /\ DOMAIN shift_remove(set, removed) = DOMAIN set \ removed
      BY RemoveMembers, LiquidatorAssumption
    <2>2. state.candidates \in IndexSet(Accounts)
      BY DEF TypeOK, StateType
    <2> QED
      BY <2>1, <2>2
  <1>2. /\ I \in IndexSet(Tcs)
        /\ DOMAIN I = DOMAIN state.interesting_tcs \ worker[w].tcs
    <2>1. \A set \in IndexSet(Tcs) : \A removed :
            /\ shift_remove(set, removed) \in IndexSet(Tcs)
            /\ DOMAIN shift_remove(set, removed) = DOMAIN set \ removed
      BY RemoveMembers, LiquidatorAssumption
    <2>2. state.interesting_tcs \in IndexSet(Tcs)
      BY DEF TypeOK, StateType
    <2> QED
      BY <2>1, <2>2
  <1>3. /\ state'.candidates = C /\ state'.interesting_tcs = I
        /\ state'.processing_liquidation = state.processing_liquidation \ worker[w].liq
        /\ state'.processing_tcs = state.processing_tcs \ worker[w].tcs
        /\ state' = [state EXCEPT
               !.candidates = C, !.interesting_tcs = I,
               !.processing_liquidation = state.processing_liquidation \ worker[w].liq,
               !.processing_tcs = state.processing_tcs \ worker[w].tcs]
    BY DEF TypeOK, StateType
  <1> HIDE DEF C, I
  <1>4. state' \in StateType
    BY <1>1, <1>2, <1>3 DEF TypeOK, StateType
  <1>5. worker' \in [Workers -> WorkerType]
    BY DEF TypeOK, WorkerType, NoTask
  <1>6. /\ worker'[w].liq = {} /\ worker'[w].tcs = {}
        /\ \A v \in Workers : v # w => worker'[v] = worker[v]
    BY DEF TypeOK, NoTask
  <1>7. /\ state'.processing_liquidation \subseteq DOMAIN state'.candidates
        /\ state'.processing_tcs \subseteq DOMAIN state'.interesting_tcs
    BY <1>1, <1>2, <1>3 DEF ClaimsHeld
  <1>8. state'.processing_liquidation = UNION {worker'[v].liq : v \in Workers}
    BY <1>3, <1>6 DEF ClaimsHeld
  <1>9. state'.processing_tcs = UNION {worker'[v].tcs : v \in Workers}
    BY <1>3, <1>6 DEF ClaimsHeld
  <1>10. ClaimsHeld'
    BY <1>6, <1>7, <1>8, <1>9 DEF ClaimsHeld
  <1>11. IdleHoldNothing'
    BY <1>6 DEF IdleHoldNothing
  <1>12. /\ worker[w].liq \subseteq state.processing_liquidation
         /\ worker[w].tcs \subseteq state.processing_tcs
    BY DEF ClaimsHeld
  <1>13. UNCHANGED <<UnclaimedLiq, UnclaimedTcs>>
    BY <1>1, <1>2, <1>3, <1>12 DEF UnclaimedLiq, UnclaimedTcs
  <1> QED
    BY <1>4, <1>5, <1>10, <1>11, <1>13

\* What a pull changes: nothing but the worker's point, or a claim.
LEMMA PullCases ==
    ASSUME TypeOK, NEW w \in Workers, WorkerPull(w)
    PROVE  \/ \E a \in UnclaimedLiq :
                /\ state' = [state EXCEPT !.processing_liquidation = @ \cup {a},
                                          !.processing_tcs = @ \cup {}]
                /\ worker' = [worker EXCEPT ![w] = [pc |-> "claimed", liq |-> {a}, tcs |-> {}]]
           \/ /\ UnclaimedLiq = {} /\ w \in Reserved
              /\ state' = state /\ worker' = [worker EXCEPT ![w].pc = "giveup"]
           \/ /\ UnclaimedLiq = {} /\ w \notin Reserved
              /\ \E batch \in SUBSET UnclaimedTcs :
                  /\ batch = {} => UnclaimedTcs = {}
                  /\ state' = [state EXCEPT !.processing_liquidation = @ \cup {},
                                            !.processing_tcs = @ \cup batch]
                  /\ worker' = [worker EXCEPT ![w] =
                        [pc |-> IF batch = {} THEN "wait" ELSE "claimed", liq |-> {},
                         tcs |-> batch]]
  <1>1. worker[w].pc = "woken" /\ worker_pull_task(w)
    BY DEF WorkerPull
  <1>2. CASE UnclaimedLiq # {}
    <2>1. PICK a \in UnclaimedLiq : ClaimLiquidation(w, a)
      BY <1>1, <1>2 DEF worker_pull_task
    <2>2. state' = [state EXCEPT !.processing_liquidation = @ \cup {a},
                                 !.processing_tcs = @ \cup {}]
      BY <2>1 DEF ClaimLiquidation, TypeOK, StateType
    <2>3. worker' = [worker EXCEPT ![w] = [pc |-> "claimed", liq |-> {a}, tcs |-> {}]]
      BY <2>1 DEF ClaimLiquidation
    <2> QED
      BY <2>2, <2>3
  <1>3. CASE UnclaimedLiq = {} /\ w \in Reserved
    BY <1>1, <1>3 DEF worker_pull_task, GiveUpTcs
  <1>4. CASE UnclaimedLiq = {} /\ w \notin Reserved
    <2>1. PICK batch \in Taken(state.interesting_tcs, UnclaimedTcs, MaxBatch) :
            ClaimTcs(w, batch)
      BY <1>1, <1>4 DEF worker_pull_task
    <2>2. batch \in SUBSET UnclaimedTcs /\ (Cardinality(batch) < MaxBatch => batch = UnclaimedTcs)
      BY <2>1 DEF Taken
    <2>3. batch = {} => UnclaimedTcs = {}
      BY <2>2, FS_EmptySet, LiquidatorAssumption
    <2>4. state' = [state EXCEPT !.processing_liquidation = @ \cup {},
                                 !.processing_tcs = @ \cup batch]
      BY <2>1 DEF ClaimTcs, TypeOK, StateType
    <2>5. worker' = [worker EXCEPT ![w] =
                        [pc |-> IF batch = {} THEN "wait" ELSE "claimed", liq |-> {},
                         tcs |-> batch]]
      BY <2>1 DEF ClaimTcs
    <2> QED
      BY <1>4, <2>2, <2>3, <2>4, <2>5
  <1> QED
    BY <1>2, <1>3, <1>4

\* A worker claims, gives back, or goes on.
LEMMA WorkersKeep ==
    ASSUME IInv, NEW w \in Workers, WorkerStep(w)
    PROVE  IInv'
  <1>0. TypeOK /\ ClaimsHeld /\ IdleHoldNothing
    BY DEF IInv
  <1>1. CASE WorkerWait(w)
    <2>1. liqQ' \in Nat /\ tcsQ' \in Nat
      BY <1>0, <1>1 DEF TypeOK, WorkerWait
    <2>2. /\ state' = state /\ worker[w].pc = "wait"
          /\ worker' = [worker EXCEPT ![w].pc = "woken"]
      BY <1>1 DEF WorkerWait
    <2>3. worker' \in [Workers -> WorkerType] /\ ClaimsHeld' /\ IdleHoldNothing'
      BY <1>0, <2>2, PcKeeps
    <2>4. TypeOK'
      BY <1>0, <1>1, <2>1, <2>2, <2>3 DEF TypeOK, WorkerWait
    <2> QED
      BY <2>3, <2>4 DEF IInv
  <1>2. CASE WorkerPull(w)
    <2>1. worker[w].pc = "woken"
      BY <1>2 DEF WorkerPull
    <2>2. /\ state' \in StateType /\ worker' \in [Workers -> WorkerType]
          /\ ClaimsHeld' /\ IdleHoldNothing'
      <3>1. ASSUME NEW a \in UnclaimedLiq,
                   state' = [state EXCEPT !.processing_liquidation = @ \cup {a},
                                          !.processing_tcs = @ \cup {}],
                   worker' = [worker EXCEPT ![w] = [pc |-> "claimed", liq |-> {a}, tcs |-> {}]]
            PROVE  /\ state' \in StateType /\ worker' \in [Workers -> WorkerType]
                   /\ ClaimsHeld' /\ IdleHoldNothing'
        <4>1. {a} \in SUBSET UnclaimedLiq /\ {} \in SUBSET UnclaimedTcs
          OBVIOUS
        <4>2. "claimed" \in {"wait", "claimed"} /\ "claimed" # "wait"
          OBVIOUS
        <4>3. worker[w].pc \in {"wait", "woken", "giveup"}
          BY <2>1
        <4> QED
          BY <1>0, <3>1, <4>1, <4>2, <4>3, ClaimKeeps, Zenon
      <3>2. CASE state' = state /\ worker' = [worker EXCEPT ![w].pc = "giveup"]
        BY <1>0, <2>1, <3>2, PcKeeps DEF TypeOK
      <3>3. ASSUME NEW batch \in SUBSET UnclaimedTcs,
                   state' = [state EXCEPT !.processing_liquidation = @ \cup {},
                                          !.processing_tcs = @ \cup batch],
                   worker' = [worker EXCEPT ![w] =
                        [pc |-> IF batch = {} THEN "wait" ELSE "claimed", liq |-> {},
                         tcs |-> batch]]
            PROVE  /\ state' \in StateType /\ worker' \in [Workers -> WorkerType]
                   /\ ClaimsHeld' /\ IdleHoldNothing'
        BY <1>0, <2>1, <3>3, ClaimKeeps
      <3> QED
        BY <1>0, <1>2, <3>1, <3>2, <3>3, PullCases
    <2>3. TypeOK'
      BY <1>0, <1>2, <2>2 DEF TypeOK, WorkerPull, channels
    <2> QED
      BY <2>2, <2>3 DEF IInv
  <1>3. CASE worker_give_up_tcs(w)
    <2>1. /\ state' = state /\ worker[w].pc = "giveup" /\ tcsQ' \in Nat
          /\ worker' = [worker EXCEPT ![w].pc = "wait"]
      BY <1>0, <1>3 DEF worker_give_up_tcs, TypeOK
    <2>2. worker' \in [Workers -> WorkerType] /\ ClaimsHeld' /\ IdleHoldNothing'
      BY <1>0, <2>1, PcKeeps
    <2>3. TypeOK'
      BY <1>0, <1>3, <2>1, <2>2 DEF TypeOK, worker_give_up_tcs
    <2> QED
      BY <2>2, <2>3 DEF IInv
  <1>4. CASE LiquidateStart(w) \/ LiquidateDone(w) \/ TakeTcs(w)
    <2>1. PICK pc \in {"busy", "finish"} : worker' = [worker EXCEPT ![w].pc = pc]
      BY <1>4 DEF LiquidateStart, LiquidateDone, TakeTcs
    <2>2. state' = state
      BY <1>4 DEF LiquidateStart, LiquidateDone, TakeTcs
    <2>3. worker' \in [Workers -> WorkerType] /\ ClaimsHeld' /\ IdleHoldNothing'
      BY <1>0, <2>1, <2>2, PcKeeps
    <2>4. chain' \in [Accounts -> Checks]
      BY <1>0, <1>4 DEF LiquidateStart, LiquidateDone, TakeTcs, TypeOK
    <2>5. TypeOK'
      BY <1>0, <1>4, <2>2, <2>3, <2>4
      DEF TypeOK, LiquidateStart, LiquidateDone, TakeTcs, channels
    <2> QED
      BY <2>3, <2>5 DEF IInv
  <1>5. CASE worker_finalize_task(w)
    <2>1. /\ state' \in StateType /\ worker' \in [Workers -> WorkerType]
          /\ ClaimsHeld' /\ IdleHoldNothing'
      BY <1>0, <1>5, ReleaseKeeps DEF worker_finalize_task
    <2>2. TypeOK'
      BY <1>0, <1>5, <2>1 DEF TypeOK, worker_finalize_task, channels
    <2> QED
      BY <2>1, <2>2 DEF IInv
  <1> QED
    BY <1>1, <1>2, <1>3, <1>4, <1>5 DEF WorkerStep

LEMMA StepInv == IInv /\ [Next]_vars => IInv'
  <1> SUFFICES ASSUME IInv, [Next]_vars PROVE IInv'
    OBVIOUS
  <1>0. TypeOK /\ ClaimsHeld /\ IdleHoldNothing
    BY DEF IInv
  <1>1. CASE RebalanceStep \/ Tick \/ UNCHANGED vars
    <2>1. /\ state' = state /\ chain' = chain /\ message' = message /\ liqQ' = liqQ
          /\ tcsQ' = tcsQ /\ liqJob' = liqJob /\ tcsJob' = tcsJob /\ worker' = worker
      BY <1>1 DEF RebalanceStep, RebalanceTriggered, RebalanceTick, RebalanceEnd,
                  RebalanceWake, Tick, vars, channels
    <2>2. TypeOK'
      BY <1>0, <2>1 DEF TypeOK
    <2> QED
      BY <1>0, <2>1, <2>2, SameClaims DEF IInv
  <1> QED
    BY <1>1, DataKeeps, LiqKeeps, TcsKeeps, WorkersKeep DEF Next

LEMMA Invariance == Spec => []IInv
  BY InitInv, StepInv, PTL DEF Spec

\* What is being processed is in the lists, and has been claimed by exactly one
\* of the workers at work (worker_pull_task, worker_finalize_task): no piece of
\* work is done twice at a time, and none stays locked when its worker is done.
THEOREM ClaimsAreHeld == Spec => []ClaimsHeld
  <1>1. IInv => ClaimsHeld
    BY DEF IInv
  <1> QED
    BY <1>1, Invariance, PTL

-----------------------------------------------------------------------------
(* Refinement *)

\* A step that leaves the lists, the channels and the points of the tasks alone
\* is a stuttering step of WorkSignals.
LEMMA Stutter ==
    ASSUME UnclaimedLiq' = UnclaimedLiq, UnclaimedTcs' = UnclaimedTcs,
           liqQ' = liqQ, tcsQ' = tcsQ, LiqDue' = LiqDue, TcsDue' = TcsDue,
           Woken' = Woken, Giving' = Giving
    PROVE  UNCHANGED Signals!vars
  BY DEF Signals!vars

LEMMA SameLists ==
    ASSUME state'.candidates = state.candidates,
           state'.interesting_tcs = state.interesting_tcs,
           state'.processing_liquidation = state.processing_liquidation,
           state'.processing_tcs = state.processing_tcs
    PROVE  UnclaimedLiq' = UnclaimedLiq /\ UnclaimedTcs' = UnclaimedTcs
  BY DEF UnclaimedLiq, UnclaimedTcs

LEMMA LiqRefines ==
    ASSUME IInv, LiqStep
    PROVE  Signals!Next \/ UNCHANGED Signals!vars
  <1>0. TypeOK /\ ClaimsHeld
    BY DEF IInv
  <1>1. /\ tcsQ' = tcsQ /\ tcsJob' = tcsJob /\ worker' = worker
    BY DEF LiqStep, LiqTick, LiqLog, LiqInsert, LiqSignal, LiqEnd, LiqPick, channels
  <1>2. TcsDue' = TcsDue /\ Woken' = Woken /\ Giving' = Giving
    BY <1>1 DEF TcsDue, Woken, Giving
  <1>3. CASE LiqTick \/ LiqEnd
    <2>1. liqQ' = liqQ /\ (state' = state \/ state' = [state EXCEPT !.event = FALSE])
      BY <1>3 DEF LiqTick, LiqEnd, channels
    <2>2. liqJob.pc # "signal" /\ liqJob'.pc # "signal"
      BY <1>0, <1>3 DEF LiqTick, LiqEnd, TypeOK
    <2>3. UnclaimedLiq' = UnclaimedLiq /\ UnclaimedTcs' = UnclaimedTcs
      <3>1. state \in StateType
        BY <1>0 DEF TypeOK
      <3>2. CASE state' = [state EXCEPT !.event = FALSE]
        BY <3>1, <3>2, EventReset, SameLists
      <3> QED
        BY <2>1, <3>2, SameLists
    <2> QED
      BY <1>1, <1>2, <2>1, <2>2, <2>3, Stutter DEF LiqDue
  <1>4. CASE LiqLog \/ \E a \in Accounts : LiqPick(a)
    <2>1. liqQ' = liqQ /\ state' = state
      BY <1>4 DEF LiqLog, LiqPick, channels
    <2>2. liqJob.pc # "signal" /\ liqJob'.pc # "signal"
      BY <1>0, <1>4 DEF LiqLog, LiqPick, NextAccount, TypeOK
    <2> QED
      BY <1>1, <1>2, <2>1, <2>2, SameLists, Stutter DEF LiqDue
  <1>5. CASE LiqInsert
    <2>1. PICK a \in liqJob.at :
            IF a \in DOMAIN state.candidates
            THEN liqJob' = NextAccount(liqJob) /\ UNCHANGED state
            ELSE /\ state' = [state EXCEPT !.candidates = insert(@, a)]
                 /\ liqJob' = [liqJob EXCEPT !.pc = "signal"]
      BY <1>5 DEF LiqInsert
    <2>2. liqQ' = liqQ /\ LiqDue = 0
      BY <1>5 DEF LiqInsert, channels, LiqDue
    <2>3. CASE a \in DOMAIN state.candidates
      <3>1. state' = state /\ liqJob'.pc # "signal"
        BY <1>0, <2>1, <2>3 DEF NextAccount, TypeOK
      <3> QED
        BY <1>1, <1>2, <2>2, <3>1, SameLists, Stutter DEF LiqDue
    <2>4. CASE a \notin DOMAIN state.candidates
      <3>1. /\ state' = [state EXCEPT !.candidates = insert(state.candidates, a)]
            /\ liqJob' = [liqJob EXCEPT !.pc = "signal"]
        BY <2>1, <2>4
      <3>2. LiqDue' = 1
        BY <1>0, <3>1 DEF LiqDue, TypeOK
      <3>3. /\ state'.candidates = insert(state.candidates, a)
            /\ state'.interesting_tcs = state.interesting_tcs
            /\ state'.processing_liquidation = state.processing_liquidation
            /\ state'.processing_tcs = state.processing_tcs
        BY <1>0, <3>1 DEF TypeOK, StateType
      <3>4. a \in Accounts /\ a \notin state.processing_liquidation
        BY <1>0, <2>4 DEF TypeOK, ClaimsHeld
      <3>5. DOMAIN insert(state.candidates, a) = DOMAIN state.candidates \cup {a}
        BY DEF insert
      <3>6. a \notin UnclaimedLiq /\ UnclaimedLiq' = UnclaimedLiq \cup {a}
        BY <2>4, <3>3, <3>4, <3>5 DEF UnclaimedLiq
      <3>7. UnclaimedTcs' = UnclaimedTcs
        BY <3>3 DEF UnclaimedTcs
      <3>8. Signals!FindLiq(a)
        BY <1>1, <1>2, <2>2, <3>2, <3>6, <3>7 DEF Signals!FindLiq
      <3> QED
        BY <3>4, <3>8 DEF Signals!Next
    <2> QED
      BY <2>3, <2>4
  <1>6. CASE LiqSignal
    <2>1. LiqDue = 1 /\ LiqDue' = 0
      BY <1>0, <1>6 DEF LiqSignal, NextAccount, LiqDue, TypeOK
    <2>2. liqQ' = liqQ + 1 /\ state' = state
      BY <1>6 DEF LiqSignal
    <2>3. UnclaimedLiq' = UnclaimedLiq /\ UnclaimedTcs' = UnclaimedTcs
      BY <2>2, SameLists
    <2> QED
      BY <1>1, <1>2, <2>1, <2>2, <2>3 DEF Signals!SignalLiq, Signals!Next
  <1> QED
    BY <1>3, <1>4, <1>5, <1>6 DEF LiqStep

LEMMA TcsRefines ==
    ASSUME IInv, TcsStep
    PROVE  Signals!Next \/ UNCHANGED Signals!vars
  <1>0. TypeOK /\ ClaimsHeld
    BY DEF IInv
  <1>1. /\ liqQ' = liqQ /\ liqJob' = liqJob /\ worker' = worker
    BY DEF TcsStep, TcsTick, TcsInsert, TcsSignal, TcsEnd, TcsPick, channels
  <1>2. LiqDue' = LiqDue /\ Woken' = Woken /\ Giving' = Giving
    BY <1>1 DEF LiqDue, Woken, Giving
  <1>3. CASE TcsTick \/ TcsEnd \/ \E a \in Accounts : TcsPick(a)
    <2>1. tcsQ' = tcsQ /\ state' = state
      BY <1>3 DEF TcsTick, TcsEnd, TcsPick, channels
    <2>2. tcsJob.pc # "signal" /\ tcsJob'.pc # "signal"
      <3>1. CASE TcsTick \/ TcsEnd
        <4>1. tcsJob.pc \in {"idle", "pick"}
          BY <3>1 DEF TcsTick, TcsEnd
        <4>2. CASE TcsEnd
          BY <1>0, <4>1, <4>2 DEF TcsEnd, TypeOK
        <4>3. CASE TcsTick
          <5>1. PICK T : tcsJob' = [tcsJob EXCEPT !.pc = "pick", !.todo = T]
            BY <4>3 DEF TcsTick
          <5> QED
            BY <1>0, <4>1, <5>1 DEF TypeOK
        <4> QED
          BY <3>1, <4>2, <4>3
      <3>2. ASSUME NEW a \in Accounts, TcsPick(a)
            PROVE  tcsJob.pc # "signal" /\ tcsJob'.pc # "signal"
        <4>1. tcsJob.pc = "pick"
          BY <3>2 DEF TcsPick
        <4>2. CASE tcsJob' = [tcsJob EXCEPT !.todo = @ \ {a}]
          BY <1>0, <4>1, <4>2 DEF TypeOK
        <4>3. ASSUME NEW f, tcsJob' = [tcsJob EXCEPT !.todo = @ \ {a}, !.found = f,
                                          !.pc = IF f = {} THEN "pick" ELSE "insert"]
              PROVE  tcsJob'.pc # "signal"
          BY <1>0, <4>3 DEF TypeOK
        <4> QED
          BY <3>2, <4>1, <4>2, <4>3 DEF TcsPick
      <3> QED
        BY <1>3, <3>1, <3>2
    <2> QED
      BY <1>1, <1>2, <2>1, <2>2, SameLists, Stutter DEF TcsDue
  <1>4. CASE TcsInsert
    <2>1. PICK t \in tcsJob.found :
            LET job == [tcsJob EXCEPT !.found = @ \ {t}] IN
            IF t \in DOMAIN state.interesting_tcs
            THEN tcsJob' = NextFound(job) /\ UNCHANGED state
            ELSE /\ state' = [state EXCEPT !.interesting_tcs = insert(@, t)]
                 /\ tcsJob' = [job EXCEPT !.pc = "signal"]
      BY <1>4 DEF TcsInsert
    <2>2. tcsQ' = tcsQ /\ TcsDue = 0
      BY <1>4 DEF TcsInsert, channels, TcsDue
    <2>3. CASE t \in DOMAIN state.interesting_tcs
      <3>1. state' = state /\ tcsJob'.pc # "signal"
        BY <1>0, <2>1, <2>3 DEF NextFound, TypeOK
      <3> QED
        BY <1>1, <1>2, <2>2, <3>1, SameLists, Stutter DEF TcsDue
    <2>4. CASE t \notin DOMAIN state.interesting_tcs
      <3>1. /\ state' = [state EXCEPT !.interesting_tcs = insert(state.interesting_tcs, t)]
            /\ tcsJob' = [tcsJob EXCEPT !.found = @ \ {t}, !.pc = "signal"]
        BY <2>1, <2>4
      <3>2. TcsDue' = 1
        BY <1>0, <3>1 DEF TcsDue, TypeOK
      <3>3. /\ state'.interesting_tcs = insert(state.interesting_tcs, t)
            /\ state'.candidates = state.candidates
            /\ state'.processing_liquidation = state.processing_liquidation
            /\ state'.processing_tcs = state.processing_tcs
        BY <1>0, <3>1 DEF TypeOK, StateType
      <3>4. t \in Tcs /\ t \notin state.processing_tcs
        BY <1>0, <2>4 DEF TypeOK, ClaimsHeld
      <3>5. DOMAIN insert(state.interesting_tcs, t) = DOMAIN state.interesting_tcs \cup {t}
        BY DEF insert
      <3>6. t \notin UnclaimedTcs /\ UnclaimedTcs' = UnclaimedTcs \cup {t}
        BY <2>4, <3>3, <3>4, <3>5 DEF UnclaimedTcs
      <3>7. UnclaimedLiq' = UnclaimedLiq
        BY <3>3 DEF UnclaimedLiq
      <3>8. Signals!FindTcs(t)
        BY <1>1, <1>2, <2>2, <3>2, <3>6, <3>7 DEF Signals!FindTcs
      <3> QED
        BY <3>4, <3>8 DEF Signals!Next
    <2> QED
      BY <2>3, <2>4
  <1>5. CASE TcsSignal
    <2>1. TcsDue = 1 /\ TcsDue' = 0
      BY <1>0, <1>5 DEF TcsSignal, NextFound, TcsDue, TypeOK
    <2>2. tcsQ' = tcsQ + 1 /\ state' = state
      BY <1>5 DEF TcsSignal
    <2>3. UnclaimedLiq' = UnclaimedLiq /\ UnclaimedTcs' = UnclaimedTcs
      BY <2>2, SameLists
    <2> QED
      BY <1>1, <1>2, <2>1, <2>2, <2>3 DEF Signals!SignalTcs, Signals!Next
  <1> QED
    BY <1>3, <1>4, <1>5 DEF TcsStep

\* How the sets of waiting workers follow from the worker that moves.
LEMMA PointSets ==
    ASSUME NEW w \in Workers, NEW pc, worker'[w].pc = pc,
           \A v \in Workers : v # w => worker'[v].pc = worker[v].pc
    PROVE  /\ pc = "woken" => Woken' = Woken \cup {w}
           /\ pc # "woken" => Woken' = Woken \ {w}
           /\ pc = "giveup" => Giving' = Giving \cup {w}
           /\ pc # "giveup" => Giving' = Giving \ {w}
  BY DEF Woken, Giving

LEMMA WorkersRefine ==
    ASSUME IInv, NEW w \in Workers, WorkerStep(w)
    PROVE  Signals!Next \/ UNCHANGED Signals!vars
  <1>0. TypeOK /\ ClaimsHeld /\ IdleHoldNothing /\ worker[w] \in WorkerType
    BY DEF IInv, TypeOK
  <1>1. liqJob' = liqJob /\ tcsJob' = tcsJob
    BY DEF WorkerStep, WorkerWait, WorkerPull, worker_give_up_tcs, LiquidateStart,
           LiquidateDone, TakeTcs, worker_finalize_task
  <1>2. LiqDue' = LiqDue /\ TcsDue' = TcsDue
    BY <1>1 DEF LiqDue, TcsDue
  <1>3. ASSUME NEW pc \in {"wait", "woken", "giveup", "busy", "finish"},
               worker' = [worker EXCEPT ![w].pc = pc]
        PROVE  /\ pc = "woken" => Woken' = Woken \cup {w}
               /\ pc # "woken" => Woken' = Woken \ {w}
               /\ pc = "giveup" => Giving' = Giving \cup {w}
               /\ pc # "giveup" => Giving' = Giving \ {w}
    <2>1. worker'[w].pc = pc /\ \A v \in Workers : v # w => worker'[v].pc = worker[v].pc
      BY <1>0, <1>3 DEF TypeOK, WorkerType
    <2> QED
      BY <2>1, PointSets
  <1>4. CASE WorkerWait(w)
    <2>1. w \notin Woken \cup Giving
      BY <1>4 DEF WorkerWait, Woken, Giving
    <2>2. Woken' = Woken \cup {w} /\ Giving' = Giving
      BY <1>3, <1>4, <2>1 DEF WorkerWait
    <2>3. UnclaimedLiq' = UnclaimedLiq /\ UnclaimedTcs' = UnclaimedTcs
      BY <1>4, SameLists DEF WorkerWait
    <2>4. \/ liqQ > 0 /\ liqQ' = liqQ - 1 /\ tcsQ' = tcsQ
          \/ w \notin Reserved /\ tcsQ > 0 /\ tcsQ' = tcsQ - 1 /\ liqQ' = liqQ
      BY <1>4 DEF WorkerWait
    <2>5. Signals!TakeLiqSignal(w) \/ Signals!TakeTcsSignal(w)
      BY <1>2, <2>1, <2>2, <2>3, <2>4 DEF Signals!TakeLiqSignal, Signals!TakeTcsSignal
    <2> QED
      BY <2>5 DEF Signals!Next
  <1>5. CASE WorkerPull(w)
    <2>1. w \in Woken /\ w \notin Giving /\ liqQ' = liqQ /\ tcsQ' = tcsQ
      BY <1>5 DEF WorkerPull, Woken, Giving, channels
    <2>2. ASSUME NEW a \in UnclaimedLiq,
                 state' = [state EXCEPT !.processing_liquidation = @ \cup {a},
                                        !.processing_tcs = @ \cup {}],
                 worker' = [worker EXCEPT ![w] = [pc |-> "claimed", liq |-> {a}, tcs |-> {}]]
          PROVE  Signals!ClaimLiq(w, a)
      <3>1. Woken' = Woken \ {w} /\ Giving' = Giving
        <4>1. worker'[w].pc = "claimed" /\ \A v \in Workers : v # w => worker'[v].pc = worker[v].pc
          BY <1>0, <2>2 DEF TypeOK
        <4> QED
          BY <2>1, <4>1, PointSets
      <3>2. /\ state'.candidates = state.candidates
            /\ state'.interesting_tcs = state.interesting_tcs
            /\ state'.processing_liquidation = state.processing_liquidation \cup {a}
            /\ state'.processing_tcs = state.processing_tcs
        BY <1>0, <2>2 DEF TypeOK, StateType
      <3>3. UnclaimedLiq' = UnclaimedLiq \ {a} /\ UnclaimedTcs' = UnclaimedTcs
        BY <3>2 DEF UnclaimedLiq, UnclaimedTcs
      <3> QED
        BY <1>2, <2>1, <3>1, <3>3 DEF Signals!ClaimLiq
    <2>3. ASSUME UnclaimedLiq = {}, w \in Reserved, state' = state,
                 worker' = [worker EXCEPT ![w].pc = "giveup"]
          PROVE  Signals!GiveUp(w)
      <3>1. Woken' = Woken \ {w} /\ Giving' = Giving \cup {w}
        BY <1>3, <2>3
      <3>2. UnclaimedLiq' = UnclaimedLiq /\ UnclaimedTcs' = UnclaimedTcs
        BY <2>3, SameLists
      <3> QED
        BY <1>2, <2>1, <2>3, <3>1, <3>2 DEF Signals!GiveUp
    <2>4. ASSUME UnclaimedLiq = {}, w \notin Reserved, NEW batch \in SUBSET UnclaimedTcs,
                 batch = {} => UnclaimedTcs = {},
                 state' = [state EXCEPT !.processing_liquidation = @ \cup {},
                                        !.processing_tcs = @ \cup batch],
                 worker' = [worker EXCEPT ![w] =
                    [pc |-> IF batch = {} THEN "wait" ELSE "claimed", liq |-> {},
                     tcs |-> batch]]
          PROVE  Signals!ClaimTcs(w, batch)
      <3>1. Woken' = Woken \ {w} /\ Giving' = Giving
        <4>1. /\ worker'[w].pc \in {"wait", "claimed"}
              /\ \A v \in Workers : v # w => worker'[v].pc = worker[v].pc
          BY <1>0, <2>4 DEF TypeOK
        <4> QED
          BY <2>1, <4>1, PointSets
      <3>2. /\ state'.candidates = state.candidates
            /\ state'.interesting_tcs = state.interesting_tcs
            /\ state'.processing_liquidation = state.processing_liquidation
            /\ state'.processing_tcs = state.processing_tcs \cup batch
        BY <1>0, <2>4 DEF TypeOK, StateType
      <3>3. UnclaimedLiq' = UnclaimedLiq /\ UnclaimedTcs' = UnclaimedTcs \ batch
        BY <3>2 DEF UnclaimedLiq, UnclaimedTcs
      <3> QED
        BY <1>2, <2>1, <2>4, <3>1, <3>3 DEF Signals!ClaimTcs
    <2> QED
      BY <1>0, <1>5, <2>2, <2>3, <2>4, PullCases DEF Signals!Next
  <1>6. CASE worker_give_up_tcs(w)
    <2>1. w \in Giving /\ w \notin Woken
      BY <1>6 DEF worker_give_up_tcs, Woken, Giving
    <2>2. Giving' = Giving \ {w} /\ Woken' = Woken
      BY <1>3, <1>6, <2>1 DEF worker_give_up_tcs
    <2>3. UnclaimedLiq' = UnclaimedLiq /\ UnclaimedTcs' = UnclaimedTcs
      BY <1>6, SameLists DEF worker_give_up_tcs
    <2>4. Signals!HandOn(w)
      BY <1>2, <1>6, <2>1, <2>2, <2>3 DEF Signals!HandOn, worker_give_up_tcs
    <2> QED
      BY <2>4 DEF Signals!Next
  <1>7. CASE LiquidateStart(w) \/ LiquidateDone(w) \/ TakeTcs(w)
    <2>1. PICK pc \in {"busy", "finish"} : worker' = [worker EXCEPT ![w].pc = pc]
      BY <1>7 DEF LiquidateStart, LiquidateDone, TakeTcs
    <2>2. w \notin Woken /\ w \notin Giving
      BY <1>7 DEF LiquidateStart, LiquidateDone, TakeTcs, Woken, Giving
    <2>3. Woken' = Woken /\ Giving' = Giving
      BY <1>3, <2>1, <2>2
    <2>4. state' = state /\ liqQ' = liqQ /\ tcsQ' = tcsQ
      BY <1>7 DEF LiquidateStart, LiquidateDone, TakeTcs, channels
    <2> QED
      BY <1>2, <2>3, <2>4, SameLists, Stutter
  <1>8. CASE worker_finalize_task(w)
    <2>1. UnclaimedLiq' = UnclaimedLiq /\ UnclaimedTcs' = UnclaimedTcs
      BY <1>0, <1>8, ReleaseKeeps DEF worker_finalize_task
    <2>2. w \notin Woken /\ w \notin Giving
      BY <1>8 DEF worker_finalize_task, Woken, Giving
    <2>3. Woken' = Woken /\ Giving' = Giving
      <3>1. worker'[w].pc = "wait" /\ \A v \in Workers : v # w => worker'[v].pc = worker[v].pc
        BY <1>0, <1>8 DEF worker_finalize_task, NoTask, TypeOK
      <3>2. Woken' = Woken \ {w} /\ Giving' = Giving \ {w}
        BY <3>1, PointSets
      <3> QED
        BY <2>2, <3>2
    <2>4. liqQ' = liqQ /\ tcsQ' = tcsQ
      BY <1>8 DEF worker_finalize_task, channels
    <2> QED
      BY <1>2, <2>1, <2>3, <2>4, Stutter
  <1> QED
    BY <1>4, <1>5, <1>6, <1>7, <1>8 DEF WorkerStep

LEMMA StepRefines == IInv /\ [Next]_vars => [Signals!Next]_(Signals!vars)
  <1> SUFFICES ASSUME IInv, [Next]_vars PROVE Signals!Next \/ UNCHANGED Signals!vars
    OBVIOUS
  <1>1. CASE DataApply \/ DataNote \/ RebalanceStep \/ Tick \/ UNCHANGED vars
    <2>1. /\ liqQ' = liqQ /\ tcsQ' = tcsQ /\ liqJob' = liqJob /\ tcsJob' = tcsJob
          /\ worker' = worker
      BY <1>1 DEF DataApply, DataNote, RebalanceStep, RebalanceTriggered, RebalanceTick,
                  RebalanceEnd, RebalanceWake, Tick, vars, channels
    <2>2. UnclaimedLiq' = UnclaimedLiq /\ UnclaimedTcs' = UnclaimedTcs
      <3>1. CASE DataNote
        <4>1. PICK m \in message :
                state' = [state EXCEPT !.event = TRUE,
                            !.mango_accounts = @ \cup m.accounts,
                            !.one_snapshot_done = @ \/ m.kind = "snapshot"]
          BY <3>1 DEF DataNote
        <4>2. /\ state'.candidates = state.candidates
              /\ state'.interesting_tcs = state.interesting_tcs
              /\ state'.processing_liquidation = state.processing_liquidation
              /\ state'.processing_tcs = state.processing_tcs
          BY <4>1 DEF IInv, TypeOK, StateType
        <4> QED
          BY <4>2, SameLists
      <3>2. CASE DataApply \/ RebalanceStep \/ Tick \/ UNCHANGED vars
        <4>1. state' = state
          BY <3>2 DEF DataApply, RebalanceStep, RebalanceTriggered, RebalanceTick,
                      RebalanceEnd, RebalanceWake, Tick, vars
        <4> QED
          BY <4>1, SameLists
      <3> QED
        BY <1>1, <3>1, <3>2
    <2>3. LiqDue' = LiqDue /\ TcsDue' = TcsDue /\ Woken' = Woken /\ Giving' = Giving
      BY <2>1 DEF LiqDue, TcsDue, Woken, Giving
    <2> QED
      BY <2>1, <2>2, <2>3, Stutter
  <1> QED
    BY <1>1, LiqRefines, TcsRefines, WorkersRefine DEF Next

\* The scans and workers of the liquidator (liquidation_state.rs, tcs_state.rs,
\* tx_sender.rs) keep the protocol of WorkSignals.
THEOREM JobsKeepSignals == Spec => KeepsSignals
  <1>1. Init => Signals!Init
    <2> SUFFICES ASSUME Init PROVE Signals!Init
      OBVIOUS
    <2>1. UnclaimedLiq = {} /\ UnclaimedTcs = {}
      BY DEF Init, UnclaimedLiq, UnclaimedTcs, NoMembers
    <2>2. LiqDue = 0 /\ TcsDue = 0 /\ Woken = {} /\ Giving = {}
      BY DEF Init, LiqDue, TcsDue, Woken, Giving, NoTask
    <2> QED
      BY <2>1, <2>2 DEF Init, Signals!Init
  <1> QED
    BY <1>1, StepRefines, Invariance, PTL DEF Spec, KeepsSignals, Signals!Spec

-----------------------------------------------------------------------------
Proofs == INSTANCE WorkSignalsProofs WITH
    Liq <- Accounts, liq <- UnclaimedLiq, tcs <- UnclaimedTcs,
    liqDue <- LiqDue, tcsDue <- TcsDue, woken <- Woken, giving <- Giving

\* The liquidator loses no wakeup: whenever no worker is about to look for work
\* and no scan is about to signal, an unclaimed liquidation has a signal that
\* every worker receives, and an unclaimed swap has a signal.
THEOREM JobsLoseNoWakeup == Spec => []Signals!NoLostWakeup
  <1>1. Proofs!WorkSignalsAssumption
    <2>1. Reserved \subseteq Workers
      BY LiquidatorAssumption DEF Reserved
    <2>2. IsFiniteSet(Workers)
      BY LiquidatorAssumption
    <2> QED
      BY <2>1, <2>2 DEF Proofs!WorkSignalsAssumption, Proofs!IsFiniteSet, IsFiniteSet
  <1>2. Proofs!Spec => []Proofs!NoLostWakeup
    BY <1>1, Proofs!NoWakeupLost
  <1>3. Signals!Init => Proofs!Init
    BY DEF Signals!Init, Proofs!Init
  <1>4. [Signals!Next]_(Signals!vars) => [Proofs!Next]_(Proofs!vars)
    BY DEF Signals!Next, Signals!vars, Signals!FindLiq, Signals!FindTcs, Signals!SignalLiq,
           Signals!SignalTcs, Signals!TakeLiqSignal, Signals!TakeTcsSignal, Signals!ClaimLiq,
           Signals!ClaimTcs, Signals!GiveUp, Signals!HandOn,
           Proofs!Next, Proofs!vars, Proofs!FindLiq, Proofs!FindTcs, Proofs!SignalLiq,
           Proofs!SignalTcs, Proofs!TakeLiqSignal, Proofs!TakeTcsSignal, Proofs!ClaimLiq,
           Proofs!ClaimTcs, Proofs!GiveUp, Proofs!HandOn
  <1>5. Proofs!NoLostWakeup => Signals!NoLostWakeup
    BY DEF Proofs!NoLostWakeup, Signals!NoLostWakeup
  <1> QED
    BY <1>2, <1>3, <1>4, <1>5, JobsKeepSignals, PTL DEF KeepsSignals, Signals!Spec, Proofs!Spec

=============================================================================
