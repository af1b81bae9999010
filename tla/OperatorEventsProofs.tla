----------------------- MODULE OperatorEventsProofs -----------------------
(***************************************************************************)
(* Proofs about the start-up and the operator's listeners, for any workers *)
(* and any number of L1 transactions, exits, restarts and failures.        *)
(***************************************************************************)
EXTENDS OperatorEvents, PrefixSumsProofs

\* What the core process knows of the workers: a READY under way or arrived is
\* of a worker that was initialised, the delay starts when all have arrived,
\* and work starts after the broadcast only.
ReportsAreTrue == \A w \in toMain \cup isReady : w \in Workers /\ worker[w] # "forked"
StartsAfterBroadcast ==
    \A w \in Workers : worker[w] = "started" => broadcast = "done"

ClusterInv ==
    /\ worker \in [Workers -> WorkerStates]
    /\ ReportsAreTrue
    /\ broadcast # "waiting" => Workers \subseteq isReady
    /\ toWorker # {} => broadcast = "done"
    /\ StartsAfterBroadcast

LEMMA ClusterInitOK == ClusterInit => ClusterInv
  BY DEF ClusterInit, ClusterInv, ReportsAreTrue, StartsAfterBroadcast, WorkerStates

\* A worker reports READY when it was initialised.
LEMMA ReadyKeeps ==
  ASSUME NEW w \in Workers, ClusterInv, ready(w) PROVE ClusterInv'
  BY DEF ready, ClusterInv, ReportsAreTrue, StartsAfterBroadcast, WorkerStates

\* The core process counts a worker whose message it takes.
LEMMA ReceivedKeeps ==
  ASSUME NEW w \in Workers, ClusterInv, onReceivedMessage(w) PROVE ClusterInv'
  BY DEF onReceivedMessage, IsAllReady, ClusterInv, ReportsAreTrue, StartsAfterBroadcast

\* The broadcast comes after the count of all.
LEMMA BroadcastKeeps ==
  ASSUME ClusterInv, handleAllWorkerReady PROVE ClusterInv'
  BY DEF handleAllWorkerReady, ClusterInv, ReportsAreTrue, StartsAfterBroadcast, WorkerStates

\* A worker starts by the broadcast.
LEMMA OnReadyKeeps ==
  ASSUME NEW w \in Workers, ClusterInv, onReady(w) PROVE ClusterInv'
  BY DEF onReady, ClusterInv, ReportsAreTrue, StartsAfterBroadcast, WorkerStates

\* What a worker reported stays true when it exits.
LEMMA ExitKeeps ==
  ASSUME NEW w \in Workers, ClusterInv, Exit(w) PROVE ClusterInv'
  BY DEF Exit, ClusterInv, ReportsAreTrue, StartsAfterBroadcast, WorkerStates

\* After a restart nothing is reported.
LEMMA ClusterRestartKeeps ==
  ASSUME ClusterRestart PROVE ClusterInv'
  BY DEF ClusterRestart, ClusterInv, ReportsAreTrue, StartsAfterBroadcast, WorkerStates

LEMMA ClusterUnchanged ==
  ASSUME ClusterInv, UNCHANGED clusterVars PROVE ClusterInv'
  BY DEF clusterVars, ClusterInv, ReportsAreTrue, StartsAfterBroadcast

\* Every step keeps ClusterInv.
LEMMA ClusterInvKept ==
  ASSUME ClusterInv, [Next]_vars PROVE ClusterInv'
<1>1. CASE ProgramStep
  <2>1. CASE CoreStep
    BY <2>1, ReadyKeeps, ReceivedKeeps, OnReadyKeeps, BroadcastKeeps DEF CoreStep, ClusterStep
  <2>2. ASSUME NEW k \in Kinds, Query(k) \/ Attach(k) \/ UpdateSync(k) PROVE ClusterInv'
    BY <2>2, ClusterUnchanged DEF Query, Attach, UpdateSync
  <2>3. ASSUME NEW k \in Kinds, NEW t \in Txs, FindLive(k, t) PROVE ClusterInv'
    BY <2>3, ClusterUnchanged DEF FindLive
  <2>4. ASSUME NEW i \in Instances, HandlerStep(i) PROVE ClusterInv'
    BY <2>4, ClusterUnchanged DEF HandlerStep, FindHistoric, InsertRegister, UpsertAccount, RecordDeposit
  <2>5. CASE StartCheckout \/ CheckoutNext
    BY <2>5, ClusterUnchanged DEF StartCheckout, CheckoutNext
  <2> QED BY <1>1, <2>1, <2>2, <2>3, <2>4, <2>5 DEF ProgramStep
<1>2. CASE NewL1Tx \/ FailCheckout
  BY <1>2, ClusterUnchanged DEF NewL1Tx, FailCheckout
<1>3. ASSUME NEW w \in Workers, WorkerExits(w) PROVE ClusterInv'
  BY <1>3, ExitKeeps DEF WorkerExits
<1>4. CASE Restart
  BY <1>4, ClusterRestartKeeps DEF Restart
<1>5. CASE UNCHANGED vars
  BY <1>5, ClusterUnchanged DEF vars
<1> QED BY <1>1, <1>2, <1>3, <1>4, <1>5 DEF Next

LEMMA ClusterInvSuffices == ClusterInv => NobodyStartsEarly
  BY DEF ClusterInv, ReportsAreTrue, StartsAfterBroadcast, NobodyStartsEarly

\* No worker starts its work before every worker was initialised, however READY
\* messages, exits and restarts interleave (main-process.service.ts,
\* handleAllWorkerReady).
THEOREM StartsCorrect == Spec => []NobodyStartsEarly
<1>1. Init => ClusterInv
  BY ClusterInitOK DEF Init
<1>2. ClusterInv /\ [Next]_vars => ClusterInv'
  BY ClusterInvKept
<1> QED BY <1>1, <1>2, ClusterInvSuffices, PTL DEF Spec

-----------------------------------------------------------------------------
\* Where a pass of checkoutHoldTx is: every deposit it has passed has its row,
\* and, as there is always some account, it has kept none.
PassIsRecorded ==
    checkout.pc = "looping" =>
        /\ checkout.index \in 1 .. Len(hold)
        /\ checkout.newArr = <<>>
        /\ \A j \in 1 .. checkout.index - 1 : rows["Deposit"][hold[j]] > 0

HoldInv ==
    /\ hold \in Seq(Txs)
    /\ rows \in [Kinds -> [Txs -> Nat]]
    /\ burnAccount \in accounts
    /\ past \in [mishaps : Nat, failures : Nat, heardTwice : SUBSET Txs]
    /\ PassIsRecorded

\* What one step does with the held deposits.
NoneLost ==
    \A t \in Txs : Held(t) /\ ~Held(t)' => rows["Deposit"][t]' > 0 \/ past'.mishaps > past.mishaps

LEMMA HoldInitOK == Init => HoldInv
  BY DEF Init, HoldInv, PassIsRecorded, NoCheckout

\* A step that touches neither the held deposits nor the rows.
LEMMA HoldUnchanged ==
  ASSUME HoldInv, UNCHANGED <<hold, rows, accounts, past, checkout>>
  PROVE  HoldInv' /\ NoneLost
  BY DEF HoldInv, PassIsRecorded, NoneLost, Held

\* An insert takes no row away.
LEMMA RowsGrow ==
  ASSUME NEW k \in Kinds, NEW t \in Txs, rows \in [Kinds -> [Txs -> Nat]], InsertRow(k, t)
  PROVE  /\ rows' \in [Kinds -> [Txs -> Nat]]
         /\ \A s \in Txs : rows'["Deposit"][s] >= rows["Deposit"][s]
         /\ rows'[k][t] > 0
  BY DEF InsertRow, Kinds

\* Rows that only grow keep what a pass has recorded.
LEMMA PassKept ==
  ASSUME HoldInv, UNCHANGED <<hold, checkout>>,
         rows' \in [Kinds -> [Txs -> Nat]],
         \A s \in Txs : rows'["Deposit"][s] >= rows["Deposit"][s]
  PROVE  PassIsRecorded'
<1> SUFFICES ASSUME checkout.pc = "looping"
             PROVE  /\ checkout.index \in 1 .. Len(hold)
                    /\ checkout.newArr = <<>>
                    /\ \A j \in 1 .. checkout.index - 1 : rows'["Deposit"][hold[j]] > 0
  BY DEF PassIsRecorded
<1>1. /\ checkout.index \in 1 .. Len(hold)
      /\ checkout.newArr = <<>>
      /\ \A j \in 1 .. checkout.index - 1 : rows["Deposit"][hold[j]] > 0
  BY DEF HoldInv, PassIsRecorded
<1>2. ASSUME NEW j \in 1 .. checkout.index - 1 PROVE rows'["Deposit"][hold[j]] > 0
  <2>1. hold[j] \in Txs
    BY <1>1 DEF HoldInv
  <2>2. rows["Deposit"][hold[j]] \in Nat /\ rows'["Deposit"][hold[j]] \in Nat
    BY <2>1 DEF HoldInv, Kinds
  <2> QED BY <1>1, <2>1, <2>2
<1> QED BY <1>1, <1>2

\* A live event is no matter of the held deposits.
LEMMA FindLiveKeeps ==
  ASSUME NEW k \in Kinds, NEW t \in Txs, HoldInv, FindLive(k, t) PROVE HoldInv' /\ NoneLost
  BY DEF FindLive, dbVars, HoldInv, PassIsRecorded, NoneLost, Held

\* A registration's row is none of a deposit.
LEMMA RegisterKeeps ==
  ASSUME NEW i \in Instances, HoldInv, InsertRegister(i) PROVE HoldInv' /\ NoneLost
<1>1. "Register" \in Kinds /\ i[2] \in Txs
  BY DEF Instances, Kinds
<1>2. rows \in [Kinds -> [Txs -> Nat]] /\ InsertRow("Register", i[2])
  BY DEF HoldInv, InsertRegister
<1>3. /\ rows' \in [Kinds -> [Txs -> Nat]]
      /\ \A s \in Txs : rows'["Deposit"][s] >= rows["Deposit"][s]
  BY <1>1, <1>2, RowsGrow
<1>4. UNCHANGED <<hold, accounts, past, checkout>>
  BY DEF InsertRegister
<1>5. PassIsRecorded'
  BY <1>3, <1>4, PassKept
<1> QED BY <1>3, <1>4, <1>5 DEF HoldInv, NoneLost, Held

\* A new account starts no pass by itself.
LEMMA UpsertKeeps ==
  ASSUME NEW i \in Instances, HoldInv, UpsertAccount(i) PROVE HoldInv' /\ NoneLost
  BY DEF UpsertAccount, HoldInv, PassIsRecorded, NoneLost, Held

\* A deposit is recorded, or held at the end of the array.
LEMMA DepositKeeps ==
  ASSUME NEW i \in Instances, HoldInv, RecordDeposit(i) PROVE HoldInv' /\ NoneLost
<1>1. "Deposit" \in Kinds /\ i[2] \in Txs
  BY DEF Instances, Kinds
<1>2. UNCHANGED <<accounts, past, checkout>>
  BY DEF RecordDeposit
<1>3. CASE InsertRow("Deposit", i[2]) /\ UNCHANGED hold
  <2>1. /\ rows' \in [Kinds -> [Txs -> Nat]]
        /\ \A s \in Txs : rows'["Deposit"][s] >= rows["Deposit"][s]
    BY <1>1, <1>3, RowsGrow DEF HoldInv
  <2>2. PassIsRecorded'
    BY <1>2, <1>3, <2>1, PassKept
  <2> QED BY <1>2, <1>3, <2>1, <2>2 DEF HoldInv, NoneLost, Held
<1>4. CASE hold' = Append(hold, i[2]) /\ UNCHANGED rows
  <2>1. /\ hold' \in Seq(Txs)
        /\ Len(hold') = Len(hold) + 1
        /\ \A j \in 1 .. Len(hold) : hold'[j] = hold[j]
    BY <1>1, <1>4 DEF HoldInv
  <2>2. PassIsRecorded'
    BY <1>2, <1>4, <2>1 DEF HoldInv, PassIsRecorded
  <2>3. NoneLost
    BY <1>4, <2>1 DEF HoldInv, NoneLost, Held
  <2> QED BY <1>2, <1>4, <2>1, <2>2, <2>3 DEF HoldInv
<1> QED BY <1>3, <1>4 DEF RecordDeposit

\* A pass begins with nothing passed over.
LEMMA StartCheckoutKeeps ==
  ASSUME HoldInv, StartCheckout PROVE HoldInv' /\ NoneLost
<1>1. UNCHANGED <<hold, rows, accounts, past>>
  BY DEF StartCheckout, dbVars
<1>2. /\ checkout' = [pc |-> "looping", index |-> 1, newArr |-> <<>>]
      /\ hold # <<>>
  BY DEF StartCheckout
<1>3. Len(hold) \in Nat /\ Len(hold) >= 1
  BY <1>2 DEF HoldInv
<1>4. PassIsRecorded'
  BY <1>1, <1>2, <1>3 DEF PassIsRecorded
<1> QED BY <1>1, <1>4 DEF HoldInv, NoneLost, Held

\* The deposit looked at gets its row; at the end of the array all have theirs.
LEMMA CheckoutNextKeeps ==
  ASSUME HoldInv, CheckoutNext PROVE HoldInv' /\ NoneLost
<1> DEFINE d == hold[checkout.index]
<1>1. /\ checkout.index \in 1 .. Len(hold)
      /\ checkout.newArr = <<>>
      /\ \A j \in 1 .. checkout.index - 1 : rows["Deposit"][hold[j]] > 0
  BY DEF HoldInv, PassIsRecorded, CheckoutNext
<1>2. d \in Txs /\ Len(hold) \in Nat /\ "Deposit" \in Kinds
  BY <1>1 DEF HoldInv, Kinds
<1>3. InsertRow("Deposit", d) /\ GoOn(<<>>) /\ UNCHANGED <<accounts, past>>
  BY <1>1 DEF HoldInv, CheckoutNext
<1>4. /\ rows' \in [Kinds -> [Txs -> Nat]]
      /\ \A s \in Txs : rows'["Deposit"][s] >= rows["Deposit"][s]
      /\ rows'["Deposit"][d] > 0
  BY <1>2, <1>3, RowsGrow DEF HoldInv
<1>5. \A j \in 1 .. checkout.index : rows'["Deposit"][hold[j]] > 0
  <2> SUFFICES ASSUME NEW j \in 1 .. checkout.index PROVE rows'["Deposit"][hold[j]] > 0
    OBVIOUS
  <2>1. CASE j = checkout.index
    BY <1>4, <2>1
  <2>2. CASE j < checkout.index
    <3>1. hold[j] \in Txs
      BY <1>1, <1>2 DEF HoldInv
    <3>2. rows["Deposit"][hold[j]] > 0
      BY <1>1, <2>2
    <3>3. rows["Deposit"][hold[j]] \in Nat /\ rows'["Deposit"][hold[j]] \in Nat
      BY <1>2, <1>4, <3>1 DEF HoldInv
    <3> HIDE DEF d
    <3> QED BY <1>4, <3>1, <3>2, <3>3
  <2> QED BY <1>1, <2>1, <2>2
<1> HIDE DEF d
<1>6. CASE LoopIsOver(checkout.index)
  <2>1. hold' = <<>> /\ checkout' = NoCheckout
    BY <1>3, <1>6 DEF GoOn
  <2>2. checkout.index = Len(hold)
    BY <1>6 DEF LoopIsOver
  <2>3. NoneLost
    BY <1>1, <1>5, <2>2 DEF HoldInv, NoneLost, Held
  <2>4. PassIsRecorded'
    BY <2>1 DEF PassIsRecorded, NoCheckout
  <2> QED BY <1>3, <1>4, <2>1, <2>3, <2>4 DEF HoldInv
<1>7. CASE ~LoopIsOver(checkout.index)
  <2>1. /\ checkout' = [pc |-> "looping", index |-> checkout.index + 1, newArr |-> <<>>]
        /\ UNCHANGED hold
    BY <1>3, <1>7 DEF GoOn
  <2>2. checkout.index + 1 \in 1 .. Len(hold)
    BY <1>1, <1>2, <1>7 DEF LoopIsOver
  <2>3. PassIsRecorded'
    BY <1>1, <1>5, <2>1, <2>2 DEF PassIsRecorded
  <2> QED BY <1>3, <1>4, <2>1, <2>3 DEF HoldInv, NoneLost, Held
<1> QED BY <1>6, <1>7

\* A pass that throws leaves the array as it is.
LEMMA FailCheckoutKeeps ==
  ASSUME HoldInv, FailCheckout PROVE HoldInv' /\ NoneLost
<1>1. UNCHANGED <<hold, rows, accounts>> /\ checkout' = NoCheckout
  BY DEF FailCheckout, AfterFailure, dbVars
<1>2. past' \in [mishaps : Nat, failures : Nat, heardTwice : SUBSET Txs]
  <2>1. /\ past \in [mishaps : Nat, failures : Nat, heardTwice : SUBSET Txs]
        /\ past' = [past EXCEPT !.failures = @ + 1]
    BY DEF FailCheckout, HoldInv
  <2>2. past.failures + 1 \in Nat
    BY <2>1
  <2> QED BY <2>1, <2>2
<1>3. PassIsRecorded'
  BY <1>1 DEF PassIsRecorded, NoCheckout
<1> QED BY <1>1, <1>2, <1>3 DEF HoldInv, NoneLost, Held

\* A mishap changes no row and is counted.
LEMMA MishapIsCounted ==
  ASSUME HoldInv, Mishap
  PROVE  /\ past' \in [mishaps : Nat, failures : Nat, heardTwice : SUBSET Txs]
         /\ past'.mishaps > past.mishaps
         /\ UNCHANGED <<rows, accounts>>
<1>1. /\ past \in [mishaps : Nat, failures : Nat, heardTwice : SUBSET Txs]
      /\ past' = [past EXCEPT !.mishaps = @ + 1]
      /\ UNCHANGED <<rows, accounts>>
  BY DEF Mishap, HoldInv, dbVars
<1>2. past.mishaps \in Nat /\ past.mishaps + 1 \in Nat
  BY <1>1
<1>3. past'.mishaps = past.mishaps + 1
  BY <1>1
<1>4. past' \in [mishaps : Nat, failures : Nat, heardTwice : SUBSET Txs]
  BY <1>1, <1>2
<1> QED BY <1>1, <1>2, <1>3, <1>4

\* Forgetting is a mishap.
LEMMA ForgetKeeps ==
  ASSUME HoldInv, Mishap, ForgetMemory PROVE HoldInv' /\ NoneLost
<1>1. hold' = <<>> /\ checkout' = NoCheckout
  BY DEF ForgetMemory
<1>2. PassIsRecorded'
  BY <1>1 DEF PassIsRecorded, NoCheckout
<1> QED BY <1>1, <1>2, MishapIsCounted DEF HoldInv, NoneLost

LEMMA MishapElsewhereKeeps ==
  ASSUME HoldInv, Mishap, UNCHANGED memVars PROVE HoldInv' /\ NoneLost
<1>1. UNCHANGED <<hold, checkout>>
  BY DEF memVars
<1>2. PassIsRecorded'
  BY <1>1, MishapIsCounted DEF HoldInv, PassIsRecorded
<1> QED BY <1>1, <1>2, MishapIsCounted DEF HoldInv, NoneLost

\* Every step keeps HoldInv and loses no held deposit.
LEMMA HoldStep ==
  ASSUME HoldInv, [Next]_vars PROVE HoldInv' /\ NoneLost
<1>1. CASE ProgramStep
  <2>1. CASE CoreStep
    BY <2>1, HoldUnchanged DEF CoreStep, dbVars, memVars
  <2>2. ASSUME NEW k \in Kinds, Query(k) \/ Attach(k) \/ UpdateSync(k) PROVE HoldInv' /\ NoneLost
    BY <2>2, HoldUnchanged DEF Query, Attach, UpdateSync, dbVars
  <2>3. ASSUME NEW k \in Kinds, NEW t \in Txs, FindLive(k, t) PROVE HoldInv' /\ NoneLost
    BY <2>3, FindLiveKeeps
  <2>4. ASSUME NEW i \in Instances, HandlerStep(i) PROVE HoldInv' /\ NoneLost
    <3>1. CASE FindHistoric(i)
      BY <3>1, HoldUnchanged DEF FindHistoric, dbVars
    <3> QED BY <2>4, <3>1, RegisterKeeps, UpsertKeeps, DepositKeeps DEF HandlerStep
  <2>5. CASE StartCheckout \/ CheckoutNext
    BY <2>5, StartCheckoutKeeps, CheckoutNextKeeps
  <2> QED BY <1>1, <2>1, <2>2, <2>3, <2>4, <2>5 DEF ProgramStep
<1>2. CASE NewL1Tx
  BY <1>2, HoldUnchanged DEF NewL1Tx, dbVars, memVars
<1>3. CASE FailCheckout
  BY <1>3, FailCheckoutKeeps
<1>4. ASSUME NEW w \in Workers, WorkerExits(w) PROVE HoldInv' /\ NoneLost
  BY <1>4, ForgetKeeps, MishapElsewhereKeeps DEF WorkerExits
<1>5. CASE Restart
  BY <1>5, ForgetKeeps DEF Restart
<1>6. CASE UNCHANGED vars
  BY <1>6, HoldUnchanged DEF vars, dbVars, memVars
<1> QED BY <1>1, <1>2, <1>3, <1>4, <1>5, <1>6 DEF Next

\* A deposit leaves the held ones by its row or by a restart only, whatever is
\* held while checkoutHoldTx awaits the database and whenever it throws.
THEOREM HeldNeverLost == Spec => HeldIsRecorded
<1>1. HoldInv /\ [Next]_vars => HoldInv'
  BY HoldStep
<1>2. HoldInv /\ [Next]_vars => [NoneLost]_vars
  BY HoldStep
<1>3. Spec => [][NoneLost]_vars
  BY HoldInitOK, <1>1, <1>2, PTL DEF Spec
<1> QED BY <1>3 DEF HeldIsRecorded, NoneLost

-----------------------------------------------------------------------------
\* The rows a registration and a deposit leave are never taken away.
RowsKept ==
    /\ rows' \in [Kinds -> [Txs -> Nat]]
    /\ \A k \in Kinds, t \in Txs : rows'[k][t] >= rows[k][t]

\* No event is before the position from which the next start reads the history.
NothingIsPassed == \A k \in Kinds : \A t \in Emitted(k) : sync[k] <= t

\* No event is before all the logs of a query: the query was made from a
\* position that had passed none, and what came to L1 since is after them.
LogsBeginFirst ==
    \A k \in Kinds : \A t \in Emitted(k) :
        listener[k].logs # {} => \E s \in listener[k].logs : s <= t

Listeners == [pc : {"waiting", "queried", "attached", "synced"}, logs : SUBSET Nat, from : Nat]

SyncInv ==
    /\ l1 \in Seq([account : Nat, registers : BOOLEAN])
    /\ Len(l1) <= MaxTxs
    /\ rows \in [Kinds -> [Txs -> Nat]]
    /\ sync \in [Kinds -> Nat]
    /\ \A k \in Kinds : sync[k] <= Len(l1)
    /\ listener \in [Kinds -> Listeners]
    /\ \A k \in Kinds : listener[k].logs \subseteq DOMAIN l1
    /\ LogsBeginFirst
    /\ NothingIsPassed

LEMMA SyncInitOK == Init => SyncInv
<1> SUFFICES ASSUME Init PROVE SyncInv
  OBVIOUS
<1>1. l1 = <<>> /\ \A k \in Kinds : Emitted(k) = {}
  BY DEF Init, Emitted
<1>2. /\ l1 \in Seq([account : Nat, registers : BOOLEAN])
      /\ Len(l1) <= MaxTxs
  BY <1>1, OperatorEventsAssumption
<1>3. /\ sync \in [Kinds -> Nat]
      /\ \A k \in Kinds : sync[k] <= Len(l1)
      /\ rows \in [Kinds -> [Txs -> Nat]]
  BY <1>1 DEF Init
<1>4. [pc |-> "waiting", logs |-> {}, from |-> 0] \in Listeners
  BY DEF Listeners
<1>5. /\ listener \in [Kinds -> Listeners]
      /\ \A k \in Kinds : listener[k].logs = {}
  BY <1>4 DEF Init, NotListening
<1> QED BY <1>1, <1>2, <1>3, <1>5 DEF SyncInv, LogsBeginFirst, NothingIsPassed

\* A step that neither moves a position nor answers a query.
LEMMA SyncKept ==
  ASSUME SyncInv, RowsKept, UNCHANGED <<l1, sync>>,
         listener' \in [Kinds -> Listeners],
         \A k \in Kinds : listener'[k].logs \in {{}, listener[k].logs}
  PROVE  SyncInv'
<1>1. \A k \in Kinds : Emitted(k)' = Emitted(k)
  BY DEF Emitted, Emits
<1>2. NothingIsPassed'
  BY <1>1 DEF SyncInv, NothingIsPassed
<1>3. LogsBeginFirst'
  BY <1>1 DEF SyncInv, LogsBeginFirst
<1>4. \A k \in Kinds : listener'[k].logs \subseteq DOMAIN l1'
  BY DEF SyncInv
<1> QED BY <1>2, <1>3, <1>4 DEF SyncInv, RowsKept

\* A step without an insert keeps all rows.
LEMMA RowsUnchanged ==
  ASSUME SyncInv, UNCHANGED rows PROVE RowsKept
  BY DEF SyncInv, RowsKept

\* An insert keeps all rows.
LEMMA RowsInserted ==
  ASSUME SyncInv, NEW k \in Kinds, NEW t \in Txs, InsertRow(k, t) PROVE RowsKept
<1>1. /\ rows \in [Kinds -> [Txs -> Nat]]
      /\ rows' = [rows EXCEPT ![k][t] = @ + 1]
  BY DEF SyncInv, InsertRow
<1>2. rows' \in [Kinds -> [Txs -> Nat]]
  BY <1>1
<1>3. ASSUME NEW j \in Kinds, NEW s \in Txs PROVE rows'[j][s] >= rows[j][s]
  BY <1>1
<1> QED BY <1>2, <1>3 DEF RowsKept

\* A step that only adds rows keeps SyncInv.
LEMMA SyncUnchanged ==
  ASSUME SyncInv, RowsKept, UNCHANGED <<l1, sync, listener>> PROVE SyncInv'
  BY SyncKept DEF SyncInv

\* A new L1 block lies above every position.
LEMMA NewL1TxKeepsSync ==
  ASSUME SyncInv, NewL1Tx PROVE SyncInv'
<1>1. /\ Len(l1) < MaxTxs
      /\ UNCHANGED <<sync, rows, listener>>
  BY DEF NewL1Tx, dbVars, memVars
<1>2. PICK a \in Nat, r \in BOOLEAN : l1' = Append(l1, [account |-> a, registers |-> r])
  <2>1. Len(l1) + 1 \in Nat
    BY DEF SyncInv
  <2>2. ASSUME NEW t \in DOMAIN l1 PROVE l1[t].account \in Nat
    <3> DEFINE T == [account : Nat, registers : BOOLEAN]
    <3>1. l1 \in Seq(T)
      BY DEF SyncInv
    <3> HIDE DEF T
    <3>2. l1[t] \in T
      BY <3>1
    <3> QED BY <3>2 DEF T
  <2> QED BY <2>1, <2>2 DEF NewL1Tx, Registered
<1>3. /\ l1' \in Seq([account : Nat, registers : BOOLEAN])
      /\ Len(l1') = Len(l1) + 1
      /\ DOMAIN l1' = 1 .. Len(l1) + 1
      /\ DOMAIN l1 = 1 .. Len(l1)
      /\ Len(l1) \in Nat
      /\ \A t \in DOMAIN l1 : l1'[t] = l1[t]
  BY <1>2 DEF SyncInv
<1>4. ASSUME NEW k \in Kinds, NEW t \in Emitted(k)', t # Len(l1) + 1 PROVE t \in Emitted(k)
  BY <1>3, <1>4 DEF Emitted, Emits
<1>5. \A k \in Kinds : sync[k] \in Nat /\ sync[k] <= Len(l1)
  BY DEF SyncInv
<1>6. ASSUME NEW k \in Kinds, NEW t \in Emitted(k)' PROVE sync[k] <= t
  <2>1. CASE t = Len(l1) + 1
    BY <1>3, <1>5, <2>1
  <2>2. CASE t # Len(l1) + 1
    BY <1>4, <2>2 DEF SyncInv, NothingIsPassed
  <2> QED BY <2>1, <2>2
<1>7. ASSUME NEW k \in Kinds, NEW t \in Emitted(k)', listener[k].logs # {}
      PROVE  \E s \in listener[k].logs : s <= t
  <2>1. CASE t = Len(l1) + 1
    <3>1. PICK s \in listener[k].logs : s \in 1 .. Len(l1)
      BY <1>3, <1>7 DEF SyncInv
    <3> QED BY <1>3, <2>1, <3>1
  <2>2. CASE t # Len(l1) + 1
    BY <1>4, <1>7, <2>2 DEF SyncInv, LogsBeginFirst
  <2> QED BY <2>1, <2>2
<1>8. \A k \in Kinds : listener'[k].logs \subseteq DOMAIN l1'
  BY <1>1, <1>3 DEF SyncInv
<1>9. /\ Len(l1') <= MaxTxs
      /\ \A k \in Kinds : sync[k] <= Len(l1')
  BY <1>1, <1>3, <1>5, OperatorEventsAssumption
<1>10. NothingIsPassed'
  BY <1>1, <1>6 DEF NothingIsPassed
<1>11. LogsBeginFirst'
  BY <1>1, <1>7 DEF LogsBeginFirst
<1> QED BY <1>1, <1>3, <1>8, <1>9, <1>10, <1>11 DEF SyncInv

\* The query takes all from the sync position on, so it leaves out no event.
LEMMA QueryKeepsSync ==
  ASSUME SyncInv, NEW k \in Kinds, Query(k) PROVE SyncInv'
<1> DEFINE logs == {t \in Emitted(k) : t >= sync[k]}
<1>1. UNCHANGED <<l1, sync, rows>>
  BY DEF Query, dbVars
<1>2. listener' = [listener EXCEPT ![k].pc = "queried", ![k].logs = logs]
  BY DEF Query, History
<1>3. /\ logs \subseteq DOMAIN l1
      /\ DOMAIN l1 \subseteq Nat
  BY DEF Emitted, SyncInv
<1>4. /\ listener'[k] = [listener[k] EXCEPT !.pc = "queried", !.logs = logs]
      /\ listener[k] \in Listeners
      /\ \A j \in Kinds \ {k} : listener'[j] = listener[j]
  BY <1>2 DEF SyncInv
<1>5. listener'[k].logs = logs /\ listener'[k] \in Listeners
  BY <1>3, <1>4 DEF Listeners
<1>6. listener' \in [Kinds -> Listeners]
  BY <1>2, <1>5 DEF SyncInv
<1>7. \A j \in Kinds : Emitted(j)' = Emitted(j)
  BY <1>1 DEF Emitted, Emits
<1>8. ASSUME NEW t \in Emitted(k) PROVE t \in logs /\ t <= t
  <2>1. t \in Nat /\ sync[k] \in Nat /\ sync[k] <= t
    BY <1>3 DEF SyncInv, NothingIsPassed, Emitted
  <2> QED BY <2>1
<1> HIDE DEF logs
<1>9. LogsBeginFirst'
  <2> SUFFICES ASSUME NEW j \in Kinds, NEW t \in Emitted(j), listener'[j].logs # {}
               PROVE  \E s \in listener'[j].logs : s <= t
    BY <1>7 DEF LogsBeginFirst
  <2>1. CASE j = k
    BY <1>5, <1>8, <2>1
  <2>2. CASE j # k
    BY <1>4, <2>2 DEF SyncInv, LogsBeginFirst
  <2> QED BY <2>1, <2>2
<1>10. NothingIsPassed'
  BY <1>1, <1>7 DEF SyncInv, NothingIsPassed
<1>11. \A j \in Kinds : listener'[j].logs \subseteq DOMAIN l1
  BY <1>3, <1>4, <1>5 DEF SyncInv
<1> QED BY <1>1, <1>6, <1>9, <1>10, <1>11 DEF SyncInv

\* The smallest of the logs becomes the position.
LEMMA UpdateSyncKeepsSync ==
  ASSUME SyncInv, NEW k \in Kinds, UpdateSync(k) PROVE SyncInv'
<1> DEFINE logs == listener[k].logs
<1>1. UNCHANGED <<l1, rows>>
  BY DEF UpdateSync
<1>2. /\ listener' = [listener EXCEPT ![k].pc = "synced"]
      /\ sync' = [sync EXCEPT ![k] = IF logs = {} THEN @ ELSE SyncAfter(logs)]
  BY DEF UpdateSync
<1>3. /\ logs \subseteq DOMAIN l1
      /\ DOMAIN l1 = 1 .. Len(l1)
      /\ Len(l1) \in Nat
  BY DEF SyncInv
<1>4. ASSUME logs # {} PROVE SyncAfter(logs) \in logs /\ \A s \in logs : SyncAfter(logs) <= s
  <2>1. logs \in SUBSET Nat
    BY <1>3
  <2>2. \E t \in logs : \A s \in logs : t <= s
    BY <1>4, <2>1, LeastNat
  <2> HIDE DEF logs
  <2> QED BY <2>2 DEF SyncAfter
<1>5. /\ listener'[k] = [listener[k] EXCEPT !.pc = "synced"]
      /\ listener[k] \in Listeners
      /\ \A j \in Kinds \ {k} : listener'[j] = listener[j]
  BY <1>2 DEF SyncInv
<1>6. listener'[k].logs = logs /\ listener'[k] \in Listeners
  BY <1>5 DEF Listeners
<1>7. listener' \in [Kinds -> Listeners] /\ \A j \in Kinds : listener'[j].logs = listener[j].logs
  BY <1>2, <1>5, <1>6 DEF SyncInv
<1>8. \A j \in Kinds : Emitted(j)' = Emitted(j)
  BY <1>1 DEF Emitted, Emits
<1> HIDE DEF logs
<1>9. /\ sync' \in [Kinds -> Nat]
      /\ \A j \in Kinds : sync'[j] <= Len(l1)
  BY <1>2, <1>3, <1>4 DEF SyncInv
<1>10. ASSUME NEW t \in Emitted(k), logs # {} PROVE SyncAfter(logs) <= t
  <2>1. t \in Nat /\ SyncAfter(logs) \in Nat /\ \A s \in logs : s \in Nat
    BY <1>3, <1>4, <1>10 DEF Emitted
  <2>2. PICK s \in logs : s <= t
    BY <1>10 DEF SyncInv, LogsBeginFirst, logs
  <2> QED BY <1>4, <1>10, <2>1, <2>2
<1>11. NothingIsPassed'
  <2> SUFFICES ASSUME NEW j \in Kinds, NEW t \in Emitted(j) PROVE sync'[j] <= t
    BY <1>8 DEF NothingIsPassed
  <2>1. CASE j = k /\ logs # {}
    BY <1>2, <1>10, <2>1 DEF SyncInv
  <2>2. CASE j # k \/ logs = {}
    <3>1. sync'[j] = sync[j]
      BY <1>2, <2>2 DEF SyncInv
    <3> QED BY <3>1 DEF SyncInv, NothingIsPassed
  <2> QED BY <2>1, <2>2
<1>12. LogsBeginFirst'
  BY <1>7, <1>8 DEF SyncInv, LogsBeginFirst
<1> QED BY <1>1, <1>7, <1>9, <1>11, <1>12 DEF SyncInv

\* A listener starts from the position it reads.
LEMMA AttachKeepsSync ==
  ASSUME SyncInv, NEW k \in Kinds, Attach(k) PROVE SyncInv'
<1>1. /\ UNCHANGED <<l1, sync, rows>>
      /\ listener' = [listener EXCEPT ![k].pc = "attached", ![k].from = LatestBlock]
  BY DEF Attach, dbVars
<1>2. LatestBlock \in Nat
  BY DEF SyncInv, LatestBlock
<1>3. /\ listener'[k] = [listener[k] EXCEPT !.pc = "attached", !.from = LatestBlock]
      /\ listener[k] \in Listeners
      /\ \A j \in Kinds \ {k} : listener'[j] = listener[j]
  BY <1>1 DEF SyncInv
<1>4. listener'[k].logs = listener[k].logs /\ listener'[k] \in Listeners
  BY <1>2, <1>3 DEF Listeners
<1>5. listener' \in [Kinds -> Listeners]
  BY <1>1, <1>4 DEF SyncInv
<1> QED BY <1>1, <1>3, <1>4, <1>5, RowsUnchanged, SyncKept

\* After a restart nothing is claimed of the listeners.
LEMMA ForgetKeepsSync ==
  ASSUME SyncInv, Mishap, ForgetMemory PROVE SyncInv'
<1>1. UNCHANGED <<l1, sync, rows>> /\ listener' = NotListening
  BY DEF Mishap, ForgetMemory, dbVars
<1>2. [pc |-> "waiting", logs |-> {}, from |-> 0] \in Listeners
  BY DEF Listeners
<1>3. /\ listener' \in [Kinds -> Listeners]
      /\ \A k \in Kinds : listener'[k].logs = {}
  BY <1>1, <1>2 DEF NotListening
<1> QED BY <1>1, <1>3, RowsUnchanged, SyncKept

\* The handlers only add rows.
LEMMA RowsKeptByHandlers ==
  ASSUME SyncInv, NEW i \in Instances, HandlerStep(i)
  PROVE  RowsKept /\ UNCHANGED <<l1, sync, listener>>
<1>1. "Register" \in Kinds /\ "Deposit" \in Kinds /\ i[2] \in Txs
  BY DEF Instances, Kinds
<1>2. CASE FindHistoric(i)
  BY <1>2, RowsUnchanged DEF FindHistoric, dbVars
<1>3. CASE InsertRegister(i)
  BY <1>1, <1>3, RowsInserted DEF InsertRegister
<1>4. CASE UpsertAccount(i)
  BY <1>4, RowsUnchanged DEF UpsertAccount
<1>5. CASE RecordDeposit(i)
  BY <1>1, <1>5, RowsInserted, RowsUnchanged DEF RecordDeposit
<1> QED BY <1>2, <1>3, <1>4, <1>5 DEF HandlerStep

\* Every step keeps SyncInv.
LEMMA SyncInvKept ==
  ASSUME SyncInv, HoldInv, [Next]_vars PROVE SyncInv'
<1>1. CASE ProgramStep
  <2>1. CASE CoreStep
    BY <2>1, RowsUnchanged, SyncUnchanged DEF CoreStep, dbVars, memVars
  <2>2. ASSUME NEW k \in Kinds, Query(k) \/ Attach(k) \/ UpdateSync(k) PROVE SyncInv'
    BY <2>2, QueryKeepsSync, AttachKeepsSync, UpdateSyncKeepsSync
  <2>3. ASSUME NEW k \in Kinds, NEW t \in Txs, FindLive(k, t) PROVE SyncInv'
    BY <2>3, RowsUnchanged, SyncUnchanged DEF FindLive, dbVars
  <2>4. ASSUME NEW i \in Instances, HandlerStep(i) PROVE SyncInv'
    BY <2>4, RowsKeptByHandlers, SyncUnchanged
  <2>5. CASE StartCheckout
    BY <2>5, RowsUnchanged, SyncUnchanged DEF StartCheckout, dbVars
  <2>6. CASE CheckoutNext
    <3>1. "Deposit" \in Kinds /\ hold[checkout.index] \in Txs /\ accounts # {}
      BY <2>6 DEF HoldInv, PassIsRecorded, CheckoutNext, Kinds
    <3>2. InsertRow("Deposit", hold[checkout.index]) /\ UNCHANGED <<l1, sync, listener>>
      BY <2>6, <3>1 DEF CheckoutNext
    <3> QED BY <3>1, <3>2, RowsInserted, SyncUnchanged
  <2> QED BY <1>1, <2>1, <2>2, <2>3, <2>4, <2>5, <2>6 DEF ProgramStep
<1>2. CASE NewL1Tx
  BY <1>2, NewL1TxKeepsSync
<1>3. CASE FailCheckout
  BY <1>3, RowsUnchanged, SyncUnchanged DEF FailCheckout, dbVars
<1>4. ASSUME NEW w \in Workers, WorkerExits(w) PROVE SyncInv'
  <2>1. CASE UNCHANGED memVars
    BY <1>4, <2>1, RowsUnchanged, SyncUnchanged DEF WorkerExits, Mishap, dbVars, memVars
  <2> QED BY <1>4, <2>1, ForgetKeepsSync DEF WorkerExits
<1>5. CASE Restart
  BY <1>5, ForgetKeepsSync DEF Restart
<1>6. CASE UNCHANGED vars
  BY <1>6, RowsUnchanged, SyncUnchanged DEF vars, dbVars, memVars
<1> QED BY <1>1, <1>2, <1>3, <1>4, <1>5, <1>6 DEF Next

\* The positions that the end of each history sets never pass an event, so every
\* start queries the history from before the first one and hears again all that
\* the process before it may have lost (operator.producer.ts:103-107, 191-195).
THEOREM StartsHearAll == Spec => []NothingIsPassed
<1>1. Init => SyncInv /\ HoldInv
  BY SyncInitOK, HoldInitOK
<1>2. SyncInv /\ HoldInv /\ [Next]_vars => SyncInv' /\ HoldInv'
  BY SyncInvKept, HoldStep
<1>3. SyncInv => NothingIsPassed
  BY DEF SyncInv
<1> QED BY <1>1, <1>2, <1>3, PTL DEF Spec

-----------------------------------------------------------------------------
\* Of the handlers of one event: before its listener is attached there is none,
\* and only FindLive, which then notes that the event was heard twice, makes a
\* second one.
HandlerStates == {"none", "called", "new", "inserted", "upserted", "done"}
NotAttached(k) == listener[k].pc \in {"waiting", "queried"}
HeardByAttached ==
    \A k \in Kinds : NotAttached(k) =>
        listener[k].from = 0 /\ \A t \in Txs, y \in Ways : handler[<<k, t, y>>] = "none"
HeardOnce ==
    \A k \in Kinds, t \in Txs :
        \/ t \in past.heardTwice
        \/ handler[<<k, t, "historic">>] = "none"
        \/ handler[<<k, t, "live">>] = "none"

HeardInv ==
    /\ handler \in [Instances -> HandlerStates]
    /\ listener \in [Kinds -> Listeners]
    /\ HeardByAttached
    /\ HeardOnce

LEMMA InstanceParts ==
  /\ \A k \in Kinds, t \in Txs, y \in Ways : <<k, t, y>> \in Instances
  /\ \A i \in Instances :
        i[1] \in Kinds /\ i[2] \in Txs /\ i[3] \in Ways /\ i = <<i[1], i[2], i[3]>>
  BY DEF Instances

\* What is forgotten was not heard.
LEMMA ForgottenIsUnheard ==
  ASSUME listener' = NotListening, handler' = NoHandlers PROVE HeardInv'
<1>1. [pc |-> "waiting", logs |-> {}, from |-> 0] \in Listeners
  BY DEF Listeners
<1>2. listener' \in [Kinds -> Listeners] /\ \A k \in Kinds : listener'[k].from = 0
  BY <1>1 DEF NotListening
<1>3. /\ handler' \in [Instances -> HandlerStates]
      /\ \A k \in Kinds, t \in Txs, y \in Ways : handler'[<<k, t, y>>] = "none"
  BY InstanceParts DEF NoHandlers, HandlerStates
<1>4. HeardOnce'
  BY <1>3 DEF HeardOnce, Ways
<1> QED BY <1>2, <1>3, <1>4 DEF HeardInv, HeardByAttached

LEMMA HeardInitOK == Init => HeardInv
<1> SUFFICES ASSUME Init PROVE HeardInv
  OBVIOUS
<1>1. [pc |-> "waiting", logs |-> {}, from |-> 0] \in Listeners
  BY DEF Listeners
<1>2. listener \in [Kinds -> Listeners] /\ \A k \in Kinds : listener[k].from = 0
  BY <1>1 DEF NotListening, Init
<1>3. /\ handler \in [Instances -> HandlerStates]
      /\ \A k \in Kinds, t \in Txs, y \in Ways : handler[<<k, t, y>>] = "none"
  BY InstanceParts DEF NoHandlers, HandlerStates, Init
<1>4. HeardOnce
  BY <1>3 DEF HeardOnce, Ways
<1> QED BY <1>2, <1>3, <1>4 DEF HeardInv, HeardByAttached

\* A handler that was called moves on.
LEMMA HeardKeptByHandlers ==
  ASSUME HeardInv, NEW i \in Instances, HandlerStep(i) PROVE HeardInv'
<1>1. /\ UNCHANGED <<listener, past>>
      /\ handler[i] # "none"
      /\ \E p \in HandlerStates : handler' = [handler EXCEPT ![i] = p]
  BY DEF HandlerStep, FindHistoric, FindOldTx, InsertRegister, UpsertAccount, RecordDeposit,
         Goto, HandlerStates
<1>2. /\ handler' \in [Instances -> HandlerStates]
      /\ \A j \in Instances : handler[j] = "none" => handler'[j] = "none"
  BY <1>1 DEF HeardInv
<1>3. HeardByAttached'
  BY <1>1, <1>2, InstanceParts DEF HeardInv, HeardByAttached, NotAttached
<1>4. HeardOnce'
  BY <1>1, <1>2, InstanceParts DEF HeardInv, HeardOnce, Ways
<1> QED BY <1>1, <1>2, <1>3, <1>4 DEF HeardInv

\* A live event heard again is counted as heard twice.
LEMMA FindLiveKeepsHeard ==
  ASSUME HeardInv, HoldInv, NEW k \in Kinds, NEW t \in Txs, FindLive(k, t) PROVE HeardInv'
<1> DEFINE i == <<k, t, "live">>
<1>1. i \in Instances /\ "historic" \in Ways /\ "live" \in Ways
  BY InstanceParts DEF Ways
<1>2. \E p \in HandlerStates : handler' = [handler EXCEPT ![i] = p]
  BY DEF FindLive, FindOldTx, Goto, HandlerStates
<1>3. /\ handler' \in [Instances -> HandlerStates]
      /\ \A j \in Instances : j # i => handler'[j] = handler[j]
  BY <1>1, <1>2 DEF HeardInv
<1>4. UNCHANGED listener /\ listener[k].from # 0
  BY DEF FindLive
<1>5. ~NotAttached(k)
  BY <1>4 DEF HeardInv, HeardByAttached
<1>6. HeardByAttached'
  <2> SUFFICES ASSUME NEW j \in Kinds, NotAttached(j)
               PROVE  listener[j].from = 0 /\ \A s \in Txs, y \in Ways : handler'[<<j, s, y>>] = "none"
    BY <1>4 DEF HeardByAttached, NotAttached
  <2>1. j # k
    BY <1>5
  <2>2. \A s \in Txs, y \in Ways : <<j, s, y>> # i
    BY <2>1
  <2> QED BY <1>3, <2>2, InstanceParts DEF HeardInv, HeardByAttached
<1>7. /\ past.heardTwice \subseteq past'.heardTwice
      /\ handler[<<k, t, "historic">>] # "none" => t \in past'.heardTwice
  BY DEF FindLive, HoldInv
<1>8. ASSUME NEW j \in Kinds, NEW s \in Txs
      PROVE  \/ s \in past'.heardTwice
             \/ handler'[<<j, s, "historic">>] = "none"
             \/ handler'[<<j, s, "live">>] = "none"
  <2>1. handler'[<<j, s, "historic">>] = handler[<<j, s, "historic">>]
    BY <1>1, <1>3, InstanceParts
  <2>2. CASE j = k /\ s = t
    BY <1>7, <2>1, <2>2
  <2>3. CASE ~(j = k /\ s = t)
    <3>1. handler'[<<j, s, "live">>] = handler[<<j, s, "live">>]
      BY <1>1, <1>3, <2>3, InstanceParts
    <3> QED BY <1>7, <2>1, <3>1 DEF HeardInv, HeardOnce
  <2> QED BY <2>2, <2>3
<1> QED BY <1>3, <1>4, <1>6, <1>8 DEF HeardInv, HeardOnce

\* The handlers of the history are called when there is no other yet.
LEMMA AttachKeepsHeard ==
  ASSUME HeardInv, SyncInv, NEW k \in Kinds, Attach(k) PROVE HeardInv'
<1>1. /\ UNCHANGED past
      /\ listener[k].pc = "queried"
      /\ listener' = [listener EXCEPT ![k].pc = "attached", ![k].from = LatestBlock]
      /\ handler' = [i \in Instances |->
            IF i[1] = k /\ i[2] \in listener[k].logs /\ i[3] = "historic" THEN "called" ELSE handler[i]]
  BY DEF Attach
<1>2. LatestBlock \in Nat
  BY DEF SyncInv, LatestBlock
<1>3. /\ listener'[k] = [listener[k] EXCEPT !.pc = "attached", !.from = LatestBlock]
      /\ listener[k] \in Listeners
      /\ \A j \in Kinds \ {k} : listener'[j] = listener[j]
  BY <1>1 DEF HeardInv
<1>4. listener'[k].pc = "attached" /\ listener'[k] \in Listeners
  BY <1>2, <1>3 DEF Listeners
<1>5. listener' \in [Kinds -> Listeners]
  BY <1>1, <1>4 DEF HeardInv
<1>6. handler' \in [Instances -> HandlerStates]
  BY <1>1 DEF HeardInv, HandlerStates
<1>7. HeardByAttached'
  <2> SUFFICES ASSUME NEW j \in Kinds, NotAttached(j)'
               PROVE  listener'[j].from = 0 /\ \A s \in Txs, y \in Ways : handler'[<<j, s, y>>] = "none"
    BY DEF HeardByAttached
  <2>1. j # k
    BY <1>4 DEF NotAttached
  <2>2. listener'[j] = listener[j]
    BY <1>3, <2>1
  <2>3. ASSUME NEW s \in Txs, NEW y \in Ways PROVE handler'[<<j, s, y>>] = handler[<<j, s, y>>]
    BY <1>1, <2>1, InstanceParts
  <2> QED BY <2>2, <2>3 DEF HeardInv, HeardByAttached, NotAttached
<1>8. \A j \in Kinds, s \in Txs : handler'[<<j, s, "live">>] = handler[<<j, s, "live">>]
  BY <1>1, InstanceParts DEF Ways
<1>9. \A s \in Txs : handler[<<k, s, "live">>] = "none"
  BY <1>1 DEF HeardInv, HeardByAttached, NotAttached, Ways
<1>10. \A j \in Kinds, s \in Txs :
          j # k => handler'[<<j, s, "historic">>] = handler[<<j, s, "historic">>]
  BY <1>1, InstanceParts DEF Ways
<1>11. HeardOnce'
  <2> SUFFICES ASSUME NEW j \in Kinds, NEW s \in Txs
               PROVE  \/ s \in past.heardTwice
                      \/ handler'[<<j, s, "historic">>] = "none"
                      \/ handler'[<<j, s, "live">>] = "none"
    BY <1>1, Zenon DEF HeardOnce
  <2>1. CASE j = k
    BY <1>8, <1>9, <2>1
  <2>2. CASE j # k
    BY <1>8, <1>10, <2>2 DEF HeardInv, HeardOnce
  <2> QED BY <2>1, <2>2
<1> QED BY <1>5, <1>6, <1>7, <1>11 DEF HeardInv

\* The other steps of a listener keep the block it is attached from.
LEMMA ListenerKeepsHeard ==
  ASSUME HeardInv, SyncInv', NEW k \in Kinds, Query(k) \/ UpdateSync(k) PROVE HeardInv'
<1>1. /\ UNCHANGED <<handler, past>>
      /\ \A j \in Kinds : NotAttached(j)' <=> NotAttached(j)
      /\ \A j \in Kinds : listener'[j].from = listener[j].from
  BY DEF HeardInv, NotAttached, Query, UpdateSync, Listeners
<1>2. listener' \in [Kinds -> Listeners]
  BY DEF SyncInv
<1> QED BY <1>1, <1>2 DEF HeardInv, HeardByAttached, HeardOnce

LEMMA HeardUnchanged ==
  ASSUME HeardInv, UNCHANGED <<listener, handler>>, past.heardTwice \subseteq past'.heardTwice
  PROVE  HeardInv'
  BY DEF HeardInv, HeardByAttached, NotAttached, HeardOnce

\* A mishap hears no event.
LEMMA MishapHearsNothing ==
  ASSUME HoldInv, Mishap PROVE past'.heardTwice = past.heardTwice /\ past'.failures = past.failures
  BY DEF HoldInv, Mishap

\* Every step keeps HeardInv.
LEMMA HeardStep ==
  ASSUME HeardInv, HoldInv, SyncInv, SyncInv', [Next]_vars PROVE HeardInv'
<1>1. CASE ProgramStep
  <2>1. CASE CoreStep
    BY <2>1, HeardUnchanged DEF CoreStep, memVars
  <2>2. ASSUME NEW k \in Kinds, Query(k) \/ Attach(k) \/ UpdateSync(k) PROVE HeardInv'
    BY <2>2, AttachKeepsHeard, ListenerKeepsHeard
  <2>3. ASSUME NEW k \in Kinds, NEW t \in Txs, FindLive(k, t) PROVE HeardInv'
    BY <2>3, FindLiveKeepsHeard
  <2>4. ASSUME NEW i \in Instances, HandlerStep(i) PROVE HeardInv'
    BY <2>4, HeardKeptByHandlers
  <2>5. CASE StartCheckout \/ CheckoutNext
    BY <2>5, HeardUnchanged DEF StartCheckout, CheckoutNext
  <2> QED BY <1>1, <2>1, <2>2, <2>3, <2>4, <2>5 DEF ProgramStep
<1>2. CASE NewL1Tx
  BY <1>2, HeardUnchanged DEF NewL1Tx, memVars
<1>3. CASE FailCheckout
  <2>1. past'.heardTwice = past.heardTwice
    BY <1>3 DEF FailCheckout, HoldInv
  <2> QED BY <1>3, <2>1, HeardUnchanged DEF FailCheckout
<1>4. ASSUME NEW w \in Workers, WorkerExits(w) PROVE HeardInv'
  <2>1. CASE UNCHANGED memVars
    BY <1>4, <2>1, HeardUnchanged, MishapHearsNothing DEF WorkerExits, memVars
  <2> QED BY <1>4, <2>1, ForgottenIsUnheard DEF WorkerExits, ForgetMemory
<1>5. CASE Restart
  BY <1>5, ForgottenIsUnheard DEF Restart, ForgetMemory
<1>6. CASE UNCHANGED vars
  BY <1>6, HeardUnchanged DEF vars, memVars
<1> QED BY <1>1, <1>2, <1>3, <1>4, <1>5, <1>6 DEF Next

-----------------------------------------------------------------------------
\* A handler about to insert finds no row of its kind, and a deposit still held
\* has none either and is held once: a handler that is done has put it there.
Inserts(k) == IF k = "Register" THEN {"new", "upserted"} ELSE {"new"}
FirstInserts ==
    \A k \in Kinds, t \in Txs, y \in Ways :
        handler[<<k, t, y>>] \in Inserts(k) => t \in past.heardTwice \/ rows[k][t] = 0

StillHeld(j) == j \in DOMAIN hold /\ (checkout.pc = "looping" => j >= checkout.index)
HeldOnce ==
    \A j \in DOMAIN hold : StillHeld(j) =>
        \/ hold[j] \in past.heardTwice
        \/ /\ rows["Deposit"][hold[j]] = 0
           /\ \E y \in Ways : handler[<<"Deposit", hold[j], y>>] = "done"
           /\ \A i \in DOMAIN hold : StillHeld(i) /\ hold[i] = hold[j] => i = j

OneRow == \A k \in Kinds, t \in Txs : t \in past.heardTwice \/ rows[k][t] <= 1

TwiceInv ==
    /\ checkout.pc \in {"idle", "looping"}
    /\ past.failures = 0 => FirstInserts /\ HeldOnce /\ OneRow

LEMMA TwiceInitOK == Init => TwiceInv
<1> SUFFICES ASSUME Init PROVE TwiceInv
  OBVIOUS
<1>1. \A k \in Kinds, t \in Txs, y \in Ways : handler[<<k, t, y>>] = "none"
  BY InstanceParts DEF Init, NoHandlers
<1>2. FirstInserts
  BY <1>1 DEF FirstInserts, Inserts
<1>3. HeldOnce
  BY DEF Init, HeldOnce
<1>4. OneRow
  BY DEF Init, OneRow
<1> QED BY <1>2, <1>3, <1>4 DEF Init, NoCheckout, TwiceInv

\* A step of handlers that neither inserts nor holds.
LEMMA TwiceKept ==
  ASSUME TwiceInv, UNCHANGED <<rows, hold, checkout>>,
         past'.failures = 0 => past.failures = 0,
         past.heardTwice \subseteq past'.heardTwice,
         \A k \in Kinds, t \in Txs, y \in Ways :
             /\ handler'[<<k, t, y>>] \in Inserts(k) =>
                   handler[<<k, t, y>>] \in Inserts(k) \/ rows[k][t] = 0
             /\ handler[<<k, t, y>>] = "done" => handler'[<<k, t, y>>] = "done",
         hold \in Seq(Txs)
  PROVE  TwiceInv'
<1> SUFFICES ASSUME past'.failures = 0 PROVE FirstInserts' /\ HeldOnce' /\ OneRow'
  BY DEF TwiceInv
<1>1. FirstInserts /\ HeldOnce /\ OneRow
  BY DEF TwiceInv
<1>2. ASSUME NEW k \in Kinds, NEW t \in Txs, NEW y \in Ways, handler'[<<k, t, y>>] \in Inserts(k)
      PROVE  t \in past'.heardTwice \/ rows[k][t] = 0
  BY <1>1, <1>2 DEF FirstInserts
<1>3. FirstInserts'
  BY <1>2 DEF FirstInserts
<1>4. "Deposit" \in Kinds /\ \A j \in DOMAIN hold : hold[j] \in Txs
  BY DEF Kinds
<1>5. HeldOnce'
  BY <1>1, <1>4 DEF HeldOnce, StillHeld
<1>6. OneRow'
  BY <1>1 DEF OneRow
<1> QED BY <1>3, <1>5, <1>6

\* A handler of the history goes on only when it finds no row of the hash.
LEMMA FindHistoricKeepsOnce ==
  ASSUME TwiceInv, HoldInv, HeardInv, NEW i \in Instances, FindHistoric(i) PROVE TwiceInv'
<1>1. UNCHANGED <<rows, hold, checkout, past>>
  BY DEF FindHistoric, dbVars
<1>2. /\ handler' = [handler EXCEPT ![i] = IF oldTx(i[2]) THEN "done" ELSE "new"]
      /\ handler[i] = "called"
  BY DEF FindHistoric, FindOldTx, Goto
<1>3. ASSUME NEW k \in Kinds, NEW t \in Txs, NEW y \in Ways
      PROVE  /\ handler'[<<k, t, y>>] \in Inserts(k) =>
                   handler[<<k, t, y>>] \in Inserts(k) \/ rows[k][t] = 0
             /\ handler[<<k, t, y>>] = "done" => handler'[<<k, t, y>>] = "done"
  <2>1. CASE i = <<k, t, y>>
    <3>1. i[2] = t
      BY <2>1
    <3>2. handler'[i] = IF oldTx(t) THEN "done" ELSE "new"
      BY <1>2, <3>1 DEF HeardInv
    <3>3. ~oldTx(t) => rows[k][t] = 0
      BY DEF oldTx, HoldInv
    <3> QED BY <1>2, <2>1, <3>2, <3>3 DEF Inserts
  <2>2. CASE i # <<k, t, y>>
    BY <1>2, <2>2, InstanceParts DEF HeardInv
  <2> QED BY <2>1, <2>2
<1> QED BY <1>1, <1>3, TwiceKept DEF HoldInv

\* So does a live one.
LEMMA FindLiveKeepsOnce ==
  ASSUME TwiceInv, HoldInv, HeardInv, NEW k \in Kinds, NEW t \in Txs, FindLive(k, t) PROVE TwiceInv'
<1> DEFINE i == <<k, t, "live">>
<1>1. i \in Instances /\ i[2] = t
  BY InstanceParts DEF Ways
<1>2. /\ UNCHANGED <<rows, hold, checkout>>
      /\ past'.failures = past.failures
      /\ past.heardTwice \subseteq past'.heardTwice
  BY DEF FindLive, dbVars, HoldInv
<1>3. /\ handler' = [handler EXCEPT ![i] = IF oldTx(t) THEN "done" ELSE "new"]
      /\ handler[i] = "none"
  BY <1>1 DEF FindLive, FindOldTx, Goto
<1>4. ~oldTx(t) => rows[k][t] = 0
  BY DEF oldTx, HoldInv
<1>5. handler'[i] = IF oldTx(t) THEN "done" ELSE "new"
  BY <1>1, <1>3 DEF HeardInv
<1>6. \A j \in Instances : j # i => handler'[j] = handler[j]
  BY <1>3 DEF HeardInv
<1> HIDE DEF i
<1>7. ASSUME NEW q \in Kinds, NEW s \in Txs, NEW y \in Ways
      PROVE  /\ handler'[<<q, s, y>>] \in Inserts(q) =>
                   handler[<<q, s, y>>] \in Inserts(q) \/ rows[q][s] = 0
             /\ handler[<<q, s, y>>] = "done" => handler'[<<q, s, y>>] = "done"
  <2>1. CASE i = <<q, s, y>>
    <3>1. q = k /\ s = t
      BY <2>1 DEF i
    <3> QED BY <1>3, <1>4, <1>5, <2>1, <3>1 DEF Inserts
  <2>2. CASE i # <<q, s, y>>
    BY <1>6, <2>2, InstanceParts
  <2> QED BY <2>1, <2>2
<1> QED BY <1>2, <1>7, TwiceKept DEF HoldInv

\* A listener that attaches has inserted nothing.
LEMMA AttachKeepsOnce ==
  ASSUME TwiceInv, HoldInv, HeardInv, NEW k \in Kinds, Attach(k) PROVE TwiceInv'
<1>1. /\ UNCHANGED <<rows, hold, checkout, past>>
      /\ listener[k].pc = "queried"
      /\ handler' = [i \in Instances |->
            IF i[1] = k /\ i[2] \in listener[k].logs /\ i[3] = "historic" THEN "called" ELSE handler[i]]
  BY DEF Attach, dbVars
<1>2. \A t \in Txs, y \in Ways : handler[<<k, t, y>>] = "none"
  BY <1>1 DEF HeardInv, HeardByAttached, NotAttached
<1>3. ASSUME NEW q \in Kinds, NEW t \in Txs, NEW y \in Ways
      PROVE  handler'[<<q, t, y>>] = handler[<<q, t, y>>] \/ (q = k /\ handler'[<<q, t, y>>] = "called")
  BY <1>1, InstanceParts
<1>4. ASSUME NEW q \in Kinds, NEW t \in Txs, NEW y \in Ways
      PROVE  /\ handler'[<<q, t, y>>] \in Inserts(q) => handler[<<q, t, y>>] \in Inserts(q)
             /\ handler[<<q, t, y>>] = "done" => handler'[<<q, t, y>>] = "done"
  BY <1>2, <1>3 DEF Inserts
<1> QED BY <1>1, <1>4, TwiceKept DEF HoldInv

\* Writing an account inserts no row of an event.
LEMMA UpsertKeepsOnce ==
  ASSUME TwiceInv, HoldInv, HeardInv, NEW i \in Instances, UpsertAccount(i) PROVE TwiceInv'
<1>1. /\ UNCHANGED <<rows, hold, checkout, past>>
      /\ i[1] = "Register"
      /\ handler[i] \in {"new", "inserted"}
      /\ handler' = [handler EXCEPT ![i] = IF handler[i] = "new" THEN "upserted" ELSE "done"]
  BY DEF UpsertAccount, Goto
<1>2. ASSUME NEW k \in Kinds, NEW t \in Txs, NEW y \in Ways
      PROVE  /\ handler'[<<k, t, y>>] \in Inserts(k) => handler[<<k, t, y>>] \in Inserts(k)
             /\ handler[<<k, t, y>>] = "done" => handler'[<<k, t, y>>] = "done"
  <2>1. CASE i = <<k, t, y>>
    <3>1. k = "Register"
      BY <1>1, <2>1
    <3>2. handler'[i] = IF handler[i] = "new" THEN "upserted" ELSE "done"
      BY <1>1 DEF HeardInv
    <3> QED BY <1>1, <2>1, <3>1, <3>2 DEF Inserts
  <2>2. CASE i # <<k, t, y>>
    BY <1>1, <2>2, InstanceParts DEF HeardInv
  <2> QED BY <2>1, <2>2
<1> QED BY <1>1, <1>2, TwiceKept DEF HoldInv

\* One row more of an event that had none.
LEMMA InsertedOnce ==
  ASSUME HoldInv, NEW k \in Kinds, NEW t \in Txs, InsertRow(k, t)
  PROVE  /\ rows'[k][t] = rows[k][t] + 1
         /\ \A q \in Kinds, s \in Txs : q # k \/ s # t => rows'[q][s] = rows[q][s]
         /\ rows[k][t] \in Nat
  BY DEF HoldInv, InsertRow

\* The other handler of the event, if there is one, is done only if the event
\* was heard twice.
LEMMA OnlyOneHandler ==
  ASSUME HeardInv, NEW k \in Kinds, NEW t \in Txs, NEW y \in Ways, NEW z \in Ways,
         t \notin past.heardTwice, y # z, handler[<<k, t, y>>] # "none"
  PROVE  handler[<<k, t, z>>] = "none"
  BY DEF HeardInv, HeardOnce, Ways

\* The one handler past its look inserts the one row.
LEMMA InsertRegisterKeepsOnce ==
  ASSUME TwiceInv, HoldInv, HeardInv, NEW i \in Instances, InsertRegister(i) PROVE TwiceInv'
<1> DEFINE t == i[2]
<1>1. /\ t \in Txs /\ i[3] \in Ways /\ i = <<"Register", t, i[3]>> /\ "Register" \in Kinds
      /\ handler[i] \in {"new", "upserted"}
      /\ InsertRow("Register", t)
      /\ handler' = [handler EXCEPT ![i] = IF handler[i] = "new" THEN "inserted" ELSE "done"]
      /\ UNCHANGED <<hold, checkout, past>>
  BY InstanceParts DEF InsertRegister, Goto
<1>2. /\ handler'[i] \notin Inserts("Register")
      /\ \A j \in Instances : j # i => handler'[j] = handler[j]
  BY <1>1 DEF HeardInv, Inserts
<1>3. /\ rows'["Register"][t] = rows["Register"][t] + 1
      /\ \A q \in Kinds, s \in Txs : q # "Register" \/ s # t => rows'[q][s] = rows[q][s]
      /\ rows["Register"][t] \in Nat
  BY <1>1, InsertedOnce
<1> SUFFICES ASSUME past.failures = 0 PROVE FirstInserts' /\ HeldOnce' /\ OneRow'
  BY <1>1 DEF TwiceInv
<1>4. FirstInserts /\ HeldOnce /\ OneRow
  BY DEF TwiceInv
<1> HIDE DEF t
<1>5. t \in past.heardTwice \/ rows["Register"][t] = 0
  BY <1>1, <1>4 DEF FirstInserts, Inserts
<1>6. ASSUME NEW q \in Kinds, NEW s \in Txs, NEW y \in Ways, handler'[<<q, s, y>>] \in Inserts(q)
      PROVE  s \in past.heardTwice \/ rows'[q][s] = 0
  <2>1. CASE q = "Register" /\ s = t
    <3>1. y # i[3]
      BY <1>1, <1>2, <1>6, <2>1
    <3>2. handler[<<q, s, y>>] \in Inserts(q) /\ <<q, s, y>> # i
      BY <1>1, <1>2, <1>6, <3>1, InstanceParts
    <3>3. handler[<<"Register", t, y>>] # "none"
      BY <2>1, <3>2 DEF Inserts
    <3>4. handler[<<"Register", t, i[3]>>] # "none"
      BY <1>1
    <3> QED BY <1>1, <2>1, <3>1, <3>3, <3>4, OnlyOneHandler
  <2>2. CASE ~(q = "Register" /\ s = t)
    <3>1. handler'[<<q, s, y>>] = handler[<<q, s, y>>]
      BY <1>1, <1>2, <2>2, InstanceParts
    <3> QED BY <1>3, <1>4, <1>6, <2>2, <3>1 DEF FirstInserts
  <2> QED BY <2>1, <2>2
<1>7. FirstInserts'
  BY <1>1, <1>6 DEF FirstInserts
<1>8. /\ \A s \in Txs : rows'["Deposit"][s] = rows["Deposit"][s]
      /\ \A s \in Txs, y \in Ways : handler'[<<"Deposit", s, y>>] = handler[<<"Deposit", s, y>>]
      /\ \A j \in DOMAIN hold : hold[j] \in Txs
  <2>1. "Deposit" \in Kinds
    BY DEF Kinds
  <2> QED BY <1>1, <1>2, <1>3, <2>1, InstanceParts DEF HoldInv
<1>9. HeldOnce'
  BY <1>1, <1>4, <1>8 DEF HeldOnce, StillHeld
<1>10. OneRow'
  BY <1>1, <1>3, <1>4, <1>5 DEF OneRow
<1> QED BY <1>7, <1>9, <1>10

\* A deposit is recorded by its only handler: it was neither held nor recorded.
LEMMA RecordDepositKeepsOnce ==
  ASSUME TwiceInv, HoldInv, HeardInv, NEW i \in Instances, RecordDeposit(i) PROVE TwiceInv'
<1> DEFINE t == i[2]
<1>1. /\ t \in Txs /\ i[3] \in Ways /\ i = <<"Deposit", t, i[3]>> /\ "Deposit" \in Kinds
      /\ handler[i] = "new"
      /\ handler' = [handler EXCEPT ![i] = "done"]
      /\ UNCHANGED <<checkout, past>>
      /\ \/ InsertRow("Deposit", t) /\ UNCHANGED hold
         \/ hold' = Append(hold, t) /\ UNCHANGED rows
  BY InstanceParts DEF RecordDeposit, Goto
<1>2. /\ handler'[i] = "done"
      /\ \A j \in Instances : j # i => handler'[j] = handler[j]
  BY <1>1 DEF HeardInv
<1> SUFFICES ASSUME past.failures = 0 PROVE FirstInserts' /\ HeldOnce' /\ OneRow'
  BY <1>1 DEF TwiceInv
<1>3. FirstInserts /\ HeldOnce /\ OneRow
  BY DEF TwiceInv
<1> HIDE DEF t
<1>4. t \in past.heardTwice \/ rows["Deposit"][t] = 0
  BY <1>1, <1>3 DEF FirstInserts, Inserts
<1>5. ASSUME t \notin past.heardTwice, NEW y \in Ways PROVE handler[<<"Deposit", t, y>>] # "done"
  BY <1>1, <1>5, OnlyOneHandler
<1>6. ASSUME NEW j \in DOMAIN hold, StillHeld(j), hold[j] = t PROVE t \in past.heardTwice
  BY <1>3, <1>5, <1>6 DEF HeldOnce
<1>7. ASSUME NEW s \in Txs, NEW y \in Ways, handler[<<"Deposit", s, y>>] = "done"
      PROVE  handler'[<<"Deposit", s, y>>] = "done"
  BY <1>1, <1>2, <1>7, InstanceParts
<1>8. \A j \in DOMAIN hold : hold[j] \in Txs
  BY DEF HoldInv
<1>9. ASSUME NEW q \in Kinds, NEW s \in Txs, NEW y \in Ways, handler'[<<q, s, y>>] \in Inserts(q)
      PROVE  /\ s \in past.heardTwice \/ rows[q][s] = 0
             /\ q = "Deposit" /\ s = t => t \in past.heardTwice
  <2>1. <<q, s, y>> # i
    BY <1>2, <1>9 DEF Inserts
  <2>2. handler[<<q, s, y>>] \in Inserts(q)
    BY <1>2, <1>9, <2>1, InstanceParts
  <2>3. ASSUME q = "Deposit", s = t PROVE t \in past.heardTwice
    <3>1. y # i[3] /\ handler[<<"Deposit", t, y>>] # "none"
      BY <1>1, <2>1, <2>2, <2>3 DEF Inserts
    <3>2. handler[<<"Deposit", t, i[3]>>] # "none"
      BY <1>1
    <3> QED BY <1>1, <3>1, <3>2, OnlyOneHandler
  <2> QED BY <1>3, <2>2, <2>3 DEF FirstInserts
<1>10. CASE InsertRow("Deposit", t) /\ UNCHANGED hold
  <2>1. /\ rows'["Deposit"][t] = rows["Deposit"][t] + 1
        /\ \A q \in Kinds, s \in Txs : q # "Deposit" \/ s # t => rows'[q][s] = rows[q][s]
        /\ rows["Deposit"][t] \in Nat
    BY <1>1, <1>10, InsertedOnce
  <2>2. FirstInserts'
    BY <1>1, <1>9, <2>1 DEF FirstInserts
  <2>3. OneRow'
    BY <1>1, <1>3, <1>4, <2>1 DEF OneRow
  <2>4. ASSUME NEW j \in DOMAIN hold, StillHeld(j), hold[j] \notin past.heardTwice
        PROVE  /\ rows'["Deposit"][hold[j]] = 0
               /\ \E y \in Ways : handler'[<<"Deposit", hold[j], y>>] = "done"
               /\ \A m \in DOMAIN hold : StillHeld(m) /\ hold[m] = hold[j] => m = j
    <3>1. hold[j] # t /\ hold[j] \in Txs
      BY <1>6, <1>8, <2>4
    <3> QED BY <1>1, <1>3, <1>7, <2>1, <2>4, <3>1 DEF HeldOnce
  <2>5. HeldOnce'
    BY <1>1, <1>10, <2>4 DEF HeldOnce, StillHeld
  <2> QED BY <2>2, <2>3, <2>5
<1>11. CASE hold' = Append(hold, t) /\ UNCHANGED rows
  <2>1. FirstInserts'
    BY <1>1, <1>9, <1>11 DEF FirstInserts
  <2>2. OneRow'
    BY <1>1, <1>3, <1>11 DEF OneRow
  <2>3. /\ DOMAIN hold = 1 .. Len(hold) /\ DOMAIN hold' = 1 .. Len(hold) + 1
        /\ \A j \in DOMAIN hold : hold'[j] = hold[j]
        /\ hold'[Len(hold) + 1] = t
        /\ Len(hold) \in Nat
    BY <1>1, <1>11 DEF HoldInv
  <2>4. \A j \in DOMAIN hold : StillHeld(j)' <=> StillHeld(j)
    BY <1>1, <2>3 DEF StillHeld
  <2>5. ASSUME NEW j \in DOMAIN hold', StillHeld(j)', hold'[j] \notin past.heardTwice
        PROVE  /\ rows["Deposit"][hold'[j]] = 0
               /\ \E y \in Ways : handler'[<<"Deposit", hold'[j], y>>] = "done"
               /\ \A m \in DOMAIN hold' : StillHeld(m)' /\ hold'[m] = hold'[j] => m = j
    <3>1. CASE j = Len(hold) + 1
      <4>1. hold'[j] = t /\ t \notin past.heardTwice
        BY <2>3, <2>5, <3>1
      <4>2. ASSUME NEW m \in DOMAIN hold', StillHeld(m)', hold'[m] = t PROVE m = j
        <5>1. m \notin DOMAIN hold
          BY <1>6, <2>3, <2>4, <4>1, <4>2
        <5> QED BY <2>3, <3>1, <5>1
      <4> QED BY <1>1, <1>2, <1>4, <4>1, <4>2
    <3>2. CASE j # Len(hold) + 1
      <4>1. /\ j \in DOMAIN hold /\ StillHeld(j) /\ hold'[j] = hold[j] /\ hold[j] \in Txs
            /\ hold[j] \notin past.heardTwice
        BY <1>8, <2>3, <2>4, <2>5, <3>2
      <4>2. hold[j] # t
        BY <1>6, <4>1
      <4>3. ASSUME NEW m \in DOMAIN hold', StillHeld(m)', hold'[m] = hold[j] PROVE m = j
        <5>1. m \in DOMAIN hold
          BY <2>3, <4>2, <4>3
        <5> QED BY <1>3, <2>3, <2>4, <4>1, <4>3, <5>1 DEF HeldOnce
      <4> QED BY <1>3, <1>7, <4>1, <4>3 DEF HeldOnce
    <3> QED BY <3>1, <3>2
  <2>6. HeldOnce'
    BY <1>1, <1>11, <2>5 DEF HeldOnce
  <2> QED BY <2>1, <2>2, <2>6
<1> QED BY <1>1, <1>10, <1>11

\* A pass begins at the first of the held deposits.
LEMMA StartCheckoutKeepsOnce ==
  ASSUME TwiceInv, HoldInv, StartCheckout PROVE TwiceInv'
<1>1. /\ UNCHANGED <<rows, hold, handler, past>>
      /\ checkout.pc = "idle"
      /\ checkout' = [pc |-> "looping", index |-> 1, newArr |-> <<>>]
  BY DEF StartCheckout, dbVars
<1>2. \A j \in DOMAIN hold : StillHeld(j)' <=> StillHeld(j)
  BY <1>1 DEF StillHeld, HoldInv
<1>3. \A j \in DOMAIN hold : StillHeld(j)
  BY <1>1 DEF StillHeld
<1>4. TwiceInv => (past.failures = 0 => HeldOnce')
  BY <1>1, <1>2, <1>3 DEF TwiceInv, HeldOnce
<1>5. past.failures = 0 => FirstInserts' /\ OneRow'
  BY <1>1 DEF TwiceInv, FirstInserts, OneRow
<1> QED BY <1>1, <1>4, <1>5 DEF TwiceInv

\* The deposit looked at gets its first row and is passed.
LEMMA CheckoutNextKeepsOnce ==
  ASSUME TwiceInv, HoldInv, HeardInv, CheckoutNext PROVE TwiceInv'
<1> DEFINE n == checkout.index
           d == hold[checkout.index]
<1>1. /\ n \in 1 .. Len(hold) /\ checkout.pc = "looping" /\ d \in Txs /\ "Deposit" \in Kinds
      /\ checkout.newArr = <<>> /\ accounts # {}
  BY DEF HoldInv, PassIsRecorded, CheckoutNext, Kinds
<1>2. InsertRow("Deposit", d) /\ GoOn(<<>>) /\ UNCHANGED <<handler, past>>
  BY <1>1 DEF CheckoutNext
<1>3. /\ rows'["Deposit"][d] = rows["Deposit"][d] + 1
      /\ \A q \in Kinds, s \in Txs : q # "Deposit" \/ s # d => rows'[q][s] = rows[q][s]
      /\ rows["Deposit"][d] \in Nat
  BY <1>1, <1>2, InsertedOnce
<1>4. \/ hold' = <<>> /\ checkout' = NoCheckout
      \/ checkout' = [pc |-> "looping", index |-> n + 1, newArr |-> <<>>] /\ UNCHANGED hold
  BY <1>2 DEF GoOn
<1>5. checkout'.pc \in {"idle", "looping"}
  BY <1>4 DEF NoCheckout
<1> SUFFICES ASSUME past.failures = 0 PROVE FirstInserts' /\ HeldOnce' /\ OneRow'
  BY <1>2, <1>5 DEF TwiceInv
<1>6. FirstInserts /\ HeldOnce /\ OneRow
  BY DEF TwiceInv
<1>7. StillHeld(n) /\ n \in DOMAIN hold /\ n \in Nat
  BY <1>1 DEF StillHeld, HoldInv
<1>8. \/ d \in past.heardTwice
      \/ /\ rows["Deposit"][d] = 0
         /\ \E y \in Ways : handler[<<"Deposit", d, y>>] = "done"
         /\ \A i \in DOMAIN hold : StillHeld(i) /\ hold[i] = d => i = n
  BY <1>6, <1>7 DEF HeldOnce
<1> HIDE DEF d
<1>9. ASSUME d \notin past.heardTwice, NEW y \in Ways PROVE handler[<<"Deposit", d, y>>] # "new"
  <2>1. PICK z \in Ways : handler[<<"Deposit", d, z>>] = "done"
    BY <1>8, <1>9
  <2> QED BY <1>1, <1>9, <2>1, OnlyOneHandler
<1>10. ASSUME NEW q \in Kinds, NEW s \in Txs, NEW y \in Ways, handler[<<q, s, y>>] \in Inserts(q)
       PROVE  s \in past.heardTwice \/ rows'[q][s] = 0
  <2>1. q = "Deposit" /\ s = d => s \in past.heardTwice
    BY <1>9, <1>10 DEF Inserts
  <2> QED BY <1>3, <1>6, <1>10, <2>1 DEF FirstInserts
<1>11. FirstInserts'
  BY <1>2, <1>10 DEF FirstInserts
<1>12. OneRow'
  BY <1>2, <1>3, <1>6, <1>8 DEF OneRow
<1>13. CASE hold' = <<>>
  BY <1>11, <1>12, <1>13 DEF HeldOnce
<1>14. CASE checkout' = [pc |-> "looping", index |-> n + 1, newArr |-> <<>>] /\ UNCHANGED hold
  <2>1. \A j \in DOMAIN hold : hold[j] \in Txs /\ j \in Nat
    BY DEF HoldInv
  <2>2. ASSUME NEW j \in DOMAIN hold, StillHeld(j)' PROVE StillHeld(j) /\ j # n
    BY <1>7, <1>14, <2>1, <2>2 DEF StillHeld
  <2>3. ASSUME NEW j \in DOMAIN hold, StillHeld(j)', hold[j] \notin past.heardTwice
        PROVE  /\ rows'["Deposit"][hold[j]] = 0
               /\ \E y \in Ways : handler[<<"Deposit", hold[j], y>>] = "done"
               /\ \A m \in DOMAIN hold : StillHeld(m)' /\ hold[m] = hold[j] => m = j
    <3>1. StillHeld(j) /\ j # n
      BY <2>2, <2>3
    <3>2. hold[j] # d
      BY <1>8, <2>3, <3>1
    <3> QED BY <1>1, <1>3, <1>6, <2>1, <2>2, <2>3, <3>1, <3>2 DEF HeldOnce
  <2>4. HeldOnce'
    BY <1>2, <1>14, <2>3 DEF HeldOnce
  <2> QED BY <1>11, <1>12, <2>4
<1> QED BY <1>4, <1>13, <1>14

\* A restart leaves no handler, held deposit or pass.
LEMMA ForgetKeepsOnce ==
  ASSUME TwiceInv, HoldInv, Mishap, ForgetMemory PROVE TwiceInv'
<1>1. /\ hold' = <<>> /\ checkout' = NoCheckout /\ handler' = NoHandlers /\ UNCHANGED rows
      /\ past'.heardTwice = past.heardTwice /\ past'.failures = past.failures
  BY MishapHearsNothing DEF ForgetMemory, Mishap, dbVars
<1>2. \A k \in Kinds, t \in Txs, y \in Ways : handler'[<<k, t, y>>] = "none"
  BY <1>1, InstanceParts DEF NoHandlers
<1>3. FirstInserts'
  BY <1>2 DEF FirstInserts, Inserts
<1>4. HeldOnce'
  BY <1>1 DEF HeldOnce
<1>5. past.failures = 0 => OneRow'
  BY <1>1 DEF TwiceInv, OneRow
<1> QED BY <1>1, <1>3, <1>4, <1>5 DEF TwiceInv, NoCheckout

\* A step that handles nothing.
LEMMA TwiceUnchanged ==
  ASSUME TwiceInv, HoldInv, UNCHANGED <<rows, hold, checkout, handler>>,
         past'.failures = 0 => past.failures = 0,
         past.heardTwice \subseteq past'.heardTwice
  PROVE  TwiceInv'
  BY TwiceKept DEF HoldInv

\* Every step keeps TwiceInv.
LEMMA TwiceStep ==
  ASSUME TwiceInv, HoldInv, HeardInv, [Next]_vars PROVE TwiceInv'
<1>1. CASE ProgramStep
  <2>1. CASE CoreStep
    BY <2>1, TwiceUnchanged DEF CoreStep, dbVars, memVars
  <2>2. ASSUME NEW k \in Kinds, Query(k) \/ Attach(k) \/ UpdateSync(k) PROVE TwiceInv'
    <3>1. CASE Query(k) \/ UpdateSync(k)
      BY <3>1, TwiceUnchanged DEF Query, UpdateSync, dbVars
    <3> QED BY <2>2, <3>1, AttachKeepsOnce
  <2>3. ASSUME NEW k \in Kinds, NEW t \in Txs, FindLive(k, t) PROVE TwiceInv'
    BY <2>3, FindLiveKeepsOnce
  <2>4. ASSUME NEW i \in Instances, HandlerStep(i) PROVE TwiceInv'
    BY <2>4, FindHistoricKeepsOnce, InsertRegisterKeepsOnce, UpsertKeepsOnce, RecordDepositKeepsOnce
       DEF HandlerStep
  <2>5. CASE StartCheckout \/ CheckoutNext
    BY <2>5, StartCheckoutKeepsOnce, CheckoutNextKeepsOnce
  <2> QED BY <1>1, <2>1, <2>2, <2>3, <2>4, <2>5 DEF ProgramStep
<1>2. CASE NewL1Tx
  BY <1>2, TwiceUnchanged DEF NewL1Tx, dbVars, memVars
<1>3. CASE FailCheckout
  <2>1. past'.failures = past.failures + 1 /\ past.failures \in Nat
    BY <1>3 DEF FailCheckout, HoldInv
  <2>2. checkout'.pc = "idle"
    BY <1>3 DEF FailCheckout, AfterFailure, NoCheckout
  <2> QED BY <2>1, <2>2 DEF TwiceInv
<1>4. ASSUME NEW w \in Workers, WorkerExits(w) PROVE TwiceInv'
  <2>1. CASE UNCHANGED memVars
    BY <1>4, <2>1, TwiceUnchanged, MishapHearsNothing DEF WorkerExits, Mishap, dbVars, memVars
  <2> QED BY <1>4, <2>1, ForgetKeepsOnce DEF WorkerExits
<1>5. CASE Restart
  BY <1>5, ForgetKeepsOnce DEF Restart
<1>6. CASE UNCHANGED vars
  BY <1>6, TwiceUnchanged DEF vars, dbVars, memVars
<1> QED BY <1>1, <1>2, <1>3, <1>4, <1>5, <1>6 DEF Next

LEMMA TwiceInvSuffices ==
  ASSUME TwiceInv, HoldInv PROVE TwiceOnlyIfHeardTwice
<1> SUFFICES ASSUME NEW k \in Kinds, NEW t \in Txs, rows[k][t] > 1
             PROVE  t \in past.heardTwice \/ past.failures > 0
  BY DEF TwiceOnlyIfHeardTwice
<1>1. past.failures \in Nat /\ rows[k][t] \in Nat
  BY DEF HoldInv
<1> QED BY <1>1 DEF TwiceInv, OneRow

\* The look for the hash and the insert are awaits apart, and the history is
\* heard again at every start: still an event has two rows of its kind only if
\* one process heard it twice or a pass of checkoutHoldTx threw
\* (operator.producer.ts, handleRegisterEvent, handleDepositEvent).
THEOREM TwiceCorrect == Spec => []TwiceOnlyIfHeardTwice
<1> DEFINE Inv == SyncInv /\ HoldInv /\ HeardInv /\ TwiceInv
<1>1. Init => Inv
  BY SyncInitOK, HoldInitOK, HeardInitOK, TwiceInitOK
<1>2. Inv /\ [Next]_vars => Inv'
  BY SyncInvKept, HoldStep, HeardStep, TwiceStep
<1>3. Inv => TwiceOnlyIfHeardTwice
  BY TwiceInvSuffices
<1> QED BY <1>1, <1>2, <1>3, PTL DEF Spec
=============================================================================
