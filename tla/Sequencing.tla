----------------------------- MODULE Sequencing -----------------------------
(***************************************************************************)
(* From a row of TransactionInfo to a block: the dispatcher                *)
(* (ts-core/src/producer.service.ts, dispatchPendingTransaction), its      *)
(* queue, and the sequencer (sequencer.processor.ts: process,              *)
(* doTransaction, startRollup, endRollup).  What a request does to the     *)
(* accounts and orders is SequencerLedger's; here a request runs through,  *)
(* or throws before or after it has extended the block's payload.          *)
(*                                                                         *)
(* A cron invocation awaits its query and then each add, and the next one  *)
(* does not wait for it: Handlers are the invocations that may overlap.    *)
(* The sequencer's worker has concurrency 1.  A crash is one of the whole  *)
(* program: the rows and the queue stay, everything else starts afresh.    *)
(***************************************************************************)
EXTENDS Naturals, Sequences, FiniteSets, RowOrder

CONSTANTS
    NumOfReqs,     \* logs in a block: numOfReqs, 10 in DefaultRollupConfig
    Handlers,      \* invocations of the cron job
    MaxTx,         \* bound: rows of TransactionInfo, txIds are 1 .. MaxTx
    MaxMishaps     \* bound: restarts, calls of seqQueue.add that fail and
                   \* requests that throw, in all

ASSUME SequencingAssumption ==
    /\ NumOfReqs \in Nat \ {0}
    /\ MaxTx \in Nat /\ MaxMishaps \in Nat

TxIds == 1 .. MaxTx

\* TxNoop: a log without a row.
Noop == 0

RowStatus == {"NONE", "INSERTING", "PENDING", "PROCESSING", "L2EXECUTED"}

\* Where a request throws: before it changes anything, or with the accounts, the
\* orders and the payload changed and no log written (getTxChunks and
\* getTsPubKey come last).
Faults == {"early", "late"}

\* BlockInformation, with what is in rawData.
BlockRows ==
    [blockStatus : {"PROCESSING", "L2EXECUTED"}, logs : Seq(TxIds \cup {Noop}),
     oriTxNum : Nat, rootFlow : Nat, payload : Nat, boot : Nat]

VARIABLES
    row,                 \* TransactionInfo: txId -> txStatus
    currentPendingTxId,  \* the dispatcher's cursor
    handler,             \* cron invocation -> [pc, found]
    seqQueue,            \* txIds of the waiting jobs
    job,                 \* [pc, txId]: the job in hand
    saving,              \* rows whose save as PROCESSING is under way
    rollup,              \* the sequencer's fields
    blocks,              \* BlockInformation, by blockNumber
    past                 \* what has happened, for the properties

Mishaps == past.crashes + past.throws + Cardinality(past.failedAdds)

vars == <<row, currentPendingTxId, handler, seqQueue, job, saving, rollup, blocks, past>>

NoInvocation == [pc |-> "idle", found |-> <<>>]
NoJob == [pc |-> "idle", txId |-> 0]

\* The sequencer's fields at start-up.
NewRollup ==
    [running |-> FALSE, newBlockNumber |-> 0, oriTxId |-> 0,
     currentTxLogs |-> <<>>, rootFlow |-> 0, payload |-> 0]

Init ==
    /\ row = [t \in TxIds |-> "NONE"]
    /\ currentPendingTxId = 0
    /\ handler = [h \in Handlers |-> NoInvocation]
    /\ seqQueue = <<>>
    /\ job = NoJob
    /\ saving = {}
    /\ rollup = NewRollup
    /\ blocks = <<>>
    /\ past = [crashes |-> 0, overlapped |-> FALSE, failedAdds |-> {}, overtaken |-> {},
               overwritten |-> {}, throws |-> 0, lateThrow |-> FALSE,
               executions |-> [t \in TxIds |-> 0]]

-----------------------------------------------------------------------------
(* Whoever inserts rows: the API and the operator.  An id is drawn when the *)
(* insert runs, the row is seen when its transaction commits.               *)

InsertRow ==
    \E t \in TxIds :
        /\ row[t] = "NONE" /\ \A u \in 1 .. t - 1 : row[u] # "NONE"
        /\ row' = [row EXCEPT ![t] = "INSERTING"]
        /\ UNCHANGED <<currentPendingTxId, handler, seqQueue, job, saving, rollup, blocks, past>>

CommitRow(t) ==
    /\ row[t] = "INSERTING"
    /\ row' = [row EXCEPT ![t] = "PENDING"]
    /\ UNCHANGED <<currentPendingTxId, handler, seqQueue, job, saving, rollup, blocks, past>>

-----------------------------------------------------------------------------
(* The dispatcher.                                                         *)

\* Fault: the bound of MoreThan counted twice.
PendingAfterNext(cursor) ==
    InOrder({t \in TxIds : t > cursor + 1 /\ row[t] = "PENDING"}, MaxTx)

\* The rows find() returns, in the order of their ids.
PendingAfter(cursor) ==
    InOrder({t \in TxIds : t > cursor /\ row[t] = "PENDING"}, MaxTx)

\* An invocation reads the cursor and queries; one that finds nothing does nothing.
FindPending(h) ==
    /\ handler[h].pc = "idle"
    /\ LET found == PendingAfter(currentPendingTxId)
       IN  /\ found # <<>>
           /\ handler' = [handler EXCEPT ![h] = [pc |-> "finding", found |-> found]]
           /\ past' = [past EXCEPT
                !.overlapped = @ \/ \E g \in Handlers : handler[g].pc = "finding",
                !.overtaken = @ \cup {t \in TxIds : /\ row[t] = "INSERTING"
                                                    /\ \E i \in DOMAIN found : found[i] > t}]
    /\ UNCHANGED <<row, currentPendingTxId, seqQueue, job, saving, rollup, blocks>>

\* Fault: the cursor moves to the first row found, or past the last.
CursorAfterFirst(found) == found[1]
CursorAfterPast(found) == IF found[Len(found)] = MaxTx THEN MaxTx ELSE found[Len(found)] + 1

\* The cursor after a query that found these rows.
CursorAfter(found) == found[Len(found)]

\* The query returns: the cursor moves to the last row found, before any is added.
MoveCursor(h) ==
    /\ handler[h].pc = "finding"
    /\ handler' = [handler EXCEPT ![h].pc = "adding"]
    /\ currentPendingTxId' = CursorAfter(handler[h].found)
    /\ UNCHANGED <<row, seqQueue, job, saving, rollup, blocks, past>>

\* One add, awaited; an error is logged and the loop goes on.
AddJob(h) ==
    /\ handler[h].pc = "adding"
    /\ LET rest == Tail(handler[h].found)
       IN  handler' = [handler EXCEPT ![h] =
                IF rest = <<>> THEN NoInvocation ELSE [pc |-> "adding", found |-> rest]]
    /\ \/ /\ seqQueue' = Append(seqQueue, Head(handler[h].found))
          /\ UNCHANGED past
       \/ /\ Mishaps < MaxMishaps
          /\ past' = [past EXCEPT !.failedAdds = @ \cup {Head(handler[h].found)}]
          /\ UNCHANGED seqQueue
    /\ UNCHANGED <<row, currentPendingTxId, job, saving, rollup, blocks>>

-----------------------------------------------------------------------------
(* The sequencer.                                                          *)

\* The fields and the block rows after doTransaction has seen to a running rollup.
\* startRollup does not await addFirstRootFlow: its root is counted here, though it
\* may be read after the request's first writes; of the roots only the number is
\* modelled.  Failures of the database, of the insert of the block among them, are
\* left out.
RollupStarted ==
    IF rollup.running THEN rollup
    ELSE [rollup EXCEPT !.running = TRUE, !.newBlockNumber = Len(blocks) + 1, !.rootFlow = @ + 1]

BlocksStarted ==
    IF rollup.running THEN blocks
    ELSE Append(blocks, [blockStatus |-> "PROCESSING", logs |-> <<>>, oriTxNum |-> 0,
                         rootFlow |-> 0, payload |-> 0, boot |-> past.crashes])

\* process up to doTransaction's switch.  The save of PROCESSING is not awaited.
TakeJob ==
    /\ job.pc = "idle"
    /\ seqQueue # <<>>
    /\ job' = [pc |-> "taken", txId |-> Head(seqQueue)]
    /\ seqQueue' = Tail(seqQueue)
    /\ saving' = saving \cup {Head(seqQueue)}
    /\ rollup' = RollupStarted
    /\ blocks' = BlocksStarted
    /\ UNCHANGED <<row, currentPendingTxId, handler, past>>

SavePROCESSING(t) ==
    /\ t \in saving
    /\ saving' = saving \ {t}
    /\ row' = [row EXCEPT ![t] = "PROCESSING"]
    /\ past' = [past EXCEPT !.overwritten = IF row[t] = "L2EXECUTED" THEN @ \cup {t} ELSE @]
    /\ UNCHANGED <<currentPendingTxId, handler, seqQueue, job, rollup, blocks>>

\* The request throws and the job fails; nothing takes back what it changed.
ThrowRequest ==
    /\ job.pc = "taken"
    /\ Mishaps < MaxMishaps
    /\ \E f \in Faults :
        /\ rollup' = [rollup EXCEPT !.payload = IF f = "late" THEN @ + 1 ELSE @]
        /\ past' = [past EXCEPT !.throws = @ + 1, !.lateThrow = @ \/ f = "late"]
    /\ job' = NoJob
    /\ UNCHANGED <<row, currentPendingTxId, handler, seqQueue, saving, blocks>>

\* doTransaction with a log: a payload entry, the log, then a root of each tree.
Logged(r, t) ==
    [r EXCEPT !.currentTxLogs = Append(@, t), !.payload = @ + 1, !.rootFlow = @ + 1]

\* Fault: the block is ended only when the log no longer fits.
IsNearlyFullLate(r) == NumOfReqs - Len(r.currentTxLogs) < 0

\* Blocks end while there is still room for two logs.
IsNearlyFull(r) == NumOfReqs - Len(r.currentTxLogs) < 3

\* Fault: one NOOP, however many logs are free.
PaddedOnce(r) ==
    [r EXCEPT !.currentTxLogs = Append(@, Noop), !.payload = @ + 1, !.rootFlow = @ + 1]

\* endRollup runs a NOOP for each free log.  Each NOOP is a doTransaction and so
\* calls endRollup itself: it is the innermost call, at NumOfReqs logs, that
\* writes the block and flushes.  The call around it then finds no logs and
\* throws, so that of several NOOPs of one call only the first is run.
Padded(r) ==
    LET noops == NumOfReqs - Len(r.currentTxLogs)
    IN  [r EXCEPT !.currentTxLogs = @ \o [i \in 1 .. noops |-> Noop],
                  !.payload = @ + noops, !.rootFlow = @ + noops]

\* Fault: oriTxId is moved on by the logs that are left.
FlushedBeforeCount(r) ==
    [r EXCEPT !.running = FALSE, !.currentTxLogs = <<>>, !.rootFlow = 0, !.payload = 0]

\* flushBlock, with oriTxId moved on and the status back to Idle.
Flushed(r) ==
    [r EXCEPT !.running = FALSE, !.oriTxId = @ + Len(r.currentTxLogs),
              !.currentTxLogs = <<>>, !.rootFlow = 0, !.payload = 0]

SavedBlock(r) ==
    [blockStatus |-> "L2EXECUTED", logs |-> r.currentTxLogs, oriTxNum |-> r.oriTxId,
     rootFlow |-> r.rootFlow, payload |-> r.payload, boot |-> past.crashes]

\* The request is logged, and the block ended if it is nearly full.  When NOOPs
\* were run the throw of the calls around the innermost reaches the job, which
\* fails with its request in the block.
LogRequest ==
    /\ job.pc = "taken"
    /\ past' = [past EXCEPT !.executions[job.txId] = @ + 1]
    /\ LET logged == Logged(rollup, job.txId)
           full == Padded(logged)
       IN  IF IsNearlyFull(logged)
             THEN /\ blocks' = [blocks EXCEPT ![rollup.newBlockNumber] = SavedBlock(full)]
                  /\ rollup' = Flushed(full)
                  /\ job' = IF full = logged THEN [job EXCEPT !.pc = "done"] ELSE NoJob
             ELSE /\ rollup' = logged
                  /\ job' = [job EXCEPT !.pc = "done"]
                  /\ UNCHANGED blocks
    /\ UNCHANGED <<row, currentPendingTxId, handler, seqQueue, saving>>

\* Fault: the job ends and its row is not marked.
MarkExecutedNothing ==
    /\ job.pc = "done"
    /\ job' = NoJob
    /\ UNCHANGED <<row, currentPendingTxId, handler, seqQueue, saving, rollup, blocks, past>>

\* The rest of process.
MarkExecuted ==
    /\ job.pc = "done"
    /\ row' = [row EXCEPT ![job.txId] = "L2EXECUTED"]
    /\ job' = NoJob
    /\ UNCHANGED <<currentPendingTxId, handler, seqQueue, saving, rollup, blocks, past>>

-----------------------------------------------------------------------------
\* A job that was in hand is found stalled and waits again, before the others.
Crash ==
    /\ Mishaps < MaxMishaps
    /\ past' = [past EXCEPT !.crashes = @ + 1]
    /\ currentPendingTxId' = 0
    /\ handler' = [h \in Handlers |-> NoInvocation]
    /\ seqQueue' = IF job.pc = "idle" THEN seqQueue ELSE <<job.txId>> \o seqQueue
    /\ job' = NoJob
    /\ saving' = {}
    /\ rollup' = NewRollup
    /\ UNCHANGED <<row, blocks>>

Dispatcher(h) == FindPending(h) \/ MoveCursor(h) \/ AddJob(h)

Sequencer == TakeJob \/ ThrowRequest \/ LogRequest \/ MarkExecuted

Next ==
    \/ InsertRow
    \/ \E t \in TxIds : CommitRow(t) \/ SavePROCESSING(t)
    \/ \E h \in Handlers : Dispatcher(h)
    \/ Sequencer
    \/ Crash

\* The cron job fires for ever and its awaits return; the worker takes what waits.
Fairness ==
    /\ \A h \in Handlers : WF_vars(Dispatcher(h))
    /\ WF_vars(Sequencer)
    /\ \A t \in TxIds : WF_vars(SavePROCESSING(t))

Spec == Init /\ [][Next]_vars /\ Fairness

-----------------------------------------------------------------------------
(* Properties.                                                             *)

\* Every variable keeps to its set of values, and between two jobs the logs in
\* hand leave room in the block, so that endRollup's padding never runs over it.
TypeOK ==
    /\ row \in [TxIds -> RowStatus]
    /\ currentPendingTxId \in 0 .. MaxTx
    /\ handler \in [Handlers -> [pc : {"idle", "finding", "adding"}, found : Seq(TxIds)]]
    /\ seqQueue \in Seq(TxIds)
    /\ job \in [pc : {"taken", "done"}, txId : TxIds] \cup {NoJob}
    /\ saving \subseteq TxIds
    /\ rollup.newBlockNumber \in 0 .. Len(blocks)
    /\ Len(rollup.currentTxLogs) < NumOfReqs
    /\ blocks \in Seq(BlockRows)

IsSaved(b) == blocks[b].blockStatus = "L2EXECUTED"

InBlock(b) == {blocks[b].logs[i] : i \in DOMAIN blocks[b].logs} \ {Noop}

InCurrentLogs == {rollup.currentTxLogs[i] : i \in DOMAIN rollup.currentTxLogs}

\* The padding recurses through doTransaction, flush and throw, and requests fail
\* in between: still every saved block holds exactly NumOfReqs logs, NOOPs only
\* at the end, a root of the trees before the first log and after each, and the
\* payload, which the circuit reads by the position of the log, stays aligned
\* with the logs unless a request threw with its payload written.
SavedBlocksFull ==
    \A b \in DOMAIN blocks : IsSaved(b) =>
        /\ Len(blocks[b].logs) = NumOfReqs
        /\ blocks[b].rootFlow = NumOfReqs + 1
        /\ past.lateThrow \/ blocks[b].payload = NumOfReqs
        /\ \A i, j \in 1 .. NumOfReqs :
               i < j /\ blocks[b].logs[i] = Noop => blocks[b].logs[j] = Noop

\* oriTxNum of a block is that of the one before plus its logs, as the circuit
\* requires of consecutive blocks, as long as the sequencer was not restarted
\* between them: oriTxId lives in memory and starts again at 0.
TxNumsChain ==
    \A a, b \in DOMAIN blocks :
        /\ a < b /\ IsSaved(a) /\ IsSaved(b) /\ blocks[a].boot = blocks[b].boot
        /\ \A c \in a + 1 .. b - 1 : ~IsSaved(c)
        => blocks[b].oriTxNum = blocks[a].oriTxNum + Len(blocks[a].logs)

\* process never looks at the status of the row it executes, so it is the
\* dispatcher that must not enqueue a row twice.  It does so only after a restart,
\* which sets the cursor back, or when two invocations' queries overlap.
ExecutedOnce ==
    \A t \in TxIds :
        past.executions[t] > 1 => past.crashes > 0 \/ past.overlapped

Waiting(t) ==
    \/ \E i \in DOMAIN seqQueue : seqQueue[i] = t
    \/ \E h \in Handlers : \E i \in DOMAIN handler[h].found : handler[h].found[i] = t
    \/ job.txId = t

\* A pending row the cursor has passed is on its way to the sequencer, or its add
\* failed, or its insert committed after a query that saw a later row.  Nothing
\* ever looks at such a row again before a restart.
StrandedOnlyIfLostOrLate ==
    \A t \in TxIds :
        row[t] = "PENDING" /\ t <= currentPendingTxId =>
            Waiting(t) \/ t \in saving \/ t \in past.failedAdds \/ t \in past.overtaken

\* Whether t is the last request of a saved block, before the padding.
ClosedBlock(t) ==
    \E b \in DOMAIN blocks : IsSaved(b) /\
        \E i \in DOMAIN blocks[b].logs :
            /\ blocks[b].logs[i] = t
            /\ \A j \in i + 1 .. Len(blocks[b].logs) : blocks[b].logs[j] = Noop

\* As long as the program is not restarted, the rows say what is in the blocks: a
\* row marked L2EXECUTED has its log in a saved block or among the current logs,
\* and a request in a saved block is marked, except the one whose execution ended
\* the block: its job fails in the padding and its row stays PROCESSING (or the
\* save of PROCESSING landed after the mark).
StatusMatchesBlocks ==
    past.crashes = 0 =>
        /\ \A t \in TxIds :
               row[t] = "L2EXECUTED" =>
                   t \in InCurrentLogs \/ \E b \in DOMAIN blocks : IsSaved(b) /\ t \in InBlock(b)
        /\ \A b \in DOMAIN blocks : \A t \in InBlock(b) :
               \/ row[t] = "L2EXECUTED" \/ ClosedBlock(t) \/ t \in past.overwritten
               \/ Waiting(t)

\* What the cron job and the worker owe a pending row ahead of the cursor: it is
\* taken up, unless its add fails or a query that does not see it moves the
\* cursor past it.
PendingIsTaken ==
    \A t \in TxIds :
        (row[t] = "PENDING" /\ t > currentPendingTxId) ~>
            (row[t] # "PENDING" \/ t \in past.failedAdds \/ t \in past.overtaken)

=============================================================================
