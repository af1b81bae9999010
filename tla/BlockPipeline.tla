--------------------------- MODULE BlockPipeline ---------------------------
(***************************************************************************)
(* What becomes of a block of the sequencer: the dispatcher                *)
(* (ts-core/src/producer.service.ts, dispatchPeningBlock and               *)
(* dispatchProvedBlock) queues it for the prover and then for the          *)
(* operator, the prover (prover.processor.ts) stores a proof and confirms  *)
(* it, the operator (operator.processor.ts) submits it to L1.              *)
(*                                                                         *)
(* Both workers take one job at a time and both pick the block they work   *)
(* on by its status, whatever block the job names.  The jobs survive a     *)
(* restart of the program, the dispatcher's cursors do not.                *)
(***************************************************************************)
EXTENDS Naturals, Sequences, FiniteSets, RowOrder

CONSTANTS
    ProverHandlers,    \* invocations of dispatchPeningBlock that may overlap
    OperatorHandlers,  \* invocations of dispatchProvedBlock that may overlap
    MaxBlocks,         \* bound: rows of BlockInformation
    MaxMishaps         \* bound: restarts, jobs that fail and adds that are lost

ASSUME BlockPipelineAssumption == MaxBlocks \in Nat /\ MaxMishaps \in Nat

Blocks == 1 .. MaxBlocks

\* NONE: no row.  L1CONFIRMED is in the enumeration and nothing sets it.
BlockStatus == {"NONE", "PROCESSING", "L2EXECUTED", "L2CONFIRMED"}

\* What the dispatcher looks for, for each of the two queues.
Queues == {"PROVER", "OPERATOR"}
Handlers(q) == IF q = "PROVER" THEN ProverHandlers ELSE OperatorHandlers
StatusFor(q) == IF q = "PROVER" THEN "L2EXECUTED" ELSE "L2CONFIRMED"

VARIABLES
    blockStatus,  \* block -> status
    proof,        \* block -> the block its proof proves, or 0
    cursor,       \* queue -> currentPendingBlock, currentProvedBlock
    found,        \* queue -> invocation -> the rows its query returned
    queue,        \* queue -> blockNumbers of the waiting jobs
    job,          \* queue -> [pc, blockNumber, current]
    past          \* what has happened, for the properties: the mishaps, the
                  \* blocks whose prover job was lost or failed, was added or
                  \* had more than once, and the last block submitted

vars == <<blockStatus, proof, cursor, found, queue, job, past>>

NoJob == [pc |-> "idle", blockNumber |-> 0, current |-> 0]
JobType == {NoJob} \cup
           [pc : {"working", "stored"}, blockNumber : Blocks, current : Blocks]

Init ==
    /\ blockStatus = [b \in Blocks |-> "NONE"]
    /\ proof = [b \in Blocks |-> 0]
    /\ cursor = [q \in Queues |-> 0]
    /\ found = [q \in Queues |-> [h \in Handlers(q) |-> <<>>]]
    /\ queue = [q \in Queues |-> <<>>]
    /\ job = [q \in Queues |-> NoJob]
    /\ past = [mishaps |-> 0, failed |-> {}, added |-> {}, repeated |-> {}, submitted |-> 0]

-----------------------------------------------------------------------------
(* The sequencer: startRollup inserts a row, endRollup saves it.  A row    *)
(* whose block was in hand at a restart stays PROCESSING.                  *)

InsertBlock(b) ==
    /\ blockStatus[b] = "NONE"
    /\ \A c \in 1 .. b - 1 : blockStatus[c] # "NONE"
    /\ blockStatus' = [blockStatus EXCEPT ![b] = "PROCESSING"]
    /\ UNCHANGED <<proof, cursor, found, queue, job, past>>

\* Only the latest row can be in hand.
ExecuteBlock(b) ==
    /\ blockStatus[b] = "PROCESSING"
    /\ \A c \in b + 1 .. MaxBlocks : blockStatus[c] = "NONE"
    /\ blockStatus' = [blockStatus EXCEPT ![b] = "L2EXECUTED"]
    /\ UNCHANGED <<proof, cursor, found, queue, job, past>>

-----------------------------------------------------------------------------
(* The dispatcher.                                                         *)

\* Fault: the cursor moves past the last row found.
CursorAfterPast(rows) == rows[Len(rows)] + 1
CursorAfter(rows) == rows[Len(rows)]

\* The rows find() returns, in the order of their numbers.
BlocksAfter(q) ==
    InOrder({b \in Blocks : b > cursor[q] /\ blockStatus[b] = StatusFor(q)}, MaxBlocks)

FindBlocks(q, h) ==
    /\ found[q][h] = <<>>
    /\ BlocksAfter(q) # <<>>
    /\ found' = [found EXCEPT ![q][h] = BlocksAfter(q)]
    /\ UNCHANGED <<blockStatus, proof, cursor, queue, job, past>>

SeqToSet(s) == {s[i] : i \in DOMAIN s}

\* What the prover's adds mean for the properties.
Added(q, blocks, lost) ==
    IF q = "PROVER"
    THEN [past EXCEPT !.mishaps = @ + Cardinality(lost),
                      !.failed = @ \cup lost,
                      !.added = @ \cup blocks,
                      !.repeated = @ \cup (blocks \cap past.added)]
    ELSE [past EXCEPT !.mishaps = @ + Cardinality(lost)]

\* The query returns: the cursor moves, and the jobs are added, none awaited.
\* An add that fails is not heard of.
DispatchBlocks(q, h) ==
    /\ found[q][h] # <<>>
    /\ cursor' = [cursor EXCEPT ![q] = CursorAfter(found[q][h])]
    /\ found' = [found EXCEPT ![q][h] = <<>>]
    /\ \E lost \in SUBSET SeqToSet(found[q][h]) :
        /\ past.mishaps + Cardinality(lost) <= MaxMishaps
        /\ queue' = [queue EXCEPT ![q] = @ \o InOrder(SeqToSet(found[q][h]) \ lost, MaxBlocks)]
        /\ past' = Added(q, SeqToSet(found[q][h]), lost)
    /\ UNCHANGED <<blockStatus, proof, job>>

-----------------------------------------------------------------------------
(* A worker takes a job and reads the block to work on.                    *)

WithStatus(status) == {b \in Blocks : blockStatus[b] = status}

\* Fault: the order of the query is DESC.
HighestOf(blocks) == CHOOSE b \in blocks : \A c \in blocks : c <= b
LowestOf(blocks) == CHOOSE b \in blocks : \A c \in blocks : b <= c

\* A job that finds no block is done.
TakeJob(q) ==
    LET ready == WithStatus(StatusFor(q))
    IN  /\ job[q] = NoJob
        /\ queue[q] # <<>>
        /\ queue' = [queue EXCEPT ![q] = Tail(@)]
        /\ job' = [job EXCEPT ![q] =
                IF ready = {} THEN NoJob
                ELSE [pc |-> "working", blockNumber |-> Head(queue[q]), current |-> LowestOf(ready)]]
        /\ UNCHANGED <<blockStatus, proof, cursor, found, past>>

\* The prover's job succeeds: the row of the job's block is updated ...
StoreProof ==
    LET j == job["PROVER"]
    IN  /\ j.pc = "working"
        /\ blockStatus' = [blockStatus EXCEPT ![j.blockNumber] = "L2CONFIRMED"]
        /\ proof' = [proof EXCEPT ![j.blockNumber] = j.current]
        /\ job' = [job EXCEPT !["PROVER"].pc = "stored"]
        /\ UNCHANGED <<cursor, found, queue, past>>

\* The operator commits and proves its block, or one of its two calls throws:
\* no status is changed either way ...
Submit ==
    /\ job["OPERATOR"].pc = "working"
    /\ past' = [past EXCEPT !.submitted = job["OPERATOR"].current]
    /\ job' = [job EXCEPT !["OPERATOR"].pc = "stored"]
    /\ UNCHANGED <<blockStatus, proof, cursor, found, queue>>

\* ... and the job leaves the queue.
CompleteJob(q) ==
    /\ job[q].pc = "stored"
    /\ job' = [job EXCEPT ![q] = NoJob]
    /\ UNCHANGED <<blockStatus, proof, cursor, found, queue, past>>

\* The prover throws: no attempts are configured, so the job has failed.
FailProof ==
    /\ job["PROVER"].pc = "working"
    /\ past.mishaps < MaxMishaps
    /\ past' = [past EXCEPT !.mishaps = @ + 1, !.failed = @ \cup {job["PROVER"].blockNumber}]
    /\ job' = [job EXCEPT !["PROVER"] = NoJob]
    /\ UNCHANGED <<blockStatus, proof, cursor, found, queue>>

-----------------------------------------------------------------------------
\* The memory is lost; the jobs in hand are found stalled and wait again,
\* before the others.
Restart ==
    /\ past.mishaps < MaxMishaps
    /\ cursor' = [q \in Queues |-> 0]
    /\ found' = [q \in Queues |-> [h \in Handlers(q) |-> <<>>]]
    /\ queue' = [q \in Queues |->
            IF job[q] = NoJob THEN queue[q] ELSE <<job[q].blockNumber>> \o queue[q]]
    /\ job' = [q \in Queues |-> NoJob]
    /\ past' = [past EXCEPT
            !.mishaps = @ + 1,
            !.repeated = @ \cup {b \in Blocks : job["PROVER"].pc = "stored" /\ b = job["PROVER"].blockNumber}]
    /\ UNCHANGED <<blockStatus, proof>>

Next ==
    \/ \E b \in Blocks : InsertBlock(b) \/ ExecuteBlock(b)
    \/ \E q \in Queues : \E h \in Handlers(q) : FindBlocks(q, h) \/ DispatchBlocks(q, h)
    \/ \E q \in Queues : TakeJob(q) \/ CompleteJob(q)
    \/ StoreProof
    \/ FailProof
    \/ Submit
    \/ Restart

\* The cron jobs fire for ever and their queries return; a worker takes what
\* waits and ends what it took.
Fairness ==
    /\ \A q \in Queues : \A h \in Handlers(q) : WF_vars(FindBlocks(q, h) \/ DispatchBlocks(q, h))
    /\ \A q \in Queues : WF_vars(TakeJob(q) \/ CompleteJob(q))
    /\ WF_vars(StoreProof \/ FailProof)
    /\ WF_vars(Submit)

Spec == Init /\ [][Next]_vars /\ Fairness

-----------------------------------------------------------------------------
\* Every variable keeps to its set of values: job numbers and cursors name
\* rows that exist, in the queues and in the workers.
TypeOK ==
    /\ blockStatus \in [Blocks -> BlockStatus]
    /\ proof \in [Blocks -> 0 .. MaxBlocks]
    /\ cursor \in [Queues -> 0 .. MaxBlocks]
    /\ \A q \in Queues : found[q] \in [Handlers(q) -> Seq(Blocks)]
    /\ queue \in [Queues -> Seq(Blocks)]
    /\ job \in [Queues -> JobType]
    /\ past \in [mishaps : 0 .. MaxMishaps, failed : SUBSET Blocks, added : SUBSET Blocks,
                 repeated : SUBSET Blocks, submitted : 0 .. MaxBlocks]

\* The prover proves the lowest executed block and updates the job's block.  As
\* long as no job was lost a block is never left with the proof of an earlier
\* one, and with that of a later one only when blocks had several jobs: over all
\* overlaps of cron invocations, workers and restarts.
ProofIsOfItsBlock ==
    past.failed = {} =>
        \A b \in Blocks : proof[b] # 0 =>
            /\ proof[b] >= b
            /\ past.repeated = {} => proof[b] = b

\* Every executed block is in the end confirmed, across overlapping cron
\* invocations, cursors that move back and restarts, unless a prover job
\* failed or its add was lost.
ExecutedIsConfirmed ==
    \A b \in Blocks :
        blockStatus[b] = "L2EXECUTED" ~> (blockStatus[b] = "L2CONFIRMED" \/ past.failed # {})

\* The operator never gets past the lowest confirmed block, whatever the jobs
\* name: a later submission is of the same block or of an earlier one that
\* was confirmed late, never of the next.
SubmissionsNeverAdvance ==
    [][past'.submitted # past.submitted =>
         past.submitted = 0 \/ past'.submitted < past.submitted]_vars
=============================================================================
