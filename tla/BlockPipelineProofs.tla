------------------------ MODULE BlockPipelineProofs ------------------------
(***************************************************************************)
(* Theorems about a block's way through the two queues, for any number of  *)
(* blocks, of overlapping cron invocations and of restarts, lost adds and  *)
(* failed proofs: which block a proof is of, and that the operator never   *)
(* gets past the lowest confirmed block.                                   *)
(***************************************************************************)
EXTENDS BlockPipeline, PrefixSumsProofs, FiniteSetTheorems

\* A query's rows are the rows with the status, in the order of their numbers.
LEMMA RowsOf ==
    ASSUME NEW S \in SUBSET Blocks
    PROVE  /\ InOrder(S, MaxBlocks) \in Seq(Blocks)
           /\ \A i \in DOMAIN InOrder(S, MaxBlocks) : InOrder(S, MaxBlocks)[i] \in S
           /\ \A x \in S : \E i \in DOMAIN InOrder(S, MaxBlocks) : InOrder(S, MaxBlocks)[i] = x
           /\ \A i, j \in DOMAIN InOrder(S, MaxBlocks) :
                  i < j => InOrder(S, MaxBlocks)[i] < InOrder(S, MaxBlocks)[j]
<1>1. MaxBlocks \in Nat
  BY BlockPipelineAssumption
<1>2. Lists(InOrder(S, MaxBlocks), S, MaxBlocks)
  BY <1>1, InOrderLists
<1>3. S \cap 1 .. MaxBlocks = S
  BY DEF Blocks
<1> DEFINE s == InOrder(S, MaxBlocks)
<1> HIDE DEF s
<1>4. s \in Seq(S) /\ Ascends(s) /\ \A x \in S : \E i \in DOMAIN s : s[i] = x
  BY <1>2, <1>3 DEF Lists, s
<1>5. s \in Seq(Blocks) /\ \A i \in DOMAIN s : s[i] \in S
  BY <1>4
<1>6. QED
  BY <1>4, <1>5 DEF s, Ascends

\* A worker's block: the lowest of those with the status it looks for.
LEMMA LowestIs ==
    ASSUME NEW S \in SUBSET Blocks, S # {}
    PROVE  LowestOf(S) \in S /\ \A c \in S : LowestOf(S) <= c
<1>1. S \in SUBSET Nat
  BY DEF Blocks
<1>2. \E b \in S : \A c \in S : b <= c
  BY <1>1, LeastNat
<1>3. QED
  BY <1>2 DEF LowestOf

\* What Added leaves of the past, for any rows and lost adds.
LEMMA AddedIs ==
    ASSUME TypeOK, NEW q \in Queues, NEW blocks \in SUBSET Blocks, NEW lost \in SUBSET blocks,
           past.mishaps + Cardinality(lost) <= MaxMishaps
    PROVE  /\ Added(q, blocks, lost).mishaps \in 0 .. MaxMishaps
           /\ Added(q, blocks, lost).submitted = past.submitted
           /\ Added(q, blocks, lost).failed = IF q = "PROVER" THEN past.failed \cup lost ELSE past.failed
           /\ Added(q, blocks, lost).added = IF q = "PROVER" THEN past.added \cup blocks ELSE past.added
           /\ Added(q, blocks, lost).repeated =
                  IF q = "PROVER" THEN past.repeated \cup (blocks \cap past.added) ELSE past.repeated
           /\ Added(q, blocks, lost) \in
                  [mishaps : 0 .. MaxMishaps, failed : SUBSET Blocks, added : SUBSET Blocks,
                   repeated : SUBSET Blocks, submitted : 0 .. MaxBlocks]
<1>1. IsFiniteSet(Blocks)
  BY BlockPipelineAssumption, FS_Interval DEF Blocks
<1>2. IsFiniteSet(lost)
  BY <1>1, FS_Subset
<1>3. Cardinality(lost) \in Nat
  BY <1>2, FS_CardinalityType
<1>4. past \in [mishaps : 0 .. MaxMishaps, failed : SUBSET Blocks, added : SUBSET Blocks,
                repeated : SUBSET Blocks, submitted : 0 .. MaxBlocks]
  BY DEF TypeOK
<1>5. past.mishaps + Cardinality(lost) \in 0 .. MaxMishaps
  BY <1>3, <1>4, BlockPipelineAssumption
<1>6. QED
  BY <1>4, <1>5 DEF Added

(***************************************************************************)
(* Types.                                                                  *)
(***************************************************************************)
TypeInv == TypeOK /\ DOMAIN found = Queues

\* At first no block is there.
LEMMA InitType == Init => TypeInv
<1> SUFFICES ASSUME Init PROVE TypeInv
  OBVIOUS
<1>1. \A q \in Queues : found[q] \in [Handlers(q) -> Seq(Blocks)]
  BY DEF Init
<1>2. QED
  BY <1>1, BlockPipelineAssumption DEF Init, TypeInv, TypeOK, BlockStatus, JobType, Blocks

\* The rows a query finds.
LEMMA FoundIs ==
    ASSUME TypeInv, NEW q \in Queues
    PROVE  /\ BlocksAfter(q) \in Seq(Blocks)
           /\ \A i \in DOMAIN BlocksAfter(q) :
                  blockStatus[BlocksAfter(q)[i]] = StatusFor(q) /\ BlocksAfter(q)[i] > cursor[q]
           /\ \A x \in Blocks : blockStatus[x] = StatusFor(q) /\ x > cursor[q] =>
                  \E i \in DOMAIN BlocksAfter(q) : BlocksAfter(q)[i] = x
<1> DEFINE S == {b \in Blocks : b > cursor[q] /\ blockStatus[b] = StatusFor(q)}
<1>1. S \in SUBSET Blocks
  OBVIOUS
<1> HIDE DEF S
<1>2. /\ InOrder(S, MaxBlocks) \in Seq(Blocks)
      /\ \A i \in DOMAIN InOrder(S, MaxBlocks) : InOrder(S, MaxBlocks)[i] \in S
      /\ \A x \in S : \E i \in DOMAIN InOrder(S, MaxBlocks) : InOrder(S, MaxBlocks)[i] = x
  BY <1>1, RowsOf
<1>3. BlocksAfter(q) = InOrder(S, MaxBlocks)
  BY DEF BlocksAfter, S
<1>4. QED
  BY <1>2, <1>3 DEF S

\* What stays to be added of the rows found.
LEMMA KeptIs ==
    ASSUME TypeInv, NEW q \in Queues, NEW h \in Handlers(q), NEW lost \in SUBSET SeqToSet(found[q][h])
    PROVE  /\ SeqToSet(found[q][h]) \in SUBSET Blocks
           /\ InOrder(SeqToSet(found[q][h]) \ lost, MaxBlocks) \in Seq(Blocks)
<1>1. found[q][h] \in Seq(Blocks)
  BY DEF TypeInv, TypeOK
<1>2. SeqToSet(found[q][h]) \in SUBSET Blocks
  BY <1>1 DEF SeqToSet
<1>3. SeqToSet(found[q][h]) \ lost \in SUBSET Blocks
  BY <1>2
<1>4. InOrder(SeqToSet(found[q][h]) \ lost, MaxBlocks) \in Seq(Blocks)
  BY <1>3, RowsOf
<1>5. QED
  BY <1>2, <1>4

\* Every step keeps the types.
LEMMA TypeStep == TypeInv /\ [Next]_vars => TypeInv'
<1> SUFFICES ASSUME TypeInv, [Next]_vars PROVE TypeInv'
  OBVIOUS
<1> USE BlockPipelineAssumption
<1>0. Queues = {"PROVER", "OPERATOR"}
  BY DEF Queues
<1>1. ASSUME NEW b \in Blocks, InsertBlock(b) PROVE TypeInv'
  BY <1>1 DEF InsertBlock, TypeInv, TypeOK, BlockStatus
<1>2. ASSUME NEW b \in Blocks, ExecuteBlock(b) PROVE TypeInv'
  BY <1>2 DEF ExecuteBlock, TypeInv, TypeOK, BlockStatus
<1>3. ASSUME NEW q \in Queues, NEW h \in Handlers(q), FindBlocks(q, h) PROVE TypeInv'
  <2>1. BlocksAfter(q) \in Seq(Blocks)
    BY FoundIs
  <2>2. found' = [found EXCEPT ![q][h] = BlocksAfter(q)] /\ DOMAIN found = Queues
    BY <1>3 DEF FindBlocks, TypeInv
  <2>3. \A q2 \in Queues : found'[q2] \in [Handlers(q2) -> Seq(Blocks)]
    BY <2>1, <2>2 DEF TypeInv, TypeOK
  <2>4. DOMAIN found' = Queues
    BY <2>2
  <2>5. QED
    BY <1>3, <2>3, <2>4 DEF FindBlocks, TypeInv, TypeOK
<1>4. ASSUME NEW q \in Queues, NEW h \in Handlers(q), DispatchBlocks(q, h) PROVE TypeInv'
  <2>1. found[q][h] \in Seq(Blocks) /\ found[q][h] # <<>>
    BY <1>4 DEF DispatchBlocks, TypeInv, TypeOK
  <2>2. CursorAfter(found[q][h]) \in 0 .. MaxBlocks
    <3>1. Len(found[q][h]) \in DOMAIN found[q][h]
      BY <2>1
    <3>2. QED
      BY <2>1, <3>1 DEF CursorAfter, Blocks
  <2>3. found' = [found EXCEPT ![q][h] = <<>>] /\ DOMAIN found = Queues
    BY <1>4 DEF DispatchBlocks, TypeInv
  <2>4. \A q2 \in Queues : found'[q2] \in [Handlers(q2) -> Seq(Blocks)]
    BY <2>3 DEF TypeInv, TypeOK
  <2>5. DOMAIN found' = Queues
    BY <2>3
  <2>6. cursor' \in [Queues -> 0 .. MaxBlocks]
    BY <1>4, <2>2 DEF DispatchBlocks, TypeInv, TypeOK
  <2>7. PICK lost \in SUBSET SeqToSet(found[q][h]) :
            /\ past.mishaps + Cardinality(lost) <= MaxMishaps
            /\ queue' = [queue EXCEPT ![q] = @ \o InOrder(SeqToSet(found[q][h]) \ lost, MaxBlocks)]
            /\ past' = Added(q, SeqToSet(found[q][h]), lost)
    BY <1>4 DEF DispatchBlocks
  <2>8. /\ SeqToSet(found[q][h]) \in SUBSET Blocks
        /\ InOrder(SeqToSet(found[q][h]) \ lost, MaxBlocks) \in Seq(Blocks)
    BY KeptIs
  <2>9. queue' \in [Queues -> Seq(Blocks)]
    BY <2>7, <2>8 DEF TypeInv, TypeOK
  <2>10. past' \in [mishaps : 0 .. MaxMishaps, failed : SUBSET Blocks, added : SUBSET Blocks,
                    repeated : SUBSET Blocks, submitted : 0 .. MaxBlocks]
    BY <2>7, <2>8, AddedIs DEF TypeInv
  <2>11. QED
    BY <1>4, <2>4, <2>5, <2>6, <2>9, <2>10 DEF DispatchBlocks, TypeInv, TypeOK
<1>5. ASSUME NEW q \in Queues, TakeJob(q) PROVE TypeInv'
  <2>1. queue[q] \in Seq(Blocks) /\ queue[q] # <<>>
    BY <1>5 DEF TakeJob, TypeInv, TypeOK
  <2>2. Head(queue[q]) \in Blocks /\ Tail(queue[q]) \in Seq(Blocks)
    BY <2>1
  <2>3. queue' = [queue EXCEPT ![q] = Tail(@)]
    BY <1>5 DEF TakeJob
  <2>4. queue' \in [Queues -> Seq(Blocks)]
    BY <2>2, <2>3 DEF TypeInv, TypeOK
  <2>5. job' \in [Queues -> JobType]
    <3> DEFINE ready == WithStatus(StatusFor(q))
    <3>1. ready \in SUBSET Blocks
      BY DEF WithStatus
    <3>2. job \in [Queues -> JobType]
      BY DEF TypeInv, TypeOK
    <3>3. CASE ready = {}
      <4>1. job' = [job EXCEPT ![q] = NoJob]
        BY <1>5, <3>3 DEF TakeJob
      <4>2. QED
        BY <3>2, <4>1 DEF JobType
    <3>4. CASE ready # {}
      <4>1. LowestOf(ready) \in Blocks
        BY <3>1, <3>4, LowestIs
      <4>2. job' = [job EXCEPT ![q] =
               [pc |-> "working", blockNumber |-> Head(queue[q]), current |-> LowestOf(ready)]]
        BY <1>5, <3>4 DEF TakeJob
      <4>3. QED
        BY <2>2, <3>2, <4>1, <4>2 DEF JobType
    <3>5. QED
      BY <3>3, <3>4
  <2>6. QED
    BY <1>5, <2>4, <2>5 DEF TakeJob, TypeInv, TypeOK
<1>6. ASSUME NEW q \in Queues, CompleteJob(q) PROVE TypeInv'
  BY <1>6 DEF CompleteJob, TypeInv, TypeOK, JobType
<1>7. CASE StoreProof
  <2>1. "PROVER" \in Queues /\ job["PROVER"] \in JobType /\ job["PROVER"].pc = "working"
    BY <1>0, <1>7 DEF StoreProof, TypeInv, TypeOK
  <2>2. job["PROVER"].blockNumber \in Blocks /\ job["PROVER"].current \in Blocks
        /\ [job["PROVER"] EXCEPT !.pc = "stored"] \in JobType
    BY <2>1 DEF JobType, NoJob
  <2>3. job' = [job EXCEPT !["PROVER"] = [job["PROVER"] EXCEPT !.pc = "stored"]]
    BY <1>7 DEF StoreProof
  <2>4. job' \in [Queues -> JobType]
    BY <2>1, <2>2, <2>3 DEF TypeInv, TypeOK
  <2>5. proof' \in [Blocks -> 0 .. MaxBlocks] /\ blockStatus' \in [Blocks -> BlockStatus]
    BY <1>7, <2>2 DEF StoreProof, TypeInv, TypeOK, BlockStatus, Blocks
  <2>6. QED
    BY <1>7, <2>4, <2>5 DEF StoreProof, TypeInv, TypeOK
<1>8. CASE FailProof
  <2>1. "PROVER" \in Queues /\ job["PROVER"] \in JobType /\ job["PROVER"].pc = "working"
    BY <1>0, <1>8 DEF FailProof, TypeInv, TypeOK
  <2>2. job["PROVER"].blockNumber \in Blocks
    BY <2>1 DEF JobType, NoJob
  <2>3. past.mishaps + 1 \in 0 .. MaxMishaps
    BY <1>8 DEF FailProof, TypeInv, TypeOK
  <2>4. past' \in [mishaps : 0 .. MaxMishaps, failed : SUBSET Blocks, added : SUBSET Blocks,
                   repeated : SUBSET Blocks, submitted : 0 .. MaxBlocks]
    BY <1>8, <2>2, <2>3 DEF FailProof, TypeInv, TypeOK
  <2>5. job' \in [Queues -> JobType]
    BY <1>8 DEF FailProof, TypeInv, TypeOK, JobType
  <2>6. QED
    BY <1>8, <2>4, <2>5 DEF FailProof, TypeInv, TypeOK
<1>9. CASE Submit
  <2>1. "OPERATOR" \in Queues /\ job["OPERATOR"] \in JobType /\ job["OPERATOR"].pc = "working"
    BY <1>0, <1>9 DEF Submit, TypeInv, TypeOK
  <2>2. job["OPERATOR"].current \in Blocks
        /\ [job["OPERATOR"] EXCEPT !.pc = "stored"] \in JobType
    BY <2>1 DEF JobType, NoJob
  <2>3. job' = [job EXCEPT !["OPERATOR"] = [job["OPERATOR"] EXCEPT !.pc = "stored"]]
    BY <1>9 DEF Submit
  <2>4. job' \in [Queues -> JobType]
    BY <2>1, <2>2, <2>3 DEF TypeInv, TypeOK
  <2>5. past' \in [mishaps : 0 .. MaxMishaps, failed : SUBSET Blocks, added : SUBSET Blocks,
                   repeated : SUBSET Blocks, submitted : 0 .. MaxBlocks]
    <3>1. job["OPERATOR"].current \in 0 .. MaxBlocks
      BY <2>2 DEF Blocks
    <3>2. QED
      BY <1>9, <3>1 DEF Submit, TypeInv, TypeOK
  <2>6. QED
    BY <1>9, <2>4, <2>5 DEF Submit, TypeInv, TypeOK
<1>10. CASE Restart
  <2>1. \A q \in Queues : job[q] # NoJob => job[q].blockNumber \in Blocks
    BY DEF TypeInv, TypeOK, JobType
  <2>2. queue' \in [Queues -> Seq(Blocks)]
    <3> SUFFICES ASSUME NEW q \in Queues
                 PROVE  (IF job[q] = NoJob THEN queue[q] ELSE <<job[q].blockNumber>> \o queue[q]) \in Seq(Blocks)
      BY <1>10 DEF Restart
    <3>1. queue[q] \in Seq(Blocks)
      BY DEF TypeInv, TypeOK
    <3>2. QED
      BY <2>1, <3>1
  <2>3. job' \in [Queues -> JobType] /\ cursor' \in [Queues -> 0 .. MaxBlocks]
    BY <1>10 DEF Restart, JobType
  <2>4. found' = [q \in Queues |-> [h \in Handlers(q) |-> <<>>]]
    BY <1>10 DEF Restart
  <2>5. \A q \in Queues : found'[q] \in [Handlers(q) -> Seq(Blocks)]
    BY <2>4
  <2>6. past.mishaps + 1 \in 0 .. MaxMishaps
    BY <1>10 DEF Restart, TypeInv, TypeOK
  <2>7. past' \in [mishaps : 0 .. MaxMishaps, failed : SUBSET Blocks, added : SUBSET Blocks,
                   repeated : SUBSET Blocks, submitted : 0 .. MaxBlocks]
    BY <1>10, <2>6 DEF Restart, TypeInv, TypeOK
  <2>8. QED
    BY <1>10, <2>2, <2>3, <2>4, <2>5, <2>7 DEF Restart, TypeInv, TypeOK
<1>11. CASE UNCHANGED vars
  BY <1>11 DEF vars, TypeInv, TypeOK
<1>12. QED
  BY <1>1, <1>2, <1>3, <1>4, <1>5, <1>6, <1>7, <1>8, <1>9, <1>10, <1>11 DEF Next

\* Job numbers, cursors and workers name rows that exist, for any number of
\* blocks, invocations and mishaps.
THEOREM TypeCorrect == Spec => []TypeOK
<1>1. TypeInv => TypeOK
  BY DEF TypeInv
<1>2. QED
  BY <1>1, InitType, TypeStep, PTL DEF Spec

(***************************************************************************)
(* The operator: the block in its hands is confirmed and not later than    *)
(* the last block submitted.                                               *)
(***************************************************************************)
OperatorInv ==
    /\ past.submitted # 0 => blockStatus[past.submitted] = "L2CONFIRMED"
    /\ job["OPERATOR"].pc = "working" =>
           /\ blockStatus[job["OPERATOR"].current] = "L2CONFIRMED"
           /\ past.submitted # 0 => job["OPERATOR"].current <= past.submitted

\* Nothing takes a block's confirmation back.
LEMMA ConfirmedStays ==
    ASSUME TypeInv, [Next]_vars, NEW b \in Blocks, blockStatus[b] = "L2CONFIRMED"
    PROVE  blockStatus'[b] = "L2CONFIRMED"
<1>1. ASSUME NEW c \in Blocks, InsertBlock(c) \/ ExecuteBlock(c) PROVE blockStatus'[b] = "L2CONFIRMED"
  BY <1>1 DEF InsertBlock, ExecuteBlock, TypeInv, TypeOK
<1>2. CASE StoreProof
  BY <1>2 DEF StoreProof, TypeInv, TypeOK
<1>3. ASSUME blockStatus' = blockStatus PROVE blockStatus'[b] = "L2CONFIRMED"
  BY <1>3
<1>4. QED
  BY <1>1, <1>2, <1>3
     DEF Next, FindBlocks, DispatchBlocks, TakeJob, CompleteJob, FailProof, Submit, Restart, vars

\* The operator takes the lowest confirmed block: a step changes its job or the
\* block last submitted in one of four ways.
LEMMA OperatorSteps ==
    ASSUME TypeInv, [Next]_vars
    PROVE  \/ job'["OPERATOR"] = NoJob /\ past'.submitted = past.submitted
           \/ job'["OPERATOR"] = job["OPERATOR"] /\ past'.submitted = past.submitted
           \/ /\ past'.submitted = past.submitted /\ job'["OPERATOR"].pc = "working"
              /\ job'["OPERATOR"].current \in WithStatus("L2CONFIRMED")
              /\ \A c \in WithStatus("L2CONFIRMED") : job'["OPERATOR"].current <= c
           \/ /\ job["OPERATOR"].pc = "working" /\ job'["OPERATOR"].pc = "stored"
              /\ past'.submitted = job["OPERATOR"].current
<1> DEFINE Goal == \/ job'["OPERATOR"] = NoJob /\ past'.submitted = past.submitted
                   \/ job'["OPERATOR"] = job["OPERATOR"] /\ past'.submitted = past.submitted
                   \/ /\ past'.submitted = past.submitted /\ job'["OPERATOR"].pc = "working"
                      /\ job'["OPERATOR"].current \in WithStatus("L2CONFIRMED")
                      /\ \A c \in WithStatus("L2CONFIRMED") : job'["OPERATOR"].current <= c
                   \/ /\ job["OPERATOR"].pc = "working" /\ job'["OPERATOR"].pc = "stored"
                      /\ past'.submitted = job["OPERATOR"].current
<1>0. job \in [Queues -> JobType] /\ "OPERATOR" \in Queues /\ "PROVER" \in Queues
      /\ past \in [mishaps : 0 .. MaxMishaps, failed : SUBSET Blocks, added : SUBSET Blocks,
                   repeated : SUBSET Blocks, submitted : 0 .. MaxBlocks]
  BY DEF TypeInv, TypeOK, Queues
<1>1. ASSUME NEW q \in Queues, NEW h \in Handlers(q), DispatchBlocks(q, h) PROVE Goal
  <2>1. PICK lost \in SUBSET SeqToSet(found[q][h]) :
            /\ past.mishaps + Cardinality(lost) <= MaxMishaps
            /\ past' = Added(q, SeqToSet(found[q][h]), lost)
    BY <1>1 DEF DispatchBlocks
  <2>2. past'.submitted = past.submitted
    BY <1>0, <2>1 DEF Added
  <2>3. QED
    BY <1>1, <2>2 DEF DispatchBlocks
<1>2. ASSUME NEW q \in Queues, TakeJob(q) PROVE Goal
  <2>1. CASE q = "PROVER"
    BY <1>0, <1>2, <2>1 DEF TakeJob
  <2>2. CASE q = "OPERATOR"
    <3> DEFINE ready == WithStatus("L2CONFIRMED")
    <3>1. ready \in SUBSET Blocks /\ StatusFor(q) = "L2CONFIRMED"
      BY <2>2 DEF WithStatus, StatusFor
    <3>2. CASE ready = {}
      BY <1>0, <1>2, <2>2, <3>1, <3>2 DEF TakeJob
    <3>3. CASE ready # {}
      <4>1. LowestOf(ready) \in ready /\ \A c \in ready : LowestOf(ready) <= c
        BY <3>1, <3>3, LowestIs
      <4>2. job' = [job EXCEPT !["OPERATOR"] =
               [pc |-> "working", blockNumber |-> Head(queue[q]), current |-> LowestOf(ready)]]
            /\ past' = past
        BY <1>2, <2>2, <3>1, <3>3 DEF TakeJob
      <4>3. job'["OPERATOR"].pc = "working" /\ job'["OPERATOR"].current = LowestOf(ready)
        BY <1>0, <4>2
      <4>4. QED
        BY <4>1, <4>2, <4>3
    <3>4. QED
      BY <3>2, <3>3
  <2>3. QED
    BY <2>1, <2>2 DEF Queues
<1>3. ASSUME NEW q \in Queues, CompleteJob(q) PROVE Goal
  BY <1>0, <1>3 DEF CompleteJob
<1>4. CASE StoreProof
  BY <1>0, <1>4 DEF StoreProof
<1>5. CASE FailProof
  BY <1>0, <1>5 DEF FailProof
<1>6. CASE Submit
  <2>1. job["OPERATOR"] \in JobType
    BY <1>0
  <2>2. job'["OPERATOR"].pc = "stored"
    BY <1>0, <1>6, <2>1 DEF Submit, JobType, NoJob
  <2>3. past'.submitted = job["OPERATOR"].current /\ job["OPERATOR"].pc = "working"
    BY <1>0, <1>6 DEF Submit
  <2>4. QED
    BY <2>2, <2>3
<1>7. CASE Restart
  BY <1>0, <1>7 DEF Restart
<1>8. QED
  BY <1>1, <1>2, <1>3, <1>4, <1>5, <1>6, <1>7 DEF Next, InsertBlock, ExecuteBlock, FindBlocks, vars

\* Every step keeps OperatorInv: what is confirmed stays so.
LEMMA OperatorStep == TypeInv /\ OperatorInv /\ [Next]_vars => OperatorInv'
<1> SUFFICES ASSUME TypeInv, OperatorInv, [Next]_vars PROVE OperatorInv'
  OBVIOUS
<1>1. \A b \in Blocks : blockStatus[b] = "L2CONFIRMED" => blockStatus'[b] = "L2CONFIRMED"
  BY ConfirmedStays
<1>2. past.submitted # 0 => past.submitted \in Blocks
  BY BlockPipelineAssumption DEF TypeInv, TypeOK, Blocks
<1>3. job["OPERATOR"].pc = "working" => job["OPERATOR"].current \in Blocks
  BY DEF TypeInv, TypeOK, JobType, NoJob, Queues
<1>4. CASE job'["OPERATOR"] = NoJob /\ past'.submitted = past.submitted
  BY <1>1, <1>2, <1>4 DEF OperatorInv, NoJob
<1>5. CASE job'["OPERATOR"] = job["OPERATOR"] /\ past'.submitted = past.submitted
  BY <1>1, <1>2, <1>3, <1>5 DEF OperatorInv
<1>6. CASE /\ past'.submitted = past.submitted /\ job'["OPERATOR"].pc = "working"
           /\ job'["OPERATOR"].current \in WithStatus("L2CONFIRMED")
           /\ \A c \in WithStatus("L2CONFIRMED") : job'["OPERATOR"].current <= c
  <2>1. past.submitted # 0 => past.submitted \in WithStatus("L2CONFIRMED")
    BY <1>2 DEF OperatorInv, WithStatus
  <2>2. blockStatus'[job'["OPERATOR"].current] = "L2CONFIRMED"
    BY <1>1, <1>6 DEF WithStatus
  <2>3. QED
    BY <1>1, <1>2, <1>6, <2>1, <2>2 DEF OperatorInv
<1>7. CASE /\ job["OPERATOR"].pc = "working" /\ job'["OPERATOR"].pc = "stored"
           /\ past'.submitted = job["OPERATOR"].current
  BY <1>1, <1>3, <1>7 DEF OperatorInv
<1>8. QED
  BY <1>4, <1>5, <1>6, <1>7, OperatorSteps

\* The operator never gets past the lowest confirmed block, whatever jobs wait
\* and however often it is restarted: submit() picks by status, and nothing ever
\* leaves L2CONFIRMED.
THEOREM SubmissionsCorrect == Spec => SubmissionsNeverAdvance
<1>1. Init => OperatorInv
  BY DEF Init, OperatorInv, NoJob, Queues
<1>2. TypeInv /\ OperatorInv /\ [Next]_vars =>
          (past'.submitted # past.submitted =>
             past.submitted = 0 \/ past'.submitted < past.submitted)
  <2> SUFFICES ASSUME TypeInv, OperatorInv, [Next]_vars, past'.submitted # past.submitted,
                      past.submitted # 0
               PROVE  past'.submitted < past.submitted
    OBVIOUS
  <2>1. job["OPERATOR"].pc = "working" /\ past'.submitted = job["OPERATOR"].current
    BY OperatorSteps
  <2>2. job["OPERATOR"].current \in Blocks /\ past.submitted \in 0 .. MaxBlocks
    BY <2>1 DEF TypeInv, TypeOK, JobType, NoJob, Queues
  <2>3. job["OPERATOR"].current <= past.submitted
    BY <2>1 DEF OperatorInv
  <2>4. QED
    BY <2>1, <2>2, <2>3, BlockPipelineAssumption DEF Blocks
<1>3. QED
  BY <1>1, <1>2, InitType, TypeStep, OperatorStep, PTL DEF Spec, SubmissionsNeverAdvance

(***************************************************************************)
(* The prover.  A job is only a turn: the block proved is the lowest one   *)
(* executed, the row updated the one the job names.  What keeps the two    *)
(* together is that jobs wait in the order of their blocks: an executed    *)
(* block below the block of a job has a job before it.                     *)
(***************************************************************************)
Settled == {"L2EXECUTED", "L2CONFIRMED"}
Executed(x) == blockStatus[x] = "L2EXECUTED"

\* The job in hand names this block.
InHand(x) == job["PROVER"] # NoJob /\ job["PROVER"].blockNumber = x

\* Cursor, queries and jobs name rows the sequencer has saved.
RowsInv ==
    /\ cursor["PROVER"] # 0 => blockStatus[cursor["PROVER"]] \in Settled
    /\ \A h \in ProverHandlers : \A i \in DOMAIN found["PROVER"][h] :
           /\ blockStatus[found["PROVER"][h][i]] \in Settled
           /\ Executed(found["PROVER"][h][i]) \/ found["PROVER"][h][i] \in past.added
    /\ \A b \in past.added : blockStatus[b] \in Settled
    /\ \A i \in DOMAIN queue["PROVER"] : queue["PROVER"][i] \in past.added
    /\ job["PROVER"] # NoJob => job["PROVER"].blockNumber \in past.added
    /\ job["PROVER"].pc = "stored" => blockStatus[job["PROVER"].blockNumber] = "L2CONFIRMED"

\* As long as no job was lost: what was executed and lies behind a query's last
\* row had its job, and a job's turn never comes before that of a lower block.
InTurn ==
    /\ \A x \in Blocks : Executed(x) /\ x <= cursor["PROVER"] => x \in past.added
    /\ \A h \in ProverHandlers : \A i \in DOMAIN found["PROVER"][h] : \A x \in Blocks :
           Executed(x) /\ x < found["PROVER"][h][i] =>
              x \in past.added \/ x \in SeqToSet(found["PROVER"][h])
    /\ \A x \in past.added : Executed(x) =>
           InHand(x) \/ \E i \in DOMAIN queue["PROVER"] : queue["PROVER"][i] = x
    /\ job["PROVER"] # NoJob => \A x \in Blocks : Executed(x) => x >= job["PROVER"].blockNumber
    /\ \A i \in DOMAIN queue["PROVER"] : \A x \in Blocks :
           Executed(x) /\ x < queue["PROVER"][i] =>
              InHand(x) \/ \E k \in 1 .. i - 1 : queue["PROVER"][k] = x
    /\ job["PROVER"].pc = "working" => job["PROVER"].current >= job["PROVER"].blockNumber
    /\ \A b \in Blocks : proof[b] # 0 => proof[b] >= b

\* If moreover no block had two jobs, every job's block is still to be proved.
OneJobEach ==
    /\ \A i, k \in DOMAIN queue["PROVER"] : queue["PROVER"][i] = queue["PROVER"][k] => i = k
    /\ \A i \in DOMAIN queue["PROVER"] : Executed(queue["PROVER"][i]) /\ ~InHand(queue["PROVER"][i])
    /\ job["PROVER"].pc = "working" =>
           /\ Executed(job["PROVER"].blockNumber)
           /\ job["PROVER"].current = job["PROVER"].blockNumber
    /\ \A b \in Blocks : proof[b] # 0 => proof[b] = b

ProverInv ==
    /\ RowsInv
    /\ past.failed = {} => InTurn
    /\ past.failed = {} /\ past.repeated = {} => OneJobEach

\* What ProverInv speaks of.
ProverView ==
    <<blockStatus, proof, cursor["PROVER"], found["PROVER"], queue["PROVER"], job["PROVER"],
      past.failed, past.added, past.repeated>>

\* The types of what ProverInv speaks of.
LEMMA ViewTypes ==
    ASSUME TypeInv
    PROVE  /\ "PROVER" \in Queues /\ "OPERATOR" \in Queues /\ Queues = {"PROVER", "OPERATOR"}
           /\ blockStatus \in [Blocks -> BlockStatus]
           /\ proof \in [Blocks -> 0 .. MaxBlocks]
           /\ cursor["PROVER"] \in 0 .. MaxBlocks
           /\ found["PROVER"] \in [ProverHandlers -> Seq(Blocks)]
           /\ queue["PROVER"] \in Seq(Blocks)
           /\ job["PROVER"] \in JobType
           /\ job["PROVER"] = NoJob => job["PROVER"].pc = "idle"
           /\ job["PROVER"] # NoJob =>
                  /\ job["PROVER"].pc \in {"working", "stored"}
                  /\ job["PROVER"].blockNumber \in Blocks /\ job["PROVER"].current \in Blocks
           /\ past.failed \in SUBSET Blocks /\ past.added \in SUBSET Blocks
           /\ past.repeated \in SUBSET Blocks
           /\ MaxBlocks \in Nat
<1>1. Handlers("PROVER") = ProverHandlers /\ Queues = {"PROVER", "OPERATOR"}
  BY DEF Handlers, Queues
<1>2. /\ job["PROVER"] \in JobType
      /\ past \in [mishaps : 0 .. MaxMishaps, failed : SUBSET Blocks, added : SUBSET Blocks,
                   repeated : SUBSET Blocks, submitted : 0 .. MaxBlocks]
  BY <1>1 DEF TypeInv, TypeOK
<1>3. /\ job["PROVER"] = NoJob => job["PROVER"].pc = "idle"
      /\ job["PROVER"] # NoJob =>
                  /\ job["PROVER"].pc \in {"working", "stored"}
                  /\ job["PROVER"].blockNumber \in Blocks /\ job["PROVER"].current \in Blocks
  BY <1>2 DEF JobType, NoJob
<1>4. QED
  BY <1>1, <1>2, <1>3, BlockPipelineAssumption DEF TypeInv, TypeOK

\* A step of the operator's side changes nothing ProverInv speaks of.
LEMMA ViewStutters ==
    ASSUME ProverInv, ProverView' = ProverView
    PROVE  ProverInv'
<1>1. /\ blockStatus' = blockStatus /\ proof' = proof /\ cursor'["PROVER"] = cursor["PROVER"]
      /\ found'["PROVER"] = found["PROVER"] /\ queue'["PROVER"] = queue["PROVER"]
      /\ job'["PROVER"] = job["PROVER"] /\ past'.failed = past.failed
      /\ past'.added = past.added /\ past'.repeated = past.repeated
  BY DEF ProverView
<1>2. RowsInv' = RowsInv
  BY <1>1 DEF RowsInv, Executed
<1>3. InTurn' = InTurn
  BY <1>1 DEF InTurn, Executed, InHand
<1>4. OneJobEach' = OneJobEach
  BY <1>1 DEF OneJobEach, Executed, InHand
<1>5. QED
  BY <1>1, <1>2, <1>3, <1>4 DEF ProverInv

\* A row is inserted, or the block in hand is executed: it is above every row
\* that a cursor, a query or a job names.
LEMMA SequencerKeeps ==
    ASSUME TypeInv, ProverInv, NEW b \in Blocks, InsertBlock(b) \/ ExecuteBlock(b)
    PROVE  ProverInv'
<1>1. /\ proof' = proof /\ cursor' = cursor /\ found' = found /\ queue' = queue
      /\ job' = job /\ past' = past
  BY DEF InsertBlock, ExecuteBlock
<1>2. \A x \in Blocks : blockStatus[x] \in Settled => blockStatus'[x] = blockStatus[x]
  BY ViewTypes DEF InsertBlock, ExecuteBlock, Settled
<1>3. \A x, y \in Blocks : Executed(x)' /\ blockStatus[y] \in Settled /\ x <= y => Executed(x)
  <2> SUFFICES ASSUME NEW x \in Blocks, NEW y \in Blocks, Executed(x)', blockStatus[y] \in Settled, x <= y
               PROVE  Executed(x)
    OBVIOUS
  <2>1. CASE InsertBlock(b)
    BY <2>1, ViewTypes DEF InsertBlock, Executed
  <2>2. CASE ExecuteBlock(b)
    <3>1. CASE x # b
      BY <2>2, <3>1, ViewTypes DEF ExecuteBlock, Executed
    <3>2. CASE x = b
      <4>1. y # b
        BY <2>2 DEF ExecuteBlock, Settled
      <4>2. y \in b + 1 .. MaxBlocks
        BY <3>2, <4>1, ViewTypes DEF Blocks
      <4>3. QED
        BY <2>2, <4>2 DEF ExecuteBlock, Settled
    <3>3. QED
      BY <3>1, <3>2
  <2>3. QED
    BY <2>1, <2>2
<1>4. \A x, y \in Blocks : Executed(x)' /\ blockStatus[y] \in Settled /\ x < y => Executed(x)
  BY <1>3 DEF Blocks
<1>5. \A x \in Blocks : blockStatus[x] \in Settled => (Executed(x)' <=> Executed(x))
  BY <1>2 DEF Executed
<1>6. /\ \A h \in ProverHandlers : \A i \in DOMAIN found["PROVER"][h] : found["PROVER"][h][i] \in Blocks
      /\ \A i \in DOMAIN queue["PROVER"] : queue["PROVER"][i] \in Blocks
  BY ViewTypes
<1>7. RowsInv'
  <2>1. cursor["PROVER"] # 0 => cursor["PROVER"] \in Blocks
    BY ViewTypes DEF Blocks
  <2>2. job["PROVER"].pc = "stored" => job["PROVER"].blockNumber \in Blocks
    BY ViewTypes
  <2>3. "L2CONFIRMED" \in Settled
    BY DEF Settled
  <2>4. past.added \subseteq Blocks
    BY ViewTypes
  <2>5. cursor'["PROVER"] # 0 => blockStatus'[cursor'["PROVER"]] \in Settled
    BY <1>1, <1>2, <2>1 DEF ProverInv, RowsInv
  <2>6. \A h \in ProverHandlers : \A i \in DOMAIN found'["PROVER"][h] :
           /\ blockStatus'[found'["PROVER"][h][i]] \in Settled
           /\ Executed(found["PROVER"][h][i])' \/ found'["PROVER"][h][i] \in past'.added
    BY <1>1, <1>2, <1>5, <1>6 DEF ProverInv, RowsInv
  <2>7. \A c \in past'.added : blockStatus'[c] \in Settled
    BY <1>1, <1>2, <2>4 DEF ProverInv, RowsInv
  <2>8. QED
    BY <1>1, <1>2, <2>2, <2>3, <2>5, <2>6, <2>7 DEF ProverInv, RowsInv, Executed
<1>8. InTurn => InTurn'
  <2> SUFFICES ASSUME InTurn PROVE InTurn'
    OBVIOUS
  <2>1. \A x \in Blocks : Executed(x)' /\ x <= cursor["PROVER"] => x \in past.added
    <3>1. \A x \in Blocks : x <= cursor["PROVER"] => cursor["PROVER"] \in Blocks
      BY ViewTypes DEF Blocks
    <3>2. \A x \in Blocks : x <= cursor["PROVER"] => blockStatus[cursor["PROVER"]] \in Settled
      BY ViewTypes DEF Blocks, ProverInv, RowsInv
    <3>3. QED
      BY <1>3, <3>1, <3>2 DEF InTurn
  <2>2. \A h \in ProverHandlers : \A i \in DOMAIN found["PROVER"][h] : \A x \in Blocks :
           Executed(x)' /\ x < found["PROVER"][h][i] =>
              x \in past.added \/ x \in SeqToSet(found["PROVER"][h])
    BY <1>4, <1>6 DEF InTurn, ProverInv, RowsInv
  <2>3. \A x \in past.added : Executed(x)' =>
           InHand(x) \/ \E i \in DOMAIN queue["PROVER"] : queue["PROVER"][i] = x
    BY <1>5, ViewTypes DEF InTurn, ProverInv, RowsInv
  <2>4. ASSUME job["PROVER"] # NoJob, NEW x \in Blocks, Executed(x)'
        PROVE  x >= job["PROVER"].blockNumber
    <3>1. job["PROVER"].blockNumber \in Blocks /\ blockStatus[job["PROVER"].blockNumber] \in Settled
      BY <2>4, ViewTypes DEF ProverInv, RowsInv
    <3>2. CASE x < job["PROVER"].blockNumber
      <4>1. Executed(x)
        BY <1>4, <2>4, <3>1, <3>2
      <4>2. QED
        BY <2>4, <4>1 DEF InTurn
    <3>3. QED
      BY <3>1, <3>2 DEF Blocks
  <2>5. \A i \in DOMAIN queue["PROVER"] : \A x \in Blocks :
           Executed(x)' /\ x < queue["PROVER"][i] =>
              InHand(x) \/ \E k \in 1 .. i - 1 : queue["PROVER"][k] = x
    <3>1. \A i \in DOMAIN queue["PROVER"] : blockStatus[queue["PROVER"][i]] \in Settled
      BY DEF ProverInv, RowsInv
    <3>2. QED
      BY <1>4, <1>6, <3>1 DEF InTurn
  <2>6. QED
    BY <1>1, <2>1, <2>2, <2>3, <2>4, <2>5 DEF InTurn, Executed, InHand
<1>9. OneJobEach => OneJobEach'
  <2> SUFFICES ASSUME OneJobEach PROVE OneJobEach'
    OBVIOUS
  <2>0. \A x \in Blocks : Executed(x) => blockStatus'[x] = "L2EXECUTED"
    BY <1>2 DEF Executed, Settled
  <2>1. \A i \in DOMAIN queue["PROVER"] : blockStatus'[queue["PROVER"][i]] = "L2EXECUTED"
    BY <1>6, <2>0 DEF OneJobEach
  <2>2. job["PROVER"].pc = "working" => blockStatus'[job["PROVER"].blockNumber] = "L2EXECUTED"
    <3>1. job["PROVER"].pc = "working" => job["PROVER"].blockNumber \in Blocks
      BY ViewTypes
    <3>2. QED
      BY <2>0, <3>1 DEF OneJobEach
  <2>3. QED
    BY <1>1, <2>1, <2>2 DEF OneJobEach, Executed, InHand
<1>10. QED
  BY <1>1, <1>7, <1>8, <1>9 DEF ProverInv

\* A query finds every executed row above the cursor, and what is below was added.
LEMMA QueryKeeps ==
    ASSUME TypeInv, ProverInv, NEW h \in ProverHandlers, FindBlocks("PROVER", h)
    PROVE  ProverInv'
<1>1. /\ blockStatus' = blockStatus /\ proof' = proof /\ cursor' = cursor /\ queue' = queue
      /\ job' = job /\ past' = past
      /\ found'["PROVER"] = [found["PROVER"] EXCEPT ![h] = BlocksAfter("PROVER")]
  BY ViewTypes DEF FindBlocks, TypeInv
<1> DEFINE s == BlocksAfter("PROVER")
<1> HIDE DEF s
<1>2. /\ s \in Seq(Blocks)
      /\ \A i \in DOMAIN s : Executed(s[i]) /\ s[i] > cursor["PROVER"]
      /\ \A x \in Blocks : Executed(x) /\ x > cursor["PROVER"] => \E i \in DOMAIN s : s[i] = x
  BY ViewTypes, FoundIs DEF s, StatusFor, Executed
<1>3. found'["PROVER"][h] = s /\ \A g \in ProverHandlers : g # h => found'["PROVER"][g] = found["PROVER"][g]
  BY <1>1, ViewTypes DEF s
<1>4. RowsInv'
  <2>1. \A i \in DOMAIN s : blockStatus[s[i]] \in Settled
    BY <1>2 DEF Executed, Settled
  <2>2. \A g \in ProverHandlers : \A i \in DOMAIN found'["PROVER"][g] :
           /\ blockStatus[found'["PROVER"][g][i]] \in Settled
           /\ Executed(found'["PROVER"][g][i]) \/ found'["PROVER"][g][i] \in past.added
    <3> SUFFICES ASSUME NEW g \in ProverHandlers, NEW i \in DOMAIN found'["PROVER"][g]
                 PROVE  /\ blockStatus[found'["PROVER"][g][i]] \in Settled
                        /\ Executed(found'["PROVER"][g][i]) \/ found'["PROVER"][g][i] \in past.added
      OBVIOUS
    <3>1. CASE g = h
      BY <1>2, <1>3, <2>1, <3>1
    <3>2. CASE g # h
      BY <1>3, <3>2 DEF ProverInv, RowsInv
    <3>3. QED
      BY <3>1, <3>2
  <2>3. QED
    BY <1>1, <2>2 DEF ProverInv, RowsInv, Executed
<1>5. InTurn => InTurn'
  <2> SUFFICES ASSUME InTurn PROVE InTurn'
    OBVIOUS
  <2>1. ASSUME NEW g \in ProverHandlers, NEW i \in DOMAIN found'["PROVER"][g], NEW x \in Blocks,
               Executed(x), x < found'["PROVER"][g][i]
        PROVE  x \in past.added \/ x \in SeqToSet(found'["PROVER"][g])
    <3>1. CASE g = h
      <4>1. x > cursor["PROVER"] \/ x <= cursor["PROVER"]
        BY ViewTypes DEF Blocks
      <4>2. CASE x > cursor["PROVER"]
        BY <1>2, <1>3, <2>1, <3>1, <4>2 DEF SeqToSet
      <4>3. CASE x <= cursor["PROVER"]
        BY <2>1, <4>3 DEF InTurn
      <4>4. QED
        BY <4>1, <4>2, <4>3
    <3>2. CASE g # h
      BY <1>3, <2>1, <3>2 DEF InTurn
    <3>3. QED
      BY <3>1, <3>2
  <2>2. QED
    BY <1>1, <2>1 DEF InTurn, Executed, InHand, SeqToSet
<1>6. OneJobEach => OneJobEach'
  BY <1>1 DEF OneJobEach, Executed, InHand
<1>7. QED
  BY <1>1, <1>4, <1>5, <1>6 DEF ProverInv

\* Where the elements of a concatenation lie.
LEMMA ConcatIs ==
    ASSUME NEW a \in Seq(Blocks), NEW b \in Seq(Blocks)
    PROVE  /\ a \o b \in Seq(Blocks)
           /\ Len(a) \in Nat /\ DOMAIN a = 1 .. Len(a)
           /\ \A i \in DOMAIN a : i \in DOMAIN (a \o b) /\ (a \o b)[i] = a[i]
           /\ \A i \in DOMAIN b : /\ Len(a) + i \in DOMAIN (a \o b) /\ (a \o b)[Len(a) + i] = b[i]
                                  /\ i \in Nat /\ i >= 1
           /\ \A k \in DOMAIN (a \o b) : k \in DOMAIN a \/ \E i \in DOMAIN b : k = Len(a) + i
<1>1. Len(a) \in Nat /\ Len(b) \in Nat /\ DOMAIN a = 1 .. Len(a) /\ DOMAIN b = 1 .. Len(b)
  OBVIOUS
<1>2. a \o b \in Seq(Blocks) /\ DOMAIN (a \o b) = 1 .. (Len(a) + Len(b))
  OBVIOUS
<1>3. \A i \in DOMAIN a : i \in DOMAIN (a \o b) /\ (a \o b)[i] = a[i]
  BY <1>1, <1>2
<1>4. \A i \in DOMAIN b : /\ Len(a) + i \in DOMAIN (a \o b) /\ (a \o b)[Len(a) + i] = b[i]
                          /\ i \in Nat /\ i >= 1
  BY <1>1, <1>2
<1>5. ASSUME NEW k \in DOMAIN (a \o b), k \notin DOMAIN a PROVE \E i \in DOMAIN b : k = Len(a) + i
  <2>1. k - Len(a) \in DOMAIN b /\ k = Len(a) + (k - Len(a))
    BY <1>1, <1>2, <1>5
  <2>2. QED
    BY <2>1
<1>6. QED
  BY <1>1, <1>2, <1>3, <1>4, <1>5

\* The rows found are added behind the jobs that wait.
LEMMA DispatchKeeps ==
    ASSUME TypeInv, ProverInv, NEW h \in ProverHandlers, DispatchBlocks("PROVER", h)
    PROVE  ProverInv'
<1> DEFINE s == found["PROVER"][h]
           all == SeqToSet(s)
<1>1. /\ blockStatus' = blockStatus /\ proof' = proof /\ job' = job
      /\ found'["PROVER"] = [found["PROVER"] EXCEPT ![h] = <<>>]
      /\ cursor'["PROVER"] = s[Len(s)] /\ s # <<>>
  BY ViewTypes DEF DispatchBlocks, TypeInv, TypeOK, CursorAfter
<1>2. s \in Seq(Blocks) /\ all \in SUBSET Blocks /\ Len(s) \in DOMAIN s
  <2>1. s \in Seq(Blocks) /\ s # <<>>
    BY <1>1, ViewTypes
  <2>2. QED
    BY <2>1 DEF SeqToSet
<1>3. "PROVER" \in Queues /\ h \in Handlers("PROVER")
  BY DEF Queues, Handlers
<1>4. PICK lost \in SUBSET all :
          /\ past.mishaps + Cardinality(lost) <= MaxMishaps
          /\ queue' = [queue EXCEPT !["PROVER"] = @ \o InOrder(all \ lost, MaxBlocks)]
          /\ past' = Added("PROVER", all, lost)
  BY DEF DispatchBlocks
<1> DEFINE kept == InOrder(all \ lost, MaxBlocks)
           q == queue["PROVER"]
<1>5. /\ past'.failed = past.failed \cup lost /\ past'.added = past.added \cup all
      /\ past'.repeated = past.repeated \cup (all \cap past.added)
  BY <1>2, <1>3, <1>4, AddedIs DEF TypeInv
<1>6. queue'["PROVER"] = q \o kept
  BY <1>3, <1>4 DEF TypeInv, TypeOK
<1>7. all \ lost \in SUBSET Blocks
  BY <1>2
<1>8. /\ kept \in Seq(Blocks)
      /\ \A i \in DOMAIN kept : kept[i] \in all \ lost
      /\ \A x \in all \ lost : \E i \in DOMAIN kept : kept[i] = x
      /\ \A i, j \in DOMAIN kept : i < j => kept[i] < kept[j]
  BY <1>7, RowsOf
<1>9. /\ found'["PROVER"][h] = <<>>
      /\ \A g \in ProverHandlers : g # h => found'["PROVER"][g] = found["PROVER"][g]
  BY <1>1, ViewTypes
<1>10. \A i \in DOMAIN s : s[i] \in all
  BY DEF SeqToSet
<1>11. \A x \in all : \E i \in DOMAIN s : s[i] = x
  BY DEF SeqToSet
<1> HIDE DEF kept, s, all, q
<1>12. q \in Seq(Blocks)
  BY ViewTypes DEF q
<1>13. /\ Len(q) \in Nat /\ DOMAIN q = 1 .. Len(q)
       /\ \A i \in DOMAIN q : i \in DOMAIN (q \o kept) /\ (q \o kept)[i] = q[i]
       /\ \A i \in DOMAIN kept : /\ Len(q) + i \in DOMAIN (q \o kept) /\ (q \o kept)[Len(q) + i] = kept[i]
                                 /\ i \in Nat /\ i >= 1
       /\ \A k \in DOMAIN (q \o kept) : k \in DOMAIN q \/ \E i \in DOMAIN kept : k = Len(q) + i
  BY <1>8, <1>12, ConcatIs
<1>14. \A x \in all : blockStatus[x] \in Settled /\ (Executed(x) \/ x \in past.added)
  BY <1>11 DEF ProverInv, RowsInv, s
<1>15. RowsInv'
  <2>1. blockStatus[cursor'["PROVER"]] \in Settled
    BY <1>1, <1>2, <1>10, <1>14
  <2>2. \A g \in ProverHandlers : \A i \in DOMAIN found'["PROVER"][g] :
           /\ blockStatus[found'["PROVER"][g][i]] \in Settled
           /\ Executed(found'["PROVER"][g][i]) \/ found'["PROVER"][g][i] \in past'.added
    BY <1>5, <1>9 DEF ProverInv, RowsInv
  <2>3. \A x \in past'.added : blockStatus[x] \in Settled
    BY <1>5, <1>14 DEF ProverInv, RowsInv
  <2>4. \A i \in DOMAIN queue'["PROVER"] : queue'["PROVER"][i] \in past'.added
    <3>1. \A i \in DOMAIN q : q[i] \in past'.added
      BY <1>5 DEF ProverInv, RowsInv, q
    <3>2. \A i \in DOMAIN kept : kept[i] \in past'.added
      BY <1>5, <1>8
    <3>3. QED
      BY <1>6, <1>13, <3>1, <3>2
  <2>5. QED
    BY <1>1, <1>5, <2>1, <2>2, <2>3, <2>4 DEF ProverInv, RowsInv, Executed
<1>16. ASSUME past'.failed = {} PROVE InTurn'
  <2>1. InTurn /\ lost = {}
    BY <1>5, <1>16 DEF ProverInv
  <2>2. \A x \in all : \E i \in DOMAIN kept : kept[i] = x
    BY <1>8, <2>1
  <2>3. \A y \in all : \A x \in Blocks : Executed(x) /\ x < y => x \in past.added \/ x \in all
    BY <1>11, <2>1 DEF InTurn, s, all
  <2>4. \A x \in Blocks : Executed(x) /\ x <= cursor'["PROVER"] => x \in past'.added
    <3>1. cursor'["PROVER"] \in all /\ cursor'["PROVER"] \in Blocks
      BY <1>1, <1>2, <1>10
    <3>2. \A x \in Blocks : x <= cursor'["PROVER"] => x < cursor'["PROVER"] \/ x = cursor'["PROVER"]
      BY <3>1 DEF Blocks
    <3>3. QED
      BY <1>5, <2>3, <3>1, <3>2
  <2>5. \A g \in ProverHandlers : \A i \in DOMAIN found'["PROVER"][g] : \A x \in Blocks :
           Executed(x) /\ x < found'["PROVER"][g][i] =>
              x \in past'.added \/ x \in SeqToSet(found'["PROVER"][g])
    BY <1>5, <1>9, <2>1 DEF InTurn
  <2>6. ASSUME NEW x \in past'.added, Executed(x)
        PROVE  InHand(x) \/ \E i \in DOMAIN (q \o kept) : (q \o kept)[i] = x
    <3>1. CASE x \in past.added
      BY <1>13, <2>1, <2>6, <3>1 DEF InTurn, q
    <3>2. CASE x \in all
      BY <1>13, <2>2, <3>2
    <3>3. QED
      BY <1>5, <3>1, <3>2
  <2>7. ASSUME NEW i \in DOMAIN (q \o kept), NEW x \in Blocks, Executed(x), x < (q \o kept)[i]
        PROVE  InHand(x) \/ \E k \in 1 .. i - 1 : (q \o kept)[k] = x
    <3>1. CASE i \in DOMAIN q
      <4>1. InHand(x) \/ \E k \in 1 .. i - 1 : q[k] = x
        BY <1>13, <2>1, <2>7, <3>1 DEF InTurn, q
      <4>2. \A k \in 1 .. i - 1 : k \in DOMAIN q
        BY <1>13, <3>1
      <4>3. QED
        BY <1>13, <4>1, <4>2
    <3>2. ASSUME NEW j \in DOMAIN kept, i = Len(q) + j
          PROVE  InHand(x) \/ \E k \in 1 .. i - 1 : (q \o kept)[k] = x
      <4>1. kept[j] \in all /\ x < kept[j] /\ kept[j] \in Blocks
        BY <1>2, <1>8, <1>13, <2>7, <3>2
      <4>2. CASE x \in past.added
        <5>1. InHand(x) \/ \E k \in DOMAIN q : q[k] = x
          BY <2>1, <2>7, <4>2 DEF InTurn, q
        <5>2. \A k \in DOMAIN q : k \in 1 .. i - 1
          BY <1>13, <3>2
        <5>3. QED
          BY <1>13, <5>1, <5>2
      <4>3. CASE x \in all
        <5>1. PICK l \in DOMAIN kept : kept[l] = x
          BY <2>2, <4>3
        <5>2. l < j
          <6>1. l \in Nat /\ j \in Nat
            BY <1>13
          <6>2. ~ (j < l) /\ l # j
            BY <1>8, <4>1, <5>1 DEF Blocks
          <6>3. QED
            BY <6>1, <6>2
        <5>3. Len(q) + l \in 1 .. i - 1 /\ (q \o kept)[Len(q) + l] = x
          <6>1. l \in Nat /\ j \in Nat /\ l >= 1 /\ (q \o kept)[Len(q) + l] = kept[l]
            BY <1>13
          <6>2. QED
            BY <1>13, <3>2, <5>1, <5>2, <6>1
        <5>4. QED
          BY <5>3
      <4>4. QED
        BY <2>3, <2>7, <4>1, <4>2, <4>3
    <3>3. QED
      BY <1>13, <3>1, <3>2
  <2>8. QED
    BY <1>1, <1>6, <2>1, <2>4, <2>5, <2>6, <2>7 DEF InTurn, Executed, InHand
<1>17. ASSUME past'.failed = {}, past'.repeated = {} PROVE OneJobEach'
  <2>1. OneJobEach /\ all \cap past.added = {}
    BY <1>5, <1>17 DEF ProverInv
  <2>2. \A i \in DOMAIN kept : Executed(kept[i]) /\ kept[i] \notin past.added
    BY <1>8, <1>14, <2>1
  <2>3. \A i \in DOMAIN q : q[i] \in past.added /\ Executed(q[i]) /\ ~InHand(q[i])
    BY <2>1 DEF OneJobEach, ProverInv, RowsInv, q
  <2>4. \A x : InHand(x) => x \in past.added
    BY DEF InHand, ProverInv, RowsInv
  <2>5. \A i \in DOMAIN (q \o kept) : Executed((q \o kept)[i]) /\ ~InHand((q \o kept)[i])
    BY <1>13, <2>2, <2>3, <2>4
  <2>6. ASSUME NEW i \in DOMAIN (q \o kept), NEW k \in DOMAIN (q \o kept), (q \o kept)[i] = (q \o kept)[k]
        PROVE  i = k
    <3>1. CASE i \in DOMAIN q /\ k \in DOMAIN q
      BY <1>13, <2>1, <2>6, <3>1 DEF OneJobEach, q
    <3>2. CASE i \notin DOMAIN q /\ k \notin DOMAIN q
      <4>1. PICK j \in DOMAIN kept : i = Len(q) + j
        BY <1>13, <3>2
      <4>2. PICK l \in DOMAIN kept : k = Len(q) + l
        BY <1>13, <3>2
      <4>3. kept[j] = kept[l] /\ kept[j] \in Nat /\ j \in Nat /\ l \in Nat
        <5>1. (q \o kept)[i] = kept[j] /\ (q \o kept)[k] = kept[l] /\ j \in Nat /\ l \in Nat
          BY <1>13, <4>1, <4>2
        <5>2. kept[j] \in Blocks
          BY <1>8
        <5>3. kept[j] \in Nat
          BY <5>2 DEF Blocks
        <5>4. kept[j] = kept[l]
          BY <2>6, <5>1
        <5>5. QED
          BY <5>1, <5>3, <5>4
      <4>4. ~ (j < l) /\ ~ (l < j)
        BY <1>8, <4>3
      <4>5. QED
        BY <4>1, <4>2, <4>3, <4>4
    <3>3. CASE i \in DOMAIN q /\ k \notin DOMAIN q
      <4>1. PICK j \in DOMAIN kept : k = Len(q) + j
        BY <1>13, <3>3
      <4>2. (q \o kept)[k] \notin past.added
        BY <1>13, <2>2, <4>1
      <4>3. (q \o kept)[i] \in past.added
        BY <1>13, <2>3, <3>3
      <4>4. QED
        BY <2>6, <4>2, <4>3
    <3>4. CASE i \notin DOMAIN q /\ k \in DOMAIN q
      <4>1. PICK j \in DOMAIN kept : i = Len(q) + j
        BY <1>13, <3>4
      <4>2. (q \o kept)[i] \notin past.added
        BY <1>13, <2>2, <4>1
      <4>3. (q \o kept)[k] \in past.added
        BY <1>13, <2>3, <3>4
      <4>4. QED
        BY <2>6, <4>2, <4>3
    <3>5. QED
      BY <3>1, <3>2, <3>3, <3>4
  <2>7. QED
    BY <1>1, <1>6, <2>1, <2>5, <2>6 DEF OneJobEach, Executed, InHand
<1>18. QED
  BY <1>15, <1>16, <1>17 DEF ProverInv

\* Where the elements of a tail lie.
LEMMA TailIs ==
    ASSUME NEW s \in Seq(Blocks), s # <<>>
    PROVE  /\ Tail(s) \in Seq(Blocks) /\ Head(s) = s[1] /\ 1 \in DOMAIN s
           /\ \A i \in DOMAIN Tail(s) : /\ i \in Nat /\ i >= 1 /\ i + 1 \in DOMAIN s
                                        /\ Tail(s)[i] = s[i + 1]
           /\ \A k \in DOMAIN s : k = 1 \/ /\ k \in Nat /\ k - 1 \in DOMAIN Tail(s)
                                           /\ Tail(s)[k - 1] = s[k]
<1>1. Len(s) \in Nat \ {0} /\ DOMAIN s = 1 .. Len(s)
  OBVIOUS
<1>2. Tail(s) \in Seq(Blocks) /\ DOMAIN Tail(s) = 1 .. (Len(s) - 1)
  BY <1>1
<1>3. Head(s) = s[1] /\ 1 \in DOMAIN s
  BY <1>1
<1>4. \A i \in 1 .. (Len(s) - 1) : Tail(s)[i] = s[i + 1]
  BY <1>1
<1>5. \A i \in DOMAIN Tail(s) : i \in Nat /\ i >= 1 /\ i + 1 \in DOMAIN s /\ Tail(s)[i] = s[i + 1]
  BY <1>1, <1>2, <1>4
<1>6. ASSUME NEW k \in DOMAIN s, k # 1
      PROVE  k \in Nat /\ k - 1 \in DOMAIN Tail(s) /\ Tail(s)[k - 1] = s[k]
  <2>1. k \in Nat /\ k - 1 \in 1 .. (Len(s) - 1) /\ (k - 1) + 1 = k
    BY <1>1, <1>6
  <2>2. QED
    BY <1>2, <1>4, <2>1
<1>7. QED
  BY <1>2, <1>3, <1>5, <1>6

\* The prover takes a job: no executed block lies below the job's.
LEMMA TakeKeeps ==
    ASSUME TypeInv, ProverInv, TakeJob("PROVER")
    PROVE  ProverInv'
<1> DEFINE q == queue["PROVER"]
           ready == WithStatus("L2EXECUTED")
<1>1. /\ blockStatus' = blockStatus /\ proof' = proof /\ cursor' = cursor /\ found' = found
      /\ past' = past /\ job["PROVER"] = NoJob /\ q # <<>> /\ q \in Seq(Blocks)
      /\ queue'["PROVER"] = Tail(q)
  BY ViewTypes DEF TakeJob, TypeInv, TypeOK
<1>2. job'["PROVER"] = IF ready = {} THEN NoJob
         ELSE [pc |-> "working", blockNumber |-> Head(q), current |-> LowestOf(ready)]
  BY ViewTypes DEF TakeJob, TypeInv, TypeOK, StatusFor
<1>3. ready \in SUBSET Blocks /\ \A x \in Blocks : x \in ready <=> Executed(x)
  BY DEF WithStatus, Executed
<1> HIDE DEF ready
<1>4. /\ Tail(q) \in Seq(Blocks) /\ Head(q) = q[1] /\ 1 \in DOMAIN q
      /\ \A i \in DOMAIN Tail(q) : i \in Nat /\ i >= 1 /\ i + 1 \in DOMAIN q /\ Tail(q)[i] = q[i + 1]
      /\ \A k \in DOMAIN q : k = 1 \/ /\ k \in Nat /\ k - 1 \in DOMAIN Tail(q)
                                      /\ Tail(q)[k - 1] = q[k]
  BY <1>1, TailIs
<1>5. q[1] \in Blocks /\ q[1] \in past.added
  BY <1>1, <1>4 DEF ProverInv, RowsInv
<1>6. \A i \in DOMAIN q : q[i] \in past.added
  BY DEF ProverInv, RowsInv
<1>7. \A x : ~InHand(x)
  BY <1>1 DEF InHand
<1>8. InTurn =>
        /\ \A x \in past.added : Executed(x) => \E i \in DOMAIN q : q[i] = x
        /\ \A i \in DOMAIN q : \A x \in Blocks : Executed(x) /\ x < q[i] => \E k \in 1 .. i - 1 : q[k] = x
  BY <1>7 DEF InTurn
<1>9. OneJobEach =>
        /\ \A i, k \in DOMAIN q : q[i] = q[k] => i = k
        /\ \A i \in DOMAIN q : Executed(q[i])
  BY DEF OneJobEach
<1>10. InTurn => \A x \in Blocks : Executed(x) => x >= q[1]
  <2> SUFFICES ASSUME InTurn, NEW x \in Blocks, Executed(x) PROVE x >= q[1]
    OBVIOUS
  <2>1. ~ (x < q[1])
    BY <1>4, <1>8
  <2>2. QED
    BY <1>5, <2>1 DEF Blocks
<1> HIDE DEF q
<1>11. RowsInv'
  <2>1. \A i \in DOMAIN Tail(q) : Tail(q)[i] \in past.added
    BY <1>4, <1>6
  <2>2. job'["PROVER"] # NoJob => job'["PROVER"].blockNumber \in past.added
    BY <1>2, <1>4, <1>5
  <2>3. job'["PROVER"].pc # "stored"
    BY <1>2 DEF NoJob
  <2>4. QED
    BY <1>1, <2>1, <2>2, <2>3 DEF ProverInv, RowsInv, Executed
<1>12. CASE ready = {}
  <2>1. \A x \in Blocks : ~Executed(x)
    BY <1>3, <1>12
  <2>2. job'["PROVER"] = NoJob
    BY <1>2, <1>12
  <2>3. InTurn => InTurn'
    <3>1. past.added \subseteq Blocks
      BY ViewTypes
    <3>2. job'["PROVER"].pc # "working"
      BY <2>2 DEF NoJob
    <3>3. \A x \in Blocks : blockStatus'[x] # "L2EXECUTED"
      BY <1>1, <2>1 DEF Executed
    <3>4. QED
      BY <1>1, <2>2, <3>1, <3>2, <3>3 DEF InTurn, Executed
  <2>4. ~OneJobEach
    BY <1>4, <1>5, <1>9, <2>1
  <2>5. QED
    BY <1>1, <1>11, <2>3, <2>4 DEF ProverInv
<1>13. CASE ready # {}
  <2> DEFINE low == LowestOf(ready)
  <2>1. low \in ready /\ \A c \in ready : low <= c
    BY <1>3, <1>13, LowestIs
  <2>2. job'["PROVER"] = [pc |-> "working", blockNumber |-> Head(q), current |-> low]
    BY <1>2, <1>13
  <2> HIDE DEF low
  <2>3. /\ job'["PROVER"].pc = "working" /\ job'["PROVER"].blockNumber = q[1]
        /\ job'["PROVER"].current = low /\ job'["PROVER"] # NoJob
    BY <1>4, <2>2 DEF NoJob
  <2>4. InTurn => InTurn'
    <3> SUFFICES ASSUME InTurn PROVE InTurn'
      OBVIOUS
    <3>1. \A x \in past.added : Executed(x) => q[1] = x \/ \E i \in DOMAIN Tail(q) : Tail(q)[i] = x
      <4> SUFFICES ASSUME NEW x \in past.added, Executed(x), x # q[1]
                   PROVE  \E i \in DOMAIN Tail(q) : Tail(q)[i] = x
        OBVIOUS
      <4>1. PICK i \in DOMAIN q : q[i] = x
        BY <1>8
      <4>2. i - 1 \in DOMAIN Tail(q) /\ Tail(q)[i - 1] = x
        BY <1>4, <4>1
      <4>3. QED
        BY <4>2
    <3>2. ASSUME NEW i \in DOMAIN Tail(q), NEW x \in Blocks, Executed(x), x < Tail(q)[i]
          PROVE  q[1] = x \/ \E k \in 1 .. i - 1 : Tail(q)[k] = x
      <4>1. i \in Nat /\ i >= 1 /\ i + 1 \in DOMAIN q /\ Tail(q)[i] = q[i + 1]
        BY <1>4
      <4>2. PICK k \in 1 .. (i + 1) - 1 : q[k] = x
        BY <1>8, <3>2, <4>1
      <4>3. CASE k = 1
        BY <4>2, <4>3
      <4>4. CASE k # 1
        <5>1. k \in DOMAIN q
          <6>1. DOMAIN q = 1 .. Len(q) /\ Len(q) \in Nat
            BY <1>1
          <6>2. QED
            BY <4>1, <4>2, <6>1
        <5>2. Tail(q)[k - 1] = x /\ k - 1 \in 1 .. i - 1
          BY <1>4, <4>1, <4>2, <4>4, <5>1
        <5>3. QED
          BY <5>2
      <4>5. QED
        BY <4>3, <4>4
    <3>3. low >= q[1]
      BY <1>3, <1>10, <2>1
    <3>4. QED
      BY <1>1, <1>10, <2>3, <3>1, <3>2, <3>3 DEF InTurn, Executed, InHand
  <2>5. InTurn /\ OneJobEach => OneJobEach'
    <3> SUFFICES ASSUME InTurn, OneJobEach PROVE OneJobEach'
      OBVIOUS
    <3>1. Executed(q[1]) /\ low = q[1]
      <4>1. q[1] \in ready /\ Executed(q[1])
        BY <1>3, <1>4, <1>5, <1>9
      <4>2. low <= q[1] /\ low >= q[1] /\ low \in Blocks
        BY <1>3, <1>10, <2>1, <4>1
      <4>3. QED
        BY <1>5, <4>1, <4>2 DEF Blocks
    <3>2. \A i \in DOMAIN Tail(q) : Executed(Tail(q)[i]) /\ Tail(q)[i] # q[1]
      <4> SUFFICES ASSUME NEW i \in DOMAIN Tail(q)
                   PROVE  Executed(Tail(q)[i]) /\ Tail(q)[i] # q[1]
        OBVIOUS
      <4>1. i \in Nat /\ i >= 1 /\ i + 1 \in DOMAIN q /\ Tail(q)[i] = q[i + 1]
        BY <1>4
      <4>2. i + 1 # 1
        BY <4>1
      <4>3. QED
        BY <1>4, <1>9, <4>1, <4>2
    <3>3. \A i, k \in DOMAIN Tail(q) : Tail(q)[i] = Tail(q)[k] => i = k
      <4> SUFFICES ASSUME NEW i \in DOMAIN Tail(q), NEW k \in DOMAIN Tail(q), Tail(q)[i] = Tail(q)[k]
                   PROVE  i = k
        OBVIOUS
      <4>1. /\ i \in Nat /\ i + 1 \in DOMAIN q /\ Tail(q)[i] = q[i + 1]
            /\ k \in Nat /\ k + 1 \in DOMAIN q /\ Tail(q)[k] = q[k + 1]
        BY <1>4
      <4>2. i + 1 = k + 1
        BY <1>9, <4>1
      <4>3. QED
        BY <4>1, <4>2
    <3>4. QED
      BY <1>1, <2>3, <3>1, <3>2, <3>3 DEF OneJobEach, Executed, InHand
  <2>6. QED
    BY <1>1, <1>11, <2>4, <2>5 DEF ProverInv
<1>14. QED
  BY <1>12, <1>13

\* The job leaves the queue: its block is confirmed.
LEMMA CompleteKeeps ==
    ASSUME TypeInv, ProverInv, CompleteJob("PROVER")
    PROVE  ProverInv'
<1>1. /\ blockStatus' = blockStatus /\ proof' = proof /\ cursor' = cursor /\ found' = found
      /\ past' = past /\ queue' = queue /\ job'["PROVER"] = NoJob /\ job["PROVER"].pc = "stored"
  BY ViewTypes DEF CompleteJob, TypeInv, TypeOK
<1>2. job'["PROVER"].pc \notin {"working", "stored"}
  BY <1>1 DEF NoJob
<1>3. \A x : InHand(x) => ~Executed(x)
  BY <1>1 DEF InHand, Executed, ProverInv, RowsInv
<1>4. RowsInv'
  BY <1>1, <1>2 DEF ProverInv, RowsInv, Executed
<1>5. InTurn => InTurn'
  <2> SUFFICES ASSUME InTurn PROVE InTurn'
    OBVIOUS
  <2>1. \A x \in past.added : Executed(x) => \E i \in DOMAIN queue["PROVER"] : queue["PROVER"][i] = x
    BY <1>3 DEF InTurn
  <2>2. \A i \in DOMAIN queue["PROVER"] : \A x \in Blocks :
           Executed(x) /\ x < queue["PROVER"][i] => \E k \in 1 .. i - 1 : queue["PROVER"][k] = x
    BY <1>3 DEF InTurn
  <2>3. QED
    BY <1>1, <1>2, <2>1, <2>2 DEF InTurn, Executed, InHand
<1>6. OneJobEach => OneJobEach'
  BY <1>1, <1>2 DEF OneJobEach, Executed, InHand
<1>7. QED
  BY <1>1, <1>4, <1>5, <1>6 DEF ProverInv

\* The proof of the lowest executed block is stored with the job's block.
LEMMA StoreKeeps ==
    ASSUME TypeInv, ProverInv, StoreProof
    PROVE  ProverInv'
<1> DEFINE b == job["PROVER"].blockNumber
<1>1. /\ cursor' = cursor /\ found' = found /\ queue' = queue /\ past' = past
      /\ blockStatus' = [blockStatus EXCEPT ![b] = "L2CONFIRMED"]
      /\ proof' = [proof EXCEPT ![b] = job["PROVER"].current]
      /\ job["PROVER"].pc = "working"
      /\ job' = [job EXCEPT !["PROVER"] = [job["PROVER"] EXCEPT !.pc = "stored"]]
  BY DEF StoreProof
<1>2. job["PROVER"] # NoJob /\ b \in Blocks /\ b \in past.added /\ job["PROVER"].current \in Blocks
  BY <1>1, ViewTypes DEF ProverInv, RowsInv
<1>3. /\ job'["PROVER"].pc = "stored" /\ job'["PROVER"].blockNumber = b /\ job'["PROVER"] # NoJob
  <2>1. job["PROVER"] \in [pc : {"working", "stored"}, blockNumber : Blocks, current : Blocks]
    BY <1>2, ViewTypes DEF JobType
  <2>2. job'["PROVER"] = [job["PROVER"] EXCEPT !.pc = "stored"]
    BY <1>1, ViewTypes DEF TypeInv, TypeOK
  <2>3. QED
    BY <2>1, <2>2 DEF NoJob
<1>4. \A x \in Blocks : blockStatus'[x] = IF x = b THEN "L2CONFIRMED" ELSE blockStatus[x]
  BY <1>1, <1>2, ViewTypes
<1>5. \A x \in Blocks : proof'[x] = IF x = b THEN job["PROVER"].current ELSE proof[x]
  BY <1>1, <1>2, ViewTypes
<1>6. \A x : InHand(x) <=> x = b
  BY <1>2 DEF InHand
<1> HIDE DEF b
<1>7. /\ \A h \in ProverHandlers : \A i \in DOMAIN found["PROVER"][h] : found["PROVER"][h][i] \in Blocks
      /\ \A i \in DOMAIN queue["PROVER"] : queue["PROVER"][i] \in Blocks
      /\ past.added \subseteq Blocks
      /\ cursor["PROVER"] # 0 => cursor["PROVER"] \in Blocks
  BY ViewTypes, SMTT(30) DEF Blocks
<1>8. \A x \in Blocks : blockStatus[x] \in Settled => blockStatus'[x] \in Settled
  BY <1>4 DEF Settled
<1>9. \A x \in Blocks : blockStatus'[x] = "L2EXECUTED" <=> Executed(x) /\ x # b
  BY <1>4 DEF Executed
<1>10. RowsInv'
  <2>1. \A h \in ProverHandlers : \A i \in DOMAIN found["PROVER"][h] :
           /\ blockStatus'[found["PROVER"][h][i]] \in Settled
           /\ blockStatus'[found["PROVER"][h][i]] = "L2EXECUTED" \/ found["PROVER"][h][i] \in past.added
    BY <1>2, <1>7, <1>8, <1>9 DEF ProverInv, RowsInv
  <2>2. \A x \in past.added : blockStatus'[x] \in Settled
    BY <1>7, <1>8 DEF ProverInv, RowsInv
  <2>3. cursor["PROVER"] # 0 => blockStatus'[cursor["PROVER"]] \in Settled
    BY <1>7, <1>8 DEF ProverInv, RowsInv
  <2>4. blockStatus'[b] = "L2CONFIRMED"
    BY <1>2, <1>4
  <2>5. QED
    BY <1>1, <1>2, <1>3, <2>1, <2>2, <2>3, <2>4 DEF ProverInv, RowsInv, Executed
<1>11. InTurn => InTurn'
  <2> SUFFICES ASSUME InTurn PROVE InTurn'
    OBVIOUS
  <2>1. \A x \in Blocks : blockStatus'[x] = "L2EXECUTED" => x >= b
    BY <1>2, <1>9 DEF InTurn, b
  <2>2. \A x \in Blocks : proof'[x] # 0 => proof'[x] >= x
    <3>1. job["PROVER"].current >= b
      BY <1>1 DEF InTurn, b
    <3>2. QED
      BY <1>5, <3>1 DEF InTurn
  <2>3. \A x \in past.added : blockStatus'[x] = "L2EXECUTED" =>
           \E i \in DOMAIN queue["PROVER"] : queue["PROVER"][i] = x
    BY <1>6, <1>7, <1>9 DEF InTurn
  <2>4. \A i \in DOMAIN queue["PROVER"] : \A x \in Blocks :
           blockStatus'[x] = "L2EXECUTED" /\ x < queue["PROVER"][i] =>
              \E k \in 1 .. i - 1 : queue["PROVER"][k] = x
    BY <1>6, <1>9 DEF InTurn
  <2>5. \A h \in ProverHandlers : \A i \in DOMAIN found["PROVER"][h] : \A x \in Blocks :
           blockStatus'[x] = "L2EXECUTED" /\ x < found["PROVER"][h][i] =>
              x \in past.added \/ x \in SeqToSet(found["PROVER"][h])
    BY <1>9 DEF InTurn
  <2>6. \A x \in Blocks : blockStatus'[x] = "L2EXECUTED" /\ x <= cursor["PROVER"] => x \in past.added
    BY <1>9 DEF InTurn
  <2>7. QED
    BY <1>1, <1>3, <2>1, <2>2, <2>3, <2>4, <2>5, <2>6 DEF InTurn, Executed, InHand
<1>12. OneJobEach => OneJobEach'
  <2> SUFFICES ASSUME OneJobEach PROVE OneJobEach'
    OBVIOUS
  <2>1. \A i \in DOMAIN queue["PROVER"] :
           blockStatus'[queue["PROVER"][i]] = "L2EXECUTED" /\ queue["PROVER"][i] # b
    BY <1>6, <1>7, <1>9 DEF OneJobEach
  <2>2. \A x \in Blocks : proof'[x] # 0 => proof'[x] = x
    <3>1. job["PROVER"].current = b
      BY <1>1 DEF OneJobEach, b
    <3>2. QED
      BY <1>5, <3>1 DEF OneJobEach
  <2>3. QED
    BY <1>1, <1>3, <2>1, <2>2 DEF OneJobEach, Executed, InHand
<1>13. QED
  BY <1>1, <1>10, <1>11, <1>12 DEF ProverInv

\* The job in hand at a restart is again the first of those that wait.
LEMMA RestartKeeps ==
    ASSUME TypeInv, ProverInv, Restart
    PROVE  ProverInv'
<1> DEFINE q == queue["PROVER"]
           b == job["PROVER"].blockNumber
<1>1. /\ blockStatus' = blockStatus /\ proof' = proof
      /\ cursor'["PROVER"] = 0 /\ found'["PROVER"] = [h \in ProverHandlers |-> <<>>]
      /\ queue'["PROVER"] = IF job["PROVER"] = NoJob THEN q ELSE <<b>> \o q
      /\ job'["PROVER"] = NoJob
  BY ViewTypes DEF Restart, Handlers
<1>2. /\ past'.failed = past.failed /\ past'.added = past.added
      /\ past'.repeated = past.repeated \cup
             {c \in Blocks : job["PROVER"].pc = "stored" /\ c = job["PROVER"].blockNumber}
  BY DEF Restart, TypeInv, TypeOK
<1>3. job'["PROVER"].pc \notin {"working", "stored"}
  BY <1>1 DEF NoJob
<1>4. \A h \in ProverHandlers : found'["PROVER"][h] = <<>> /\ DOMAIN found'["PROVER"][h] = {}
  BY <1>1
<1>5. q \in Seq(Blocks) /\ (job["PROVER"] # NoJob => b \in Blocks)
  BY ViewTypes
<1>6. \A x \in Blocks : ~ (x <= 0)
  BY DEF Blocks
<1>7. \A i \in DOMAIN q : q[i] \in past.added
  BY DEF ProverInv, RowsInv
<1>8. CASE job["PROVER"] = NoJob
  <2>1. queue'["PROVER"] = queue["PROVER"] /\ job'["PROVER"] = job["PROVER"]
    BY <1>1, <1>8
  <2>2. RowsInv'
    BY <1>1, <1>2, <1>4, <2>1 DEF ProverInv, RowsInv, Executed
  <2>3. InTurn => InTurn'
    BY <1>1, <1>2, <1>3, <1>4, <1>6, <2>1 DEF InTurn, Executed, InHand
  <2>4. OneJobEach => OneJobEach'
    BY <1>1, <1>3, <2>1 DEF OneJobEach, Executed, InHand
  <2>5. QED
    BY <1>2, <2>2, <2>3, <2>4 DEF ProverInv
<1>9. CASE job["PROVER"] # NoJob
  <2> DEFINE r == <<b>> \o q
  <2>1. b \in Blocks /\ <<b>> \in Seq(Blocks) /\ Len(<<b>>) = 1 /\ DOMAIN <<b>> = {1} /\ <<b>>[1] = b
    BY <1>5, <1>9
  <2>2. /\ r \in Seq(Blocks) /\ 1 \in DOMAIN r /\ r[1] = b
        /\ \A i \in DOMAIN q : 1 + i \in DOMAIN r /\ r[1 + i] = q[i] /\ i \in Nat /\ i >= 1
        /\ \A k \in DOMAIN r : k = 1 \/ \E i \in DOMAIN q : k = 1 + i
    <3>1. /\ r \in Seq(Blocks)
          /\ \A i \in DOMAIN <<b>> : i \in DOMAIN r /\ r[i] = <<b>>[i]
          /\ \A i \in DOMAIN q : /\ Len(<<b>>) + i \in DOMAIN r /\ r[Len(<<b>>) + i] = q[i]
                                 /\ i \in Nat /\ i >= 1
          /\ \A k \in DOMAIN r : k \in DOMAIN <<b>> \/ \E i \in DOMAIN q : k = Len(<<b>>) + i
      BY <1>5, <2>1, ConcatIs
    <3> HIDE DEF r
    <3>2. QED
      BY <2>1, <3>1
  <2>3. queue'["PROVER"] = r
    BY <1>1, <1>9
  <2>4. b \in past.added /\ \A x : InHand(x) <=> x = b
    BY <1>9 DEF ProverInv, RowsInv, InHand
  <2> HIDE DEF r, q, b
  <2>5. RowsInv'
    <3>1. \A i \in DOMAIN r : r[i] \in past.added
      BY <1>7, <2>2, <2>4
    <3>2. QED
      BY <1>1, <1>2, <1>3, <1>4, <2>3, <3>1 DEF ProverInv, RowsInv, Executed
  <2>6. InTurn => InTurn'
    <3> SUFFICES ASSUME InTurn PROVE InTurn'
      OBVIOUS
    <3>1. \A x \in past.added : Executed(x) => \E i \in DOMAIN r : r[i] = x
      BY <2>2, <2>4 DEF InTurn, q
    <3>2. \A x \in Blocks : Executed(x) => ~ (x < b)
      BY <1>9, <2>1 DEF InTurn, b, Blocks
    <3>3. ASSUME NEW i \in DOMAIN r, NEW x \in Blocks, Executed(x), x < r[i]
          PROVE  \E k \in 1 .. i - 1 : r[k] = x
      <4>1. i # 1
        BY <2>2, <3>2, <3>3
      <4>2. PICK j \in DOMAIN q : i = 1 + j
        BY <2>2, <4>1
      <4>3. j \in Nat /\ j >= 1 /\ r[1 + j] = q[j]
        BY <2>2
      <4>4. x = b \/ \E k \in 1 .. j - 1 : q[k] = x
        BY <2>4, <3>3, <4>2, <4>3 DEF InTurn, q
      <4>5. CASE x = b
        <5>1. 1 \in 1 .. i - 1
          BY <4>2, <4>3
        <5>2. QED
          BY <2>2, <4>5, <5>1
      <4>6. ASSUME NEW k \in 1 .. j - 1, q[k] = x PROVE \E l \in 1 .. i - 1 : r[l] = x
        <5>1. k \in DOMAIN q
          <6>1. DOMAIN q = 1 .. Len(q) /\ Len(q) \in Nat
            BY <1>5 DEF q
          <6>2. QED
            BY <4>3, <6>1
        <5>2. 1 + k \in 1 .. i - 1 /\ r[1 + k] = x
          BY <2>2, <4>2, <4>3, <4>6, <5>1
        <5>3. QED
          BY <5>2
      <4>7. QED
        BY <4>4, <4>5, <4>6
    <3>4. \A x \in past'.added : blockStatus'[x] = "L2EXECUTED" =>
             \E i \in DOMAIN queue'["PROVER"] : queue'["PROVER"][i] = x
      BY <1>1, <1>2, <2>3, <3>1 DEF Executed
    <3>5. \A i \in DOMAIN queue'["PROVER"] : \A x \in Blocks :
             blockStatus'[x] = "L2EXECUTED" /\ x < queue'["PROVER"][i] =>
                \E k \in 1 .. i - 1 : queue'["PROVER"][k] = x
      <4>1. \A i \in DOMAIN r : \A x \in Blocks :
               Executed(x) /\ x < r[i] => \E k \in 1 .. i - 1 : r[k] = x
        BY <3>3
      <4>2. \A x : Executed(x) <=> blockStatus'[x] = "L2EXECUTED"
        BY <1>1 DEF Executed
      <4>3. QED
        BY <2>3, <4>1, <4>2, Zenon
    <3>6. \A x \in Blocks : proof'[x] # 0 => proof'[x] >= x
      BY <1>1 DEF InTurn
    <3>7. job'["PROVER"] = NoJob /\ cursor'["PROVER"] = 0
      BY <1>1
    <3>8. QED
      BY <1>3, <1>4, <1>6, <3>4, <3>5, <3>6, <3>7 DEF InTurn, Executed
  <2>7. ASSUME past'.failed = {}, past'.repeated = {} PROVE OneJobEach'
    <3>1. OneJobEach /\ job["PROVER"].pc # "stored"
      <4>1. job["PROVER"].pc = "stored" => b \in past'.repeated
        BY <1>2, <2>1 DEF b
      <4>2. past.failed = {} /\ past.repeated = {}
        BY <1>2, <2>7
      <4>3. QED
        BY <2>7, <4>1, <4>2 DEF ProverInv
    <3>2. Executed(b)
      BY <1>9, <3>1, ViewTypes DEF OneJobEach, b
    <3>3. \A i \in DOMAIN q : Executed(q[i]) /\ q[i] # b
      BY <2>4, <3>1 DEF OneJobEach, q
    <3>4. \A i \in DOMAIN r : Executed(r[i])
      BY <2>2, <3>2, <3>3
    <3>5. ASSUME NEW i \in DOMAIN r, NEW k \in DOMAIN r, r[i] = r[k] PROVE i = k
      <4>1. CASE i = 1
        BY <2>2, <3>3, <3>5, <4>1
      <4>2. CASE k = 1
        BY <2>2, <3>3, <3>5, <4>2
      <4>3. CASE i # 1 /\ k # 1
        <5>1. PICK j \in DOMAIN q : i = 1 + j
          BY <2>2, <4>3
        <5>2. PICK l \in DOMAIN q : k = 1 + l
          BY <2>2, <4>3
        <5>3. q[j] = q[l]
          BY <2>2, <3>5, <5>1, <5>2
        <5>4. j = l
          BY <3>1, <5>3 DEF OneJobEach, q
        <5>5. QED
          BY <5>1, <5>2, <5>4
      <4>4. QED
        BY <4>1, <4>2, <4>3
    <3>6. QED
      BY <1>1, <1>3, <2>3, <3>1, <3>4, <3>5 DEF OneJobEach, Executed, InHand
  <2>8. QED
    BY <1>2, <2>5, <2>6, <2>7 DEF ProverInv
<1>10. QED
  BY <1>8, <1>9

\* Every step keeps ProverInv.
LEMMA ProverStep == TypeInv /\ ProverInv /\ [Next]_vars => ProverInv'
<1> SUFFICES ASSUME TypeInv, ProverInv, [Next]_vars PROVE ProverInv'
  OBVIOUS
<1>1. ASSUME NEW b \in Blocks, InsertBlock(b) \/ ExecuteBlock(b) PROVE ProverInv'
  BY <1>1, SequencerKeeps
<1>2. \A q \in Queues : q = "PROVER" \/ q = "OPERATOR"
  BY DEF Queues
<1>3. Handlers("PROVER") = ProverHandlers
  BY DEF Handlers
<1>4. ASSUME NEW q \in Queues, NEW h \in Handlers(q), FindBlocks(q, h) PROVE ProverInv'
  <2>1. CASE q = "PROVER"
    BY <1>3, <1>4, <2>1, QueryKeeps
  <2>2. CASE q = "OPERATOR"
    <3>1. ProverView' = ProverView
      BY <1>4, <2>2, ViewTypes DEF FindBlocks, ProverView, TypeInv
    <3>2. QED
      BY <3>1, ViewStutters
  <2>3. QED
    BY <1>2, <2>1, <2>2
<1>5. ASSUME NEW q \in Queues, NEW h \in Handlers(q), DispatchBlocks(q, h) PROVE ProverInv'
  <2>1. CASE q = "PROVER"
    BY <1>3, <1>5, <2>1, DispatchKeeps
  <2>2. CASE q = "OPERATOR"
    <3>1. PICK lost \in SUBSET SeqToSet(found[q][h]) :
            /\ past.mishaps + Cardinality(lost) <= MaxMishaps
            /\ queue' = [queue EXCEPT ![q] = @ \o InOrder(SeqToSet(found[q][h]) \ lost, MaxBlocks)]
            /\ past' = Added(q, SeqToSet(found[q][h]), lost)
      BY <1>5 DEF DispatchBlocks
    <3>2. SeqToSet(found[q][h]) \in SUBSET Blocks
      BY KeptIs
    <3>3. past'.failed = past.failed /\ past'.added = past.added /\ past'.repeated = past.repeated
      BY <2>2, <3>1, <3>2, AddedIs, ZenonT(30) DEF TypeInv
    <3>4. /\ cursor'["PROVER"] = cursor["PROVER"] /\ found'["PROVER"] = found["PROVER"]
          /\ queue'["PROVER"] = queue["PROVER"]
          /\ blockStatus' = blockStatus /\ proof' = proof /\ job' = job
      BY <1>5, <2>2, <3>1, ViewTypes DEF DispatchBlocks, TypeInv, TypeOK
    <3>5. ProverView' = ProverView
      BY <3>3, <3>4 DEF ProverView
    <3>6. QED
      BY <3>5, ViewStutters
  <2>3. QED
    BY <1>2, <2>1, <2>2
<1>6. ASSUME NEW q \in Queues, TakeJob(q) PROVE ProverInv'
  <2>1. CASE q = "PROVER"
    BY <1>6, <2>1, TakeKeeps
  <2>2. CASE q = "OPERATOR"
    <3>1. ProverView' = ProverView
      BY <1>6, <2>2, ViewTypes DEF TakeJob, ProverView, TypeInv, TypeOK
    <3>2. QED
      BY <3>1, ViewStutters
  <2>3. QED
    BY <1>2, <2>1, <2>2
<1>7. ASSUME NEW q \in Queues, CompleteJob(q) PROVE ProverInv'
  <2>1. CASE q = "PROVER"
    BY <1>7, <2>1, CompleteKeeps
  <2>2. CASE q = "OPERATOR"
    <3>1. ProverView' = ProverView
      BY <1>7, <2>2, ViewTypes DEF CompleteJob, ProverView, TypeInv, TypeOK
    <3>2. QED
      BY <3>1, ViewStutters
  <2>3. QED
    BY <1>2, <2>1, <2>2
<1>8. CASE StoreProof
  BY <1>8, StoreKeeps
<1>9. CASE FailProof
  <2>1. /\ blockStatus' = blockStatus /\ cursor' = cursor /\ found' = found /\ queue' = queue
        /\ job'["PROVER"] = NoJob /\ past'.added = past.added
        /\ job["PROVER"].blockNumber \in past'.failed
    BY <1>9, ViewTypes DEF FailProof, TypeInv, TypeOK
  <2>2. job'["PROVER"].pc # "stored"
    BY <2>1 DEF NoJob
  <2>3. RowsInv'
    BY <2>1, <2>2 DEF ProverInv, RowsInv, Executed
  <2>4. QED
    BY <2>1, <2>3 DEF ProverInv
<1>10. CASE Submit
  <2>1. ProverView' = ProverView
    BY <1>10, ViewTypes DEF Submit, ProverView, TypeInv, TypeOK
  <2>2. QED
    BY <2>1, ViewStutters
<1>11. CASE Restart
  BY <1>11, RestartKeeps
<1>12. CASE UNCHANGED vars
  <2>1. ProverView' = ProverView
    BY <1>12 DEF vars, ProverView
  <2>2. QED
    BY <2>1, ViewStutters
<1>13. QED
  BY <1>1, <1>4, <1>5, <1>6, <1>7, <1>8, <1>9, <1>10, <1>11, <1>12 DEF Next

\* As long as no prover job was lost a block never holds the proof of an earlier
\* one, and of a later one only if blocks had several jobs, for any number of
\* blocks, overlapping invocations and restarts.
THEOREM ProofsCorrect == Spec => []ProofIsOfItsBlock
<1>1. Init => ProverInv
  <2> SUFFICES ASSUME Init PROVE ProverInv
    OBVIOUS
  <2>1. /\ cursor["PROVER"] = 0 /\ queue["PROVER"] = <<>> /\ job["PROVER"] = NoJob
        /\ found["PROVER"] = [h \in ProverHandlers |-> <<>>]
        /\ past.added = {} /\ \A x \in Blocks : proof[x] = 0 /\ blockStatus[x] = "NONE"
    BY DEF Init, Queues, Handlers
  <2>2. job["PROVER"].pc \notin {"working", "stored"}
    BY <2>1 DEF NoJob
  <2>3. DOMAIN queue["PROVER"] = {} /\ \A h \in ProverHandlers : DOMAIN found["PROVER"][h] = {}
    BY <2>1
  <2>4. QED
    BY <2>1, <2>2, <2>3 DEF ProverInv, RowsInv, InTurn, OneJobEach, Executed
<1>2. ProverInv => ProofIsOfItsBlock
  BY DEF ProverInv, InTurn, OneJobEach, ProofIsOfItsBlock
<1>3. QED
  BY <1>1, <1>2, InitType, TypeStep, ProverStep, PTL DEF Spec
=============================================================================
