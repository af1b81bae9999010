-------------------------- MODULE SequencingProofs --------------------------
(***************************************************************************)
(* Theorems about the way of a request into a block, for any number of     *)
(* rows, of overlapping cron invocations, of logs in a block, and of       *)
(* restarts, lost adds and requests that throw.                            *)
(***************************************************************************)
EXTENDS Sequencing, PrefixSumsProofs

(***************************************************************************)
(* Types.                                                                  *)
(***************************************************************************)
RollupType ==
    [running : BOOLEAN, newBlockNumber : Nat, oriTxId : Nat, currentTxLogs : Seq(TxIds),
     rootFlow : Nat, payload : Nat]

PastType ==
    [crashes : Nat, overlapped : BOOLEAN, failedAdds : SUBSET TxIds, overtaken : SUBSET TxIds,
     overwritten : SUBSET TxIds, throws : Nat, lateThrow : BOOLEAN, executions : [TxIds -> Nat]]

TypeInv ==
    /\ TypeOK
    /\ rollup \in RollupType
    /\ past \in PastType
    /\ \A h \in Handlers : handler[h].pc = "idle" <=> handler[h].found = <<>>

\* A query's rows are the pending rows above the cursor, in the order of their ids.
LEMMA PendingIs ==
    ASSUME NEW cursor
    PROVE  /\ PendingAfter(cursor) \in Seq(TxIds)
           /\ \A i \in DOMAIN PendingAfter(cursor) :
                  PendingAfter(cursor)[i] > cursor /\ row[PendingAfter(cursor)[i]] = "PENDING"
           /\ \A t \in TxIds : t > cursor /\ row[t] = "PENDING" =>
                  \E i \in DOMAIN PendingAfter(cursor) : PendingAfter(cursor)[i] = t
           /\ \A i, j \in DOMAIN PendingAfter(cursor) :
                  i < j => PendingAfter(cursor)[i] < PendingAfter(cursor)[j]
<1> DEFINE S == {t \in TxIds : t > cursor /\ row[t] = "PENDING"}
           s == InOrder(S, MaxTx)
<1>1. Lists(s, S, MaxTx)
  BY SequencingAssumption, InOrderLists
<1>2. S \cap 1 .. MaxTx = S /\ S \in SUBSET TxIds
  BY DEF TxIds
<1>3. PendingAfter(cursor) = s
  BY DEF PendingAfter
<1>4. \A t : t \in S <=> t \in TxIds /\ t > cursor /\ row[t] = "PENDING"
  OBVIOUS
<1> HIDE DEF s, S
<1>5. s \in Seq(S) /\ Ascends(s) /\ \A t \in S : \E i \in DOMAIN s : s[i] = t
  BY <1>1, <1>2 DEF Lists
<1>6. s \in Seq(TxIds) /\ \A i \in DOMAIN s : s[i] \in S
  BY <1>2, <1>5
<1>7. QED
  BY <1>3, <1>4, <1>5, <1>6 DEF Ascends

\* The fields of a rollup with one more log.
LEMMA LoggedIs ==
    ASSUME TypeInv, job.pc = "taken"
    PROVE  /\ job.txId \in TxIds
           /\ Logged(rollup, job.txId) \in RollupType
           /\ Logged(rollup, job.txId).running = rollup.running
           /\ Logged(rollup, job.txId).newBlockNumber = rollup.newBlockNumber
           /\ Logged(rollup, job.txId).oriTxId = rollup.oriTxId
           /\ Logged(rollup, job.txId).currentTxLogs = Append(rollup.currentTxLogs, job.txId)
           /\ Logged(rollup, job.txId).rootFlow = rollup.rootFlow + 1
           /\ Logged(rollup, job.txId).payload = rollup.payload + 1
           /\ Len(rollup.currentTxLogs) \in Nat
           /\ Len(rollup.currentTxLogs) + 1 <= NumOfReqs
           /\ Len(Append(rollup.currentTxLogs, job.txId)) = Len(rollup.currentTxLogs) + 1
<1>1. job.txId \in TxIds
  BY DEF TypeInv, TypeOK, NoJob
<1>2. rollup.currentTxLogs \in Seq(TxIds) /\ rollup.rootFlow \in Nat /\ rollup.payload \in Nat
  BY DEF TypeInv, RollupType
<1>3. Append(rollup.currentTxLogs, job.txId) \in Seq(TxIds)
  BY <1>1, <1>2
<1>4. rollup.rootFlow + 1 \in Nat /\ rollup.payload + 1 \in Nat
  BY <1>2
<1>5. rollup \in RollupType
  BY DEF TypeInv
<1>6. Len(rollup.currentTxLogs) \in Nat /\ Len(rollup.currentTxLogs) < NumOfReqs
  BY <1>2 DEF TypeInv, TypeOK
<1>7. /\ Logged(rollup, job.txId) \in RollupType
      /\ Logged(rollup, job.txId).running = rollup.running
      /\ Logged(rollup, job.txId).newBlockNumber = rollup.newBlockNumber
      /\ Logged(rollup, job.txId).oriTxId = rollup.oriTxId
      /\ Logged(rollup, job.txId).currentTxLogs = Append(rollup.currentTxLogs, job.txId)
      /\ Logged(rollup, job.txId).rootFlow = rollup.rootFlow + 1
      /\ Logged(rollup, job.txId).payload = rollup.payload + 1
  BY <1>3, <1>4, <1>5 DEF Logged, RollupType
<1>8. Len(rollup.currentTxLogs) + 1 <= NumOfReqs
  BY <1>6, SequencingAssumption
<1>9. Len(Append(rollup.currentTxLogs, job.txId)) = Len(rollup.currentTxLogs) + 1
  BY <1>1, <1>2
<1>10. QED
  BY <1>1, <1>6, <1>7, <1>8, <1>9

\* The fields of a padded rollup, of the block saved from it, and of the rollup
\* once it is flushed.
LEMMA FullIs ==
    ASSUME TypeInv, job.pc = "taken",
           NEW full, full = Padded(Logged(rollup, job.txId)), NEW n, n = Len(rollup.currentTxLogs)
    PROVE  /\ full.currentTxLogs \in Seq(TxIds \cup {Noop})
           /\ Len(full.currentTxLogs) = NumOfReqs
           /\ \A i \in 1 .. n : full.currentTxLogs[i] = rollup.currentTxLogs[i]
           /\ full.currentTxLogs[n + 1] = job.txId
           /\ \A i \in n + 2 .. NumOfReqs : full.currentTxLogs[i] = Noop
           /\ full.rootFlow = rollup.rootFlow + (NumOfReqs - n)
           /\ full.payload = rollup.payload + (NumOfReqs - n)
           /\ SavedBlock(full) \in BlockRows
           /\ SavedBlock(full).blockStatus = "L2EXECUTED"
           /\ SavedBlock(full).logs = full.currentTxLogs
           /\ SavedBlock(full).oriTxNum = rollup.oriTxId
           /\ SavedBlock(full).rootFlow = full.rootFlow
           /\ SavedBlock(full).payload = full.payload
           /\ SavedBlock(full).boot = past.crashes
           /\ Flushed(full) \in RollupType
           /\ Flushed(full).running = FALSE
           /\ Flushed(full).newBlockNumber = rollup.newBlockNumber
           /\ Flushed(full).oriTxId = rollup.oriTxId + NumOfReqs
           /\ Flushed(full).currentTxLogs = <<>>
           /\ Flushed(full).rootFlow = 0 /\ Flushed(full).payload = 0
<1> DEFINE r == Logged(rollup, job.txId)
           one == Append(rollup.currentTxLogs, job.txId)
           noops == NumOfReqs - Len(r.currentTxLogs)
           pad == [i \in 1 .. noops |-> Noop]
<1>1. /\ job.txId \in TxIds /\ r \in RollupType
      /\ r.newBlockNumber = rollup.newBlockNumber /\ r.oriTxId = rollup.oriTxId
      /\ r.currentTxLogs = one
      /\ r.rootFlow = rollup.rootFlow + 1 /\ r.payload = rollup.payload + 1
      /\ n \in Nat /\ n + 1 <= NumOfReqs /\ Len(one) = n + 1
  BY LoggedIs
<1>2. rollup \in RollupType /\ past.crashes \in Nat
  BY DEF TypeInv, PastType
<1>3. rollup.currentTxLogs \in Seq(TxIds) /\ rollup.rootFlow \in Nat /\ rollup.payload \in Nat
      /\ rollup.oriTxId \in Nat /\ rollup.newBlockNumber \in Nat
  BY <1>2 DEF RollupType
<1>4. noops \in Nat /\ noops = NumOfReqs - (n + 1)
  BY <1>1, SequencingAssumption
<1>5. full = [r EXCEPT !.currentTxLogs = r.currentTxLogs \o pad,
                       !.payload = r.payload + noops, !.rootFlow = r.rootFlow + noops]
  BY DEF Padded
<1>6. one \in Seq(TxIds) /\ (\A i \in 1 .. n : one[i] = rollup.currentTxLogs[i]) /\ one[n + 1] = job.txId
  BY <1>1, <1>3
<1> HIDE DEF r, one, noops
<1>7. /\ full.currentTxLogs = one \o pad
      /\ full.payload = r.payload + noops /\ full.rootFlow = r.rootFlow + noops
      /\ full.oriTxId = rollup.oriTxId /\ full.newBlockNumber = rollup.newBlockNumber
  BY <1>1, <1>5 DEF RollupType
<1>8. pad \in Seq(TxIds \cup {Noop}) /\ Len(pad) = noops /\ \A i \in 1 .. noops : pad[i] = Noop
  BY <1>4
<1>9. one \in Seq(TxIds \cup {Noop})
  BY <1>6
<1> HIDE DEF pad
<1>10. full.currentTxLogs \in Seq(TxIds \cup {Noop}) /\ Len(full.currentTxLogs) = NumOfReqs
  <2>1. one \o pad \in Seq(TxIds \cup {Noop}) /\ Len(one \o pad) = (n + 1) + noops
    BY <1>1, <1>8, <1>9
  <2>2. (n + 1) + noops = NumOfReqs
    BY <1>1, <1>4, SequencingAssumption
  <2>3. QED
    BY <1>7, <2>1, <2>2
<1>11. /\ \A i \in 1 .. n + 1 : full.currentTxLogs[i] = one[i]
       /\ \A i \in n + 2 .. NumOfReqs : full.currentTxLogs[i] = Noop
  <2>1. \A i \in 1 .. n + 1 : (one \o pad)[i] = one[i]
    BY <1>1, <1>8, <1>9
  <2>2. \A i \in n + 2 .. NumOfReqs : i - (n + 1) \in 1 .. noops /\ (one \o pad)[i] = pad[i - (n + 1)]
    <3> SUFFICES ASSUME NEW i \in n + 2 .. NumOfReqs
                 PROVE  i - (n + 1) \in 1 .. noops /\ (one \o pad)[i] = pad[i - (n + 1)]
      OBVIOUS
    <3>1. i - (n + 1) \in 1 .. noops /\ i \in 1 .. (n + 1) + noops /\ i > n + 1
      BY <1>1, <1>4, SequencingAssumption
    <3>2. QED
      BY <1>1, <1>8, <1>9, <3>1
  <2>3. QED
    BY <1>7, <1>8, <2>1, <2>2
<1>12. full.rootFlow = rollup.rootFlow + (NumOfReqs - n) /\ full.payload = rollup.payload + (NumOfReqs - n)
  <2>1. \A x \in Nat : (x + 1) + (NumOfReqs - (n + 1)) = x + (NumOfReqs - n)
    BY <1>1, SequencingAssumption
  <2>2. full.rootFlow = (rollup.rootFlow + 1) + (NumOfReqs - (n + 1))
        /\ full.payload = (rollup.payload + 1) + (NumOfReqs - (n + 1))
    BY <1>1, <1>4, <1>7
  <2>3. QED
    BY <1>3, <2>1, <2>2
<1>13. full.rootFlow \in Nat /\ full.payload \in Nat
  BY <1>1, <1>3, <1>12, SequencingAssumption, SMTT(30)
<1>14. SavedBlock(full) = [blockStatus |-> "L2EXECUTED", logs |-> full.currentTxLogs, oriTxNum |-> rollup.oriTxId,
                           rootFlow |-> full.rootFlow, payload |-> full.payload, boot |-> past.crashes]
  BY <1>7 DEF SavedBlock
<1>15. SavedBlock(full) \in BlockRows
  BY <1>2, <1>3, <1>10, <1>13, <1>14 DEF BlockRows
<1>16. rollup.oriTxId + NumOfReqs \in Nat
  BY <1>3, SequencingAssumption
<1>19. Flushed(full) = [full EXCEPT !.running = FALSE, !.oriTxId = rollup.oriTxId + NumOfReqs,
                                    !.currentTxLogs = <<>>, !.rootFlow = 0, !.payload = 0]
  BY <1>7, <1>10 DEF Flushed
<1>20. <<>> \in Seq(TxIds)
  OBVIOUS
<1>21. Flushed(full) = [running |-> FALSE, newBlockNumber |-> rollup.newBlockNumber,
                        oriTxId |-> rollup.oriTxId + NumOfReqs, currentTxLogs |-> <<>>,
                        rootFlow |-> 0, payload |-> 0]
  BY <1>1, <1>5, <1>19 DEF RollupType
<1>22. Flushed(full) \in RollupType
  BY <1>3, <1>16, <1>20, <1>21 DEF RollupType
<1>23. \A i \in 1 .. n : i \in 1 .. n + 1
  BY <1>1
<1>24. n + 1 \in 1 .. n + 1
  BY <1>1
<1>25. \A i \in 1 .. n : full.currentTxLogs[i] = rollup.currentTxLogs[i]
  BY <1>6, <1>11, <1>23
<1>26. full.currentTxLogs[n + 1] = job.txId
  BY <1>6, <1>11, <1>24
<1>27. QED
  BY <1>10, <1>11, <1>12, <1>14, <1>15, <1>21, <1>22, <1>25, <1>26

\* Replacing an element of a sequence.
LEMMA ExceptIs ==
    ASSUME NEW S, NEW s \in Seq(S), NEW v \in S, NEW k
    PROVE  /\ [s EXCEPT ![k] = v] \in Seq(S)
           /\ Len([s EXCEPT ![k] = v]) = Len(s)
           /\ DOMAIN [s EXCEPT ![k] = v] = DOMAIN s
           /\ \A i \in DOMAIN s : i # k => [s EXCEPT ![k] = v][i] = s[i]
           /\ k \in DOMAIN s => [s EXCEPT ![k] = v][k] = v
<1>1. Len(s) \in Nat /\ DOMAIN s = 1 .. Len(s) /\ \A i \in 1 .. Len(s) : s[i] \in S
  OBVIOUS
<1>2. [s EXCEPT ![k] = v] = [i \in 1 .. Len(s) |-> IF i = k THEN v ELSE s[i]]
  BY <1>1
<1> DEFINE r == [i \in 1 .. Len(s) |-> IF i = k THEN v ELSE s[i]]
<1>3. r \in Seq(S) /\ Len(r) = Len(s)
  BY <1>1
<1>4. QED
  BY <1>1, <1>2, <1>3

LEMMA InitType == Init => TypeInv
<1> SUFFICES ASSUME Init PROVE TypeInv
  OBVIOUS
<1>1. <<>> \in Seq(TxIds) /\ <<>> \in Seq(BlockRows)
  OBVIOUS
<1>2. rollup \in RollupType /\ past \in PastType
  BY <1>1 DEF Init, NewRollup, RollupType, PastType
<1>3. Len(rollup.currentTxLogs) < NumOfReqs /\ rollup.newBlockNumber \in 0 .. Len(blocks)
  BY SequencingAssumption DEF Init, NewRollup
<1>4. QED
  BY <1>1, <1>2, <1>3, SequencingAssumption DEF Init, TypeInv, TypeOK, RowStatus, NoInvocation, NoJob

\* Every step keeps the types.
LEMMA TypeStep == TypeInv /\ [Next]_vars => TypeInv'
<1> SUFFICES ASSUME TypeInv, [Next]_vars PROVE TypeInv'
  OBVIOUS
<1> USE SequencingAssumption
<1> DEFINE HandlerType == [pc : {"idle", "finding", "adding"}, found : Seq(TxIds)]
<1>0. /\ row \in [TxIds -> RowStatus] /\ handler \in [Handlers -> HandlerType]
      /\ seqQueue \in Seq(TxIds) /\ saving \subseteq TxIds /\ blocks \in Seq(BlockRows)
      /\ rollup \in RollupType /\ past \in PastType
      /\ job \in [pc : {"taken", "done"}, txId : TxIds] \cup {NoJob}
      /\ rollup.newBlockNumber \in 0 .. Len(blocks) /\ Len(rollup.currentTxLogs) < NumOfReqs
      /\ Len(blocks) \in Nat
  BY DEF TypeInv, TypeOK
<1>1. CASE InsertRow
  BY <1>1 DEF InsertRow, TypeInv, TypeOK, RowStatus
<1>2. ASSUME NEW t \in TxIds, CommitRow(t) PROVE TypeInv'
  BY <1>2 DEF CommitRow, TypeInv, TypeOK, RowStatus
<1>3. ASSUME NEW t \in TxIds, SavePROCESSING(t) PROVE TypeInv'
  <2>1. past' \in PastType
    BY <1>0, <1>3 DEF SavePROCESSING, PastType
  <2>2. row' \in [TxIds -> RowStatus]
    BY <1>0, <1>3 DEF SavePROCESSING, RowStatus
  <2>3. QED
    BY <1>3, <2>1, <2>2 DEF SavePROCESSING, TypeInv, TypeOK
<1>4. ASSUME NEW h \in Handlers, FindPending(h) PROVE TypeInv'
  <2> DEFINE found == PendingAfter(currentPendingTxId)
  <2>1. found \in Seq(TxIds)
    BY PendingIs
  <2>2. /\ found # <<>> /\ handler' = [handler EXCEPT ![h] = [pc |-> "finding", found |-> found]]
        /\ past' = [past EXCEPT
                !.overlapped = @ \/ \E g \in Handlers : handler[g].pc = "finding",
                !.overtaken = @ \cup {t \in TxIds : /\ row[t] = "INSERTING"
                                                    /\ \E i \in DOMAIN found : found[i] > t}]
    BY <1>4 DEF FindPending
  <2> HIDE DEF found
  <2>3. handler' \in [Handlers -> HandlerType]
    BY <1>0, <2>1, <2>2
  <2>4. past' \in PastType
    BY <1>0, <2>2 DEF PastType
  <2>5. \A g \in Handlers : handler'[g].pc = "idle" <=> handler'[g].found = <<>>
    BY <1>0, <2>2 DEF TypeInv
  <2>6. QED
    BY <1>4, <2>3, <2>4, <2>5 DEF FindPending, TypeInv, TypeOK
<1>5. ASSUME NEW h \in Handlers, MoveCursor(h) PROVE TypeInv'
  <2>1. handler[h].found \in Seq(TxIds) /\ handler[h].found # <<>> /\ handler[h] \in HandlerType
    BY <1>0, <1>5 DEF MoveCursor, TypeInv
  <2>2. handler' = [handler EXCEPT ![h] = [handler[h] EXCEPT !.pc = "adding"]]
    BY <1>5 DEF MoveCursor
  <2>3. handler' \in [Handlers -> HandlerType]
    BY <1>0, <2>1, <2>2
  <2>4. \A g \in Handlers : handler'[g].pc = "idle" <=> handler'[g].found = <<>>
    BY <1>0, <2>1, <2>2 DEF TypeInv
  <2>5. currentPendingTxId' \in 0 .. MaxTx
    <3>1. Len(handler[h].found) \in DOMAIN handler[h].found
      BY <2>1
    <3>2. handler[h].found[Len(handler[h].found)] \in TxIds
      BY <2>1, <3>1
    <3>3. QED
      BY <1>5, <3>2 DEF MoveCursor, CursorAfter, TxIds
  <2>6. QED
    BY <1>5, <2>3, <2>4, <2>5 DEF MoveCursor, TypeInv, TypeOK
<1>6. ASSUME NEW h \in Handlers, AddJob(h) PROVE TypeInv'
  <2>1. handler[h].found \in Seq(TxIds) /\ handler[h].found # <<>> /\ handler[h] \in HandlerType
    BY <1>0, <1>6 DEF AddJob, TypeInv
  <2>2. Head(handler[h].found) \in TxIds /\ Tail(handler[h].found) \in Seq(TxIds)
    BY <2>1
  <2>3. handler' = [handler EXCEPT ![h] =
           IF Tail(handler[h].found) = <<>> THEN NoInvocation
           ELSE [pc |-> "adding", found |-> Tail(handler[h].found)]]
    BY <1>6 DEF AddJob
  <2>4. handler' \in [Handlers -> HandlerType]
    BY <1>0, <2>2, <2>3 DEF NoInvocation
  <2>5. \A g \in Handlers : handler'[g].pc = "idle" <=> handler'[g].found = <<>>
    BY <1>0, <2>3 DEF TypeInv, NoInvocation
  <2>6. past' \in PastType /\ seqQueue' \in Seq(TxIds)
    <3>1. CASE seqQueue' = Append(seqQueue, Head(handler[h].found)) /\ past' = past
      BY <1>0, <2>2, <3>1
    <3>2. CASE /\ seqQueue' = seqQueue
               /\ past' = [past EXCEPT !.failedAdds = @ \cup {Head(handler[h].found)}]
      BY <1>0, <2>2, <3>2 DEF PastType
    <3>3. QED
      BY <1>6, <3>1, <3>2 DEF AddJob
  <2>7. QED
    BY <1>6, <2>4, <2>5, <2>6 DEF AddJob, TypeInv, TypeOK
<1>7. CASE TakeJob
  <2>1. Head(seqQueue) \in TxIds /\ Tail(seqQueue) \in Seq(TxIds)
    BY <1>0, <1>7 DEF TakeJob
  <2>2. blocks' \in Seq(BlockRows) /\ Len(blocks') \in Nat /\ Len(blocks') >= Len(blocks)
        /\ (~rollup.running => Len(blocks') = Len(blocks) + 1)
    <3> DEFINE new == [blockStatus |-> "PROCESSING", logs |-> <<>>, oriTxNum |-> 0,
                       rootFlow |-> 0, payload |-> 0, boot |-> past.crashes]
    <3>1. past.crashes \in Nat /\ <<>> \in Seq(TxIds \cup {Noop})
      BY <1>0 DEF PastType
    <3>2. new \in BlockRows
      BY <3>1 DEF BlockRows
    <3>3. blocks' = IF rollup.running THEN blocks ELSE Append(blocks, new)
      BY <1>7 DEF TakeJob, BlocksStarted
    <3> HIDE DEF new
    <3>4. QED
      BY <1>0, <3>2, <3>3
  <2>3. rollup' \in RollupType /\ rollup'.newBlockNumber \in 0 .. Len(blocks')
        /\ Len(rollup'.currentTxLogs) < NumOfReqs
    <3>1. rollup' = IF rollup.running THEN rollup
             ELSE [rollup EXCEPT !.running = TRUE, !.newBlockNumber = Len(blocks) + 1, !.rootFlow = rollup.rootFlow + 1]
      BY <1>7 DEF TakeJob, RollupStarted
    <3>2. rollup.rootFlow \in Nat
      BY <1>0 DEF RollupType
    <3>3. rollup.rootFlow + 1 \in Nat /\ Len(blocks) + 1 \in Nat
      BY <1>0, <3>2
    <3>4. CASE rollup.running
      BY <1>0, <2>2, <3>1, <3>4
    <3>5. CASE ~rollup.running
      <4>1. /\ rollup' \in RollupType /\ rollup'.newBlockNumber = Len(blocks) + 1
            /\ rollup'.currentTxLogs = rollup.currentTxLogs
        BY <1>0, <3>1, <3>3, <3>5 DEF RollupType
      <4>2. QED
        BY <1>0, <2>2, <3>3, <3>5, <4>1
    <3>6. QED
      BY <3>4, <3>5
  <2>4. QED
    BY <1>0, <1>7, <2>1, <2>2, <2>3 DEF TakeJob, TypeInv, TypeOK
<1>8. CASE ThrowRequest
  <2>1. rollup.payload \in Nat /\ past.throws \in Nat
    BY <1>0 DEF RollupType, PastType
  <2>2. rollup.payload + 1 \in Nat /\ past.throws + 1 \in Nat
    BY <2>1
  <2>3. PICK f \in Faults :
            /\ rollup' = [rollup EXCEPT !.payload = IF f = "late" THEN @ + 1 ELSE @]
            /\ past' = [past EXCEPT !.throws = @ + 1, !.lateThrow = @ \/ f = "late"]
    BY <1>8 DEF ThrowRequest
  <2>4. rollup' \in RollupType /\ rollup'.newBlockNumber = rollup.newBlockNumber
        /\ rollup'.currentTxLogs = rollup.currentTxLogs
    BY <1>0, <2>1, <2>2, <2>3 DEF RollupType
  <2>5. past' \in PastType
    BY <1>0, <2>2, <2>3 DEF PastType
  <2>6. QED
    BY <1>0, <1>8, <2>4, <2>5 DEF ThrowRequest, TypeInv, TypeOK
<1>9. CASE LogRequest
  <2> DEFINE logged == Logged(rollup, job.txId)
             full == Padded(logged)
  <2>1. job.pc = "taken" /\ job.txId \in TxIds
    BY <1>9, LoggedIs DEF LogRequest
  <2>2. past' \in PastType
    <3>1. past.executions \in [TxIds -> Nat]
      BY <1>0 DEF PastType
    <3>2. past.executions[job.txId] + 1 \in Nat
      BY <2>1, <3>1
    <3>3. [past.executions EXCEPT ![job.txId] = past.executions[job.txId] + 1] \in [TxIds -> Nat]
      BY <3>1, <3>2
    <3>4. past' = [past EXCEPT !.executions =
                     [past.executions EXCEPT ![job.txId] = past.executions[job.txId] + 1]]
      BY <1>9 DEF LogRequest
    <3>5. QED
      BY <1>0, <3>3, <3>4 DEF PastType
  <2>3. job' \in [pc : {"taken", "done"}, txId : TxIds] \cup {NoJob}
    <3>1. job' = [job EXCEPT !.pc = "done"] \/ job' = NoJob
      BY <1>9 DEF LogRequest
    <3>2. QED
      BY <1>0, <2>1, <3>1 DEF NoJob
  <2>4. CASE IsNearlyFull(logged)
    <3>1. rollup' = Flushed(full) /\ blocks' = [blocks EXCEPT ![rollup.newBlockNumber] = SavedBlock(full)]
      BY <1>9, <2>4 DEF LogRequest
    <3>2. /\ SavedBlock(full) \in BlockRows /\ Flushed(full) \in RollupType
          /\ Flushed(full).newBlockNumber = rollup.newBlockNumber
          /\ Flushed(full).currentTxLogs = <<>>
      BY <2>1, FullIs
    <3> HIDE DEF full
    <3>3. blocks' \in Seq(BlockRows) /\ Len(blocks') = Len(blocks)
      BY <1>0, <3>1, <3>2, ExceptIs
    <3>4. Len(rollup'.currentTxLogs) < NumOfReqs
      BY <3>1, <3>2
    <3>5. QED
      BY <1>0, <1>9, <2>2, <2>3, <3>1, <3>2, <3>3, <3>4 DEF LogRequest, TypeInv, TypeOK
  <2>5. CASE ~IsNearlyFull(logged)
    <3>1. rollup' = logged /\ blocks' = blocks
      BY <1>9, <2>5 DEF LogRequest
    <3>2. logged \in RollupType /\ logged.newBlockNumber = rollup.newBlockNumber
          /\ Len(logged.currentTxLogs) \in Nat
      <4>1. /\ logged \in RollupType /\ logged.newBlockNumber = rollup.newBlockNumber
            /\ logged.currentTxLogs = Append(rollup.currentTxLogs, job.txId)
            /\ Len(rollup.currentTxLogs) \in Nat
            /\ Len(Append(rollup.currentTxLogs, job.txId)) = Len(rollup.currentTxLogs) + 1
        BY <2>1, LoggedIs
      <4>2. QED
        BY <4>1
    <3> HIDE DEF logged
    <3>3. Len(logged.currentTxLogs) < NumOfReqs
      BY <2>5, <3>2 DEF IsNearlyFull
    <3>4. QED
      BY <1>0, <1>9, <2>2, <2>3, <3>1, <3>2, <3>3 DEF LogRequest, TypeInv, TypeOK
  <2>6. QED
    BY <2>4, <2>5
<1>10. CASE MarkExecuted
  <2>1. job.txId \in TxIds
    BY <1>0, <1>10 DEF MarkExecuted, NoJob
  <2>2. QED
    BY <1>10, <2>1 DEF MarkExecuted, TypeInv, TypeOK, RowStatus
<1>11. CASE Crash
  <2>1. past.crashes \in Nat
    BY <1>0 DEF PastType
  <2>2. past.crashes + 1 \in Nat
    BY <2>1
  <2>3. past' \in PastType
    BY <1>0, <1>11, <2>2 DEF Crash, PastType
  <2>4. seqQueue' \in Seq(TxIds)
    <3>1. job.pc # "idle" => job.txId \in TxIds
      BY <1>0 DEF NoJob
    <3>2. seqQueue' = IF job.pc = "idle" THEN seqQueue ELSE <<job.txId>> \o seqQueue
      BY <1>11 DEF Crash
    <3>3. QED
      BY <1>0, <3>1, <3>2
  <2>5. rollup' = NewRollup /\ handler' = [h \in Handlers |-> NoInvocation] /\ job' = NoJob
        /\ currentPendingTxId' = 0 /\ saving' = {}
    BY <1>11 DEF Crash
  <2>6. <<>> \in Seq(TxIds)
    OBVIOUS
  <2>7. rollup' \in RollupType /\ rollup'.newBlockNumber = 0 /\ Len(rollup'.currentTxLogs) = 0
    BY <2>5, <2>6 DEF NewRollup, RollupType
  <2>8. handler' \in [Handlers -> HandlerType] /\ \A h \in Handlers : handler'[h] = NoInvocation
    BY <2>5, <2>6 DEF NoInvocation
  <2>9. QED
    BY <1>0, <1>11, <2>3, <2>4, <2>5, <2>7, <2>8 DEF Crash, TypeInv, TypeOK, NoInvocation
<1>12. CASE UNCHANGED vars
  BY <1>12 DEF vars, TypeInv, TypeOK
<1>13. QED
  BY <1>1, <1>2, <1>3, <1>4, <1>5, <1>6, <1>7, <1>8, <1>9, <1>10, <1>11, <1>12
     DEF Next, Dispatcher, Sequencer

\* Every variable keeps to its set of values, and between two jobs the logs in
\* hand leave room in the block, for any block size: endRollup's padding never
\* runs over it.
THEOREM TypeCorrect == Spec => []TypeOK
<1>1. TypeInv => TypeOK
  BY DEF TypeInv
<1>2. QED
  BY <1>1, InitType, TypeStep, PTL DEF Spec

(***************************************************************************)
(* Blocks: the rollup in hand is of the last row, its logs, roots and      *)
(* payload are in step, and its oriTxId is where the last block saved in   *)
(* this life of the program ended.                                         *)
(***************************************************************************)
RollupInv ==
    /\ job.pc = "taken" => rollup.running
    /\ ~rollup.running =>
           rollup.currentTxLogs = <<>> /\ rollup.rootFlow = 0 /\ rollup.payload = 0
    /\ rollup.running =>
           /\ rollup.rootFlow = Len(rollup.currentTxLogs) + 1
           /\ past.lateThrow \/ rollup.payload = Len(rollup.currentTxLogs)
           /\ rollup.newBlockNumber = Len(blocks) /\ Len(blocks) # 0
           /\ ~IsSaved(Len(blocks)) /\ blocks[Len(blocks)].boot = past.crashes
    /\ \A b \in DOMAIN blocks : ~IsSaved(b) => blocks[b].logs = <<>>
    /\ \A b \in DOMAIN blocks : blocks[b].boot <= past.crashes

\* The last block saved since the program started.
LastSaved(a) ==
    IsSaved(a) /\ blocks[a].boot = past.crashes /\ \A c \in a + 1 .. Len(blocks) : ~IsSaved(c)

BlockInv ==
    /\ RollupInv
    /\ SavedBlocksFull
    /\ TxNumsChain
    /\ \A a \in DOMAIN blocks :
           LastSaved(a) => rollup.oriTxId = blocks[a].oriTxNum + Len(blocks[a].logs)

\* At first no block is there and none is begun.
LEMMA InitBlocks == Init => BlockInv
<1> SUFFICES ASSUME Init PROVE BlockInv
  OBVIOUS
<1>1. DOMAIN blocks = {} /\ job.pc = "idle" /\ ~rollup.running
  BY DEF Init, NoJob, NewRollup
<1>2. QED
  BY <1>1 DEF Init, NewRollup, BlockInv, RollupInv, SavedBlocksFull, TxNumsChain

\* The rows of a type-correct state.
LEMMA BlockTypes ==
    ASSUME TypeInv
    PROVE  /\ Len(blocks) \in Nat /\ DOMAIN blocks = 1 .. Len(blocks) /\ blocks \in Seq(BlockRows)
           /\ \A b \in DOMAIN blocks :
                  /\ blocks[b].boot \in Nat /\ blocks[b].oriTxNum \in Nat
                  /\ blocks[b].logs \in Seq(TxIds \cup {Noop})
                  /\ Len(blocks[b].logs) \in Nat
           /\ past.crashes \in Nat /\ past.throws \in Nat /\ past.executions \in [TxIds -> Nat]
           /\ past.lateThrow \in BOOLEAN
           /\ rollup.oriTxId \in Nat /\ rollup.rootFlow \in Nat /\ rollup.payload \in Nat
           /\ rollup.currentTxLogs \in Seq(TxIds) /\ Len(rollup.currentTxLogs) \in Nat
           /\ Len(rollup.currentTxLogs) < NumOfReqs /\ rollup.running \in BOOLEAN
           /\ NumOfReqs \in Nat \ {0}
<1>1. blocks \in Seq(BlockRows) /\ rollup \in RollupType /\ past \in PastType
  BY DEF TypeInv, TypeOK
<1>2. \A b \in DOMAIN blocks : blocks[b] \in BlockRows
  BY <1>1
<1>3. \A b \in DOMAIN blocks :
         /\ blocks[b].boot \in Nat /\ blocks[b].oriTxNum \in Nat
         /\ blocks[b].logs \in Seq(TxIds \cup {Noop})
  BY <1>2 DEF BlockRows
<1>4. \A b \in DOMAIN blocks : Len(blocks[b].logs) \in Nat
  BY <1>3
<1>5. /\ past.crashes \in Nat /\ past.throws \in Nat /\ past.executions \in [TxIds -> Nat]
      /\ past.lateThrow \in BOOLEAN
  BY <1>1 DEF PastType
<1>6. /\ rollup.oriTxId \in Nat /\ rollup.rootFlow \in Nat /\ rollup.payload \in Nat
      /\ rollup.currentTxLogs \in Seq(TxIds) /\ rollup.running \in BOOLEAN
  BY <1>1 DEF RollupType
<1>7. Len(rollup.currentTxLogs) < NumOfReqs
  BY DEF TypeInv, TypeOK
<1>8. QED
  BY <1>1, <1>3, <1>4, <1>5, <1>6, <1>7, SequencingAssumption

\* A step that leaves rows, rollup and restarts alone and takes no job.
LEMMA BlocksStutter ==
    ASSUME BlockInv, rollup' = rollup, blocks' = blocks,
           past'.crashes = past.crashes, past'.lateThrow = past.lateThrow,
           job'.pc = "taken" => job.pc = "taken"
    PROVE  BlockInv'
<1>1. RollupInv'
  BY DEF BlockInv, RollupInv, IsSaved
<1>2. SavedBlocksFull' /\ TxNumsChain'
  BY DEF BlockInv, SavedBlocksFull, TxNumsChain, IsSaved
<1>3. \A a \in DOMAIN blocks' :
           LastSaved(a)' => rollup'.oriTxId = blocks'[a].oriTxNum + Len(blocks'[a].logs)
  BY DEF BlockInv, LastSaved, IsSaved
<1>4. QED
  BY <1>1, <1>2, <1>3 DEF BlockInv

\* What a log does that leaves the block open.
LEMMA LogGoesOn ==
    ASSUME TypeInv, LogRequest, ~IsNearlyFull(Logged(rollup, job.txId))
    PROVE  /\ rollup'.running = rollup.running /\ rollup'.newBlockNumber = rollup.newBlockNumber
           /\ rollup'.oriTxId = rollup.oriTxId
           /\ rollup'.currentTxLogs = Append(rollup.currentTxLogs, job.txId)
           /\ rollup'.rootFlow = rollup.rootFlow + 1 /\ rollup'.payload = rollup.payload + 1
           /\ blocks' = blocks /\ job' = [job EXCEPT !.pc = "done"]
<1>1. job.pc = "taken" /\ rollup' = Logged(rollup, job.txId)
  BY DEF LogRequest
<1>2. QED
  BY <1>1, LoggedIs DEF LogRequest

\* What a log does that ends the block.
LEMMA LogEnds ==
    ASSUME TypeInv, RollupInv, LogRequest, IsNearlyFull(Logged(rollup, job.txId)),
           NEW last, last = Len(blocks)
    PROVE  /\ last \in DOMAIN blocks /\ ~IsSaved(last)
           /\ Len(blocks') = last /\ DOMAIN blocks' = DOMAIN blocks
           /\ \A b \in DOMAIN blocks : b # last => blocks'[b] = blocks[b]
           /\ blocks'[last].blockStatus = "L2EXECUTED" /\ blocks'[last].boot = past.crashes
           /\ blocks'[last].oriTxNum = rollup.oriTxId
           /\ Len(blocks'[last].logs) = NumOfReqs /\ blocks'[last].rootFlow = NumOfReqs + 1
           /\ past.lateThrow \/ blocks'[last].payload = NumOfReqs
           /\ blocks'[last].logs \in Seq(TxIds \cup {Noop})
           /\ \A i \in 1 .. Len(rollup.currentTxLogs) : blocks'[last].logs[i] = rollup.currentTxLogs[i]
           /\ blocks'[last].logs[Len(rollup.currentTxLogs) + 1] = job.txId
           /\ \A i \in Len(rollup.currentTxLogs) + 2 .. NumOfReqs : blocks'[last].logs[i] = Noop
           /\ rollup'.running = FALSE /\ rollup'.oriTxId = rollup.oriTxId + NumOfReqs
           /\ rollup'.currentTxLogs = <<>> /\ rollup'.rootFlow = 0 /\ rollup'.payload = 0
           /\ job' = [job EXCEPT !.pc = "done"] \/ job' = NoJob
<1> DEFINE full == Padded(Logged(rollup, job.txId))
           n == Len(rollup.currentTxLogs)
<1>1. /\ job.pc = "taken" /\ rollup' = Flushed(full)
      /\ blocks' = [blocks EXCEPT ![rollup.newBlockNumber] = SavedBlock(full)]
      /\ job' = [job EXCEPT !.pc = "done"] \/ job' = NoJob
  BY DEF LogRequest
<1>2. /\ full.currentTxLogs \in Seq(TxIds \cup {Noop})
      /\ Len(full.currentTxLogs) = NumOfReqs
      /\ \A i \in 1 .. n : full.currentTxLogs[i] = rollup.currentTxLogs[i]
      /\ full.currentTxLogs[n + 1] = job.txId
      /\ \A i \in n + 2 .. NumOfReqs : full.currentTxLogs[i] = Noop
      /\ full.rootFlow = rollup.rootFlow + (NumOfReqs - n)
      /\ full.payload = rollup.payload + (NumOfReqs - n)
      /\ SavedBlock(full) \in BlockRows
      /\ SavedBlock(full).blockStatus = "L2EXECUTED"
      /\ SavedBlock(full).logs = full.currentTxLogs
      /\ SavedBlock(full).oriTxNum = rollup.oriTxId
      /\ SavedBlock(full).rootFlow = full.rootFlow
      /\ SavedBlock(full).payload = full.payload
      /\ SavedBlock(full).boot = past.crashes
      /\ Flushed(full).running = FALSE
      /\ Flushed(full).oriTxId = rollup.oriTxId + NumOfReqs
      /\ Flushed(full).currentTxLogs = <<>>
      /\ Flushed(full).rootFlow = 0 /\ Flushed(full).payload = 0
  BY <1>1, FullIs, ZenonT(30)
<1> HIDE DEF full
<1>3. /\ rollup.running /\ rollup.rootFlow = n + 1 /\ (past.lateThrow \/ rollup.payload = n)
      /\ rollup.newBlockNumber = last /\ last # 0 /\ ~IsSaved(last)
  BY <1>1 DEF RollupInv
<1>4. /\ blocks \in Seq(BlockRows) /\ last \in DOMAIN blocks
      /\ n \in Nat /\ n < NumOfReqs /\ NumOfReqs \in Nat \ {0}
      /\ rollup.payload \in Nat
  BY <1>3, BlockTypes
<1>5. /\ Len(blocks') = last /\ DOMAIN blocks' = DOMAIN blocks
      /\ \A b \in DOMAIN blocks : b # last => blocks'[b] = blocks[b]
      /\ blocks'[last] = SavedBlock(full)
  BY <1>1, <1>2, <1>3, <1>4, ExceptIs
<1>6. full.rootFlow = NumOfReqs + 1 /\ (past.lateThrow \/ full.payload = NumOfReqs)
  <2>1. \A k \in Nat : (k + 1) + (NumOfReqs - k) = NumOfReqs + 1 /\ k + (NumOfReqs - k) = NumOfReqs
    BY SequencingAssumption
  <2>2. (n + 1) + (NumOfReqs - n) = NumOfReqs + 1 /\ n + (NumOfReqs - n) = NumOfReqs
    BY <1>4, <2>1
  <2>3. QED
    BY <1>2, <1>3, <2>2
<1>7. QED
  BY <1>1, <1>2, <1>3, <1>4, <1>5, <1>6

\* Every step keeps BlockInv.
LEMMA BlockStep == TypeInv /\ BlockInv /\ [Next]_vars => BlockInv'
<1> SUFFICES ASSUME TypeInv, BlockInv, [Next]_vars PROVE BlockInv'
  OBVIOUS
<1>0. /\ Len(blocks) \in Nat /\ DOMAIN blocks = 1 .. Len(blocks) /\ blocks \in Seq(BlockRows)
      /\ \A b \in DOMAIN blocks :
             /\ blocks[b].boot \in Nat /\ blocks[b].oriTxNum \in Nat
             /\ Len(blocks[b].logs) \in Nat
      /\ past.crashes \in Nat /\ past.lateThrow \in BOOLEAN /\ past \in PastType
      /\ rollup.oriTxId \in Nat /\ rollup.rootFlow \in Nat /\ rollup.payload \in Nat
      /\ rollup.currentTxLogs \in Seq(TxIds) /\ Len(rollup.currentTxLogs) \in Nat
      /\ NumOfReqs \in Nat \ {0} /\ rollup \in RollupType
  BY BlockTypes DEF TypeInv
<1>1. CASE InsertRow
  BY <1>1, BlocksStutter DEF InsertRow
<1>2. ASSUME NEW t \in TxIds, CommitRow(t) PROVE BlockInv'
  BY <1>2, BlocksStutter DEF CommitRow
<1>3. ASSUME NEW t \in TxIds, SavePROCESSING(t) PROVE BlockInv'
  <2>1. past'.crashes = past.crashes /\ past'.lateThrow = past.lateThrow
    BY <1>0, <1>3 DEF SavePROCESSING, PastType
  <2>2. QED
    BY <1>3, <2>1, BlocksStutter DEF SavePROCESSING
<1>4. ASSUME NEW h \in Handlers, FindPending(h) PROVE BlockInv'
  <2>1. past'.crashes = past.crashes /\ past'.lateThrow = past.lateThrow
    BY <1>0, <1>4 DEF FindPending, PastType
  <2>2. QED
    BY <1>4, <2>1, BlocksStutter DEF FindPending
<1>5. ASSUME NEW h \in Handlers, MoveCursor(h) PROVE BlockInv'
  BY <1>5, BlocksStutter DEF MoveCursor
<1>6. ASSUME NEW h \in Handlers, AddJob(h) PROVE BlockInv'
  <2>1. past'.crashes = past.crashes /\ past'.lateThrow = past.lateThrow
    BY <1>0, <1>6 DEF AddJob, PastType
  <2>2. QED
    BY <1>6, <2>1, BlocksStutter DEF AddJob
<1>7. CASE TakeJob
  <2>1. CASE rollup.running
    <3>1. RollupInv'
      BY <1>7, <2>1 DEF TakeJob, RollupStarted, BlocksStarted, BlockInv, RollupInv, IsSaved
    <3>2. rollup' = rollup /\ blocks' = blocks /\ past' = past
      BY <1>7, <2>1 DEF TakeJob, RollupStarted, BlocksStarted
    <3>3. SavedBlocksFull' /\ TxNumsChain'
      BY <3>2 DEF BlockInv, SavedBlocksFull, TxNumsChain, IsSaved
    <3>4. \A a \in DOMAIN blocks' :
             LastSaved(a)' => rollup'.oriTxId = blocks'[a].oriTxNum + Len(blocks'[a].logs)
      BY <3>2 DEF BlockInv, LastSaved, IsSaved
    <3>5. QED
      BY <3>1, <3>3, <3>4 DEF BlockInv
  <2>2. CASE ~rollup.running
    <3> DEFINE new == [blockStatus |-> "PROCESSING", logs |-> <<>>, oriTxNum |-> 0,
                       rootFlow |-> 0, payload |-> 0, boot |-> past.crashes]
    <3>0. PICK n \in Nat : n = Len(blocks)
      BY <1>0
    <3>1. past' = past /\ blocks' = Append(blocks, new)
          /\ rollup' = [rollup EXCEPT !.running = TRUE, !.newBlockNumber = n + 1, !.rootFlow = rollup.rootFlow + 1]
      BY <1>7, <2>2, <3>0 DEF TakeJob, RollupStarted, BlocksStarted
    <3>2. new.blockStatus = "PROCESSING" /\ new.logs = <<>> /\ new.boot = past.crashes
      OBVIOUS
    <3> HIDE DEF new
    <3>3. /\ Len(blocks') = n + 1 /\ DOMAIN blocks' = 1 .. n + 1 /\ blocks'[n + 1] = new
          /\ \A b \in DOMAIN blocks : blocks'[b] = blocks[b]
      BY <1>0, <3>0, <3>1
    <3>4. /\ rollup'.running /\ rollup'.newBlockNumber = n + 1 /\ rollup'.rootFlow = 1
          /\ rollup'.currentTxLogs = <<>> /\ rollup'.payload = 0 /\ rollup'.oriTxId = rollup.oriTxId
      BY <1>0, <2>2, <3>1 DEF RollupType, BlockInv, RollupInv
    <3>5. \A b \in DOMAIN blocks' : b \in DOMAIN blocks \/ b = n + 1
      BY <1>0, <3>0, <3>3
    <3>6. \A b \in DOMAIN blocks : IsSaved(b)' <=> IsSaved(b)
      BY <3>3 DEF IsSaved
    <3>7. ~IsSaved(n + 1)' /\ n + 1 \notin DOMAIN blocks
      BY <1>0, <3>0, <3>2, <3>3 DEF IsSaved
    <3>8. RollupInv'
      <4>1. \A b \in DOMAIN blocks' : ~IsSaved(b)' => blocks'[b].logs = <<>>
        BY <3>2, <3>3, <3>5, <3>6 DEF BlockInv, RollupInv
      <4>2. \A b \in DOMAIN blocks' : blocks'[b].boot <= past'.crashes
        BY <1>0, <3>1, <3>2, <3>3, <3>5 DEF BlockInv, RollupInv
      <4>3. Len(rollup'.currentTxLogs) = 0 /\ n + 1 # 0
        BY <1>0, <3>4
      <4>4. Len(blocks') = n + 1 /\ blocks'[n + 1].boot = past'.crashes
            /\ blocks'[n + 1].blockStatus # "L2EXECUTED"
        BY <3>1, <3>2, <3>3
      <4>5. QED
        BY <3>4, <4>1, <4>2, <4>3, <4>4 DEF RollupInv, IsSaved
    <3>9. SavedBlocksFull'
      <4>1. ASSUME NEW b \in DOMAIN blocks', IsSaved(b)'
            PROVE  /\ Len(blocks'[b].logs) = NumOfReqs
                   /\ blocks'[b].rootFlow = NumOfReqs + 1
                   /\ past'.lateThrow \/ blocks'[b].payload = NumOfReqs
                   /\ \A i, j \in 1 .. NumOfReqs :
                         i < j /\ blocks'[b].logs[i] = Noop => blocks'[b].logs[j] = Noop
        <5>1. b \in DOMAIN blocks /\ IsSaved(b) /\ blocks'[b] = blocks[b]
          BY <3>3, <3>5, <3>6, <3>7, <4>1
        <5>2. QED
          BY <3>1, <5>1 DEF BlockInv, SavedBlocksFull
      <4>2. QED
        BY <4>1 DEF SavedBlocksFull
    <3>10. TxNumsChain'
      <4>1. ASSUME NEW a \in DOMAIN blocks', NEW b \in DOMAIN blocks',
                   a < b, IsSaved(a)', IsSaved(b)', blocks'[a].boot = blocks'[b].boot,
                   \A c \in a + 1 .. b - 1 : ~IsSaved(c)'
            PROVE  blocks'[b].oriTxNum = blocks'[a].oriTxNum + Len(blocks'[a].logs)
        <5>1. /\ a \in DOMAIN blocks /\ IsSaved(a) /\ blocks'[a] = blocks[a]
              /\ b \in DOMAIN blocks /\ IsSaved(b) /\ blocks'[b] = blocks[b]
          BY <3>3, <3>5, <3>6, <3>7, <4>1
        <5>2. \A c \in a + 1 .. b - 1 : c \in DOMAIN blocks
          BY <1>0, <3>0, <5>1
        <5>3. \A c \in a + 1 .. b - 1 : ~IsSaved(c)
          BY <3>6, <4>1, <5>2
        <5>4. QED
          BY <4>1, <5>1, <5>3 DEF BlockInv, TxNumsChain
      <4>2. QED
        BY <4>1 DEF TxNumsChain
    <3>11. ASSUME NEW a \in DOMAIN blocks', LastSaved(a)'
           PROVE  rollup'.oriTxId = blocks'[a].oriTxNum + Len(blocks'[a].logs)
      <4>1. a \in DOMAIN blocks /\ IsSaved(a) /\ blocks'[a] = blocks[a]
        BY <3>3, <3>5, <3>6, <3>7, <3>11 DEF LastSaved
      <4>2. \A c \in a + 1 .. n : c \in DOMAIN blocks /\ c \in a + 1 .. n + 1
        BY <1>0, <3>0, <4>1
      <4>3. \A c \in a + 1 .. n : ~IsSaved(c)
        BY <3>3, <3>6, <3>11, <4>2 DEF LastSaved
      <4>4. LastSaved(a)
        BY <3>0, <3>1, <3>11, <4>1, <4>3 DEF LastSaved
      <4>5. QED
        BY <3>4, <4>1, <4>4 DEF BlockInv
    <3>12. QED
      BY <3>8, <3>9, <3>10, <3>11 DEF BlockInv
  <2>3. QED
    BY <2>1, <2>2
<1>8. CASE ThrowRequest
  <2>1. PICK f \in Faults :
            /\ rollup' = [rollup EXCEPT !.payload = IF f = "late" THEN @ + 1 ELSE @]
            /\ past' = [past EXCEPT !.throws = @ + 1, !.lateThrow = @ \/ f = "late"]
    BY <1>8 DEF ThrowRequest
  <2>2. /\ rollup'.running = rollup.running /\ rollup'.newBlockNumber = rollup.newBlockNumber
        /\ rollup'.oriTxId = rollup.oriTxId /\ rollup'.currentTxLogs = rollup.currentTxLogs
        /\ rollup'.rootFlow = rollup.rootFlow
        /\ rollup'.payload = IF f = "late" THEN rollup.payload + 1 ELSE rollup.payload
    BY <1>0, <2>1 DEF RollupType
  <2>3. past'.crashes = past.crashes /\ past'.lateThrow = (past.lateThrow \/ f = "late")
    BY <1>0, <2>1 DEF PastType
  <2>4. job' = NoJob /\ blocks' = blocks /\ rollup.running
    BY <1>8 DEF ThrowRequest, BlockInv, RollupInv
  <2>5. job'.pc # "taken"
    BY <2>4 DEF NoJob
  <2>6. RollupInv'
    BY <2>2, <2>3, <2>4, <2>5 DEF BlockInv, RollupInv, IsSaved
  <2>7. SavedBlocksFull'
    BY <2>3, <2>4 DEF BlockInv, SavedBlocksFull, IsSaved
  <2>8. TxNumsChain'
    BY <2>4 DEF BlockInv, TxNumsChain, IsSaved
  <2>9. \A a \in DOMAIN blocks' :
           LastSaved(a)' => rollup'.oriTxId = blocks'[a].oriTxNum + Len(blocks'[a].logs)
    BY <2>2, <2>3, <2>4 DEF BlockInv, LastSaved, IsSaved
  <2>10. QED
    BY <2>6, <2>7, <2>8, <2>9 DEF BlockInv
<1>9. CASE LogRequest
  <2>1. past'.crashes = past.crashes /\ past'.lateThrow = past.lateThrow /\ job.pc = "taken" /\ rollup.running
    BY <1>0, <1>9 DEF LogRequest, PastType, BlockInv, RollupInv
  <2>2. CASE ~IsNearlyFull(Logged(rollup, job.txId))
    <3>1. /\ rollup'.running = rollup.running /\ rollup'.newBlockNumber = rollup.newBlockNumber
          /\ rollup'.oriTxId = rollup.oriTxId
          /\ rollup'.currentTxLogs = Append(rollup.currentTxLogs, job.txId)
          /\ rollup'.rootFlow = rollup.rootFlow + 1 /\ rollup'.payload = rollup.payload + 1
          /\ blocks' = blocks
      BY <1>9, <2>2, LogGoesOn
    <3>2. Len(rollup'.currentTxLogs) = Len(rollup.currentTxLogs) + 1
      BY <2>1, <3>1, LoggedIs
    <3>3. RollupInv'
      BY <1>0, <2>1, <3>1, <3>2 DEF BlockInv, RollupInv, IsSaved
    <3>4. SavedBlocksFull' /\ TxNumsChain'
      BY <2>1, <3>1 DEF BlockInv, SavedBlocksFull, TxNumsChain, IsSaved
    <3>5. \A a \in DOMAIN blocks' :
             LastSaved(a)' => rollup'.oriTxId = blocks'[a].oriTxNum + Len(blocks'[a].logs)
      BY <2>1, <3>1 DEF BlockInv, LastSaved, IsSaved
    <3>6. QED
      BY <3>3, <3>4, <3>5 DEF BlockInv
  <2>3. CASE IsNearlyFull(Logged(rollup, job.txId))
    <3> DEFINE n == Len(rollup.currentTxLogs)
    <3>0. PICK last \in Nat : last = Len(blocks)
      BY <1>0
    <3>1. /\ last \in DOMAIN blocks /\ ~IsSaved(last)
          /\ Len(blocks') = last /\ DOMAIN blocks' = DOMAIN blocks
          /\ \A b \in DOMAIN blocks : b # last => blocks'[b] = blocks[b]
          /\ blocks'[last].blockStatus = "L2EXECUTED" /\ blocks'[last].boot = past.crashes
          /\ blocks'[last].oriTxNum = rollup.oriTxId
          /\ Len(blocks'[last].logs) = NumOfReqs /\ blocks'[last].rootFlow = NumOfReqs + 1
          /\ past.lateThrow \/ blocks'[last].payload = NumOfReqs
          /\ \A i \in 1 .. n : blocks'[last].logs[i] = rollup.currentTxLogs[i]
          /\ blocks'[last].logs[n + 1] = job.txId
          /\ \A i \in n + 2 .. NumOfReqs : blocks'[last].logs[i] = Noop
          /\ rollup'.running = FALSE /\ rollup'.oriTxId = rollup.oriTxId + NumOfReqs
          /\ rollup'.currentTxLogs = <<>> /\ rollup'.rootFlow = 0 /\ rollup'.payload = 0
          /\ job' = [job EXCEPT !.pc = "done"] \/ job' = NoJob
      BY <1>9, <2>3, <3>0, LogEnds DEF BlockInv
    <3>2. \A b \in DOMAIN blocks : b # last => (IsSaved(b)' <=> IsSaved(b))
      BY <3>1 DEF IsSaved
    <3>3. IsSaved(last)'
      BY <3>1 DEF IsSaved
    <3>4. \A b \in DOMAIN blocks : b \in Nat /\ b <= last
      BY <1>0, <3>0
    <3>5. RollupInv'
      <4>1. job'.pc # "taken"
        BY <2>1, <3>1 DEF NoJob, TypeInv, TypeOK
      <4>2. \A b \in DOMAIN blocks' : ~IsSaved(b)' => blocks'[b].logs = <<>>
        BY <3>1, <3>2, <3>3 DEF BlockInv, RollupInv
      <4>3. \A b \in DOMAIN blocks' : blocks'[b].boot <= past'.crashes
        <5> SUFFICES ASSUME NEW b \in DOMAIN blocks' PROVE blocks'[b].boot <= past'.crashes
          OBVIOUS
        <5>1. CASE b = last
          BY <1>0, <2>1, <3>1, <5>1
        <5>2. CASE b # last
          <6>1. b \in DOMAIN blocks /\ blocks'[b] = blocks[b]
            BY <3>1, <5>2
          <6>2. QED
            BY <2>1, <6>1 DEF BlockInv, RollupInv
        <5>3. QED
          BY <5>1, <5>2
      <4>4. QED
        BY <3>1, <4>1, <4>2, <4>3 DEF RollupInv, IsSaved
    <3>6. SavedBlocksFull'
      <4>1. ASSUME NEW b \in DOMAIN blocks', IsSaved(b)'
            PROVE  /\ Len(blocks'[b].logs) = NumOfReqs
                   /\ blocks'[b].rootFlow = NumOfReqs + 1
                   /\ past'.lateThrow \/ blocks'[b].payload = NumOfReqs
                   /\ \A i, j \in 1 .. NumOfReqs :
                         i < j /\ blocks'[b].logs[i] = Noop => blocks'[b].logs[j] = Noop
        <5>1. CASE b # last
          <6>1. b \in DOMAIN blocks /\ IsSaved(b) /\ blocks'[b] = blocks[b]
            BY <3>1, <3>2, <4>1, <5>1
          <6>2. QED
            BY <2>1, <6>1 DEF BlockInv, SavedBlocksFull
        <5>2. CASE b = last
          <6>1. ASSUME NEW i \in 1 .. NumOfReqs, NEW j \in 1 .. NumOfReqs, i < j, blocks'[last].logs[i] = Noop
                PROVE  blocks'[last].logs[j] = Noop
            <7>1. i \notin 1 .. n
              <8>1. \A k \in 1 .. n : rollup.currentTxLogs[k] \in TxIds
                BY <1>0
              <8>2. QED
                BY <3>1, <6>1, <8>1, SMTT(30) DEF TxIds, Noop
            <7>2. j \in n + 2 .. NumOfReqs
              BY <1>0, <6>1, <7>1
            <7>3. QED
              BY <3>1, <7>2
          <6>2. QED
            BY <2>1, <3>1, <5>2, <6>1
        <5>3. QED
          BY <5>1, <5>2
      <4>2. QED
        BY <4>1 DEF SavedBlocksFull
    <3>7. TxNumsChain'
      <4>1. ASSUME NEW a \in DOMAIN blocks', NEW b \in DOMAIN blocks',
                   a < b, IsSaved(a)', IsSaved(b)', blocks'[a].boot = blocks'[b].boot,
                   \A c \in a + 1 .. b - 1 : ~IsSaved(c)'
            PROVE  blocks'[b].oriTxNum = blocks'[a].oriTxNum + Len(blocks'[a].logs)
        <5>1. a # last /\ a \in DOMAIN blocks /\ IsSaved(a) /\ blocks'[a] = blocks[a] /\ b \in DOMAIN blocks
          BY <3>1, <3>2, <3>4, <4>1
        <5>2. \A c \in a + 1 .. b - 1 : c \in DOMAIN blocks /\ c # last
          BY <1>0, <3>0, <3>1, <3>4, <5>1
        <5>3. \A c \in a + 1 .. b - 1 : ~IsSaved(c)
          BY <3>2, <4>1, <5>2
        <5>4. CASE b # last
          <6>1. IsSaved(b) /\ blocks'[b] = blocks[b]
            BY <3>1, <3>2, <4>1, <5>1, <5>4
          <6>2. QED
            BY <4>1, <5>1, <5>3, <6>1 DEF BlockInv, TxNumsChain
        <5>5. CASE b = last
          <6>1. \A c \in a + 1 .. Len(blocks) : c \in a + 1 .. b - 1 \/ c = last
            <7>1. a \in Nat /\ b \in Nat /\ Len(blocks) = b
              BY <1>0, <3>0, <5>1, <5>5
            <7>2. \A c \in a + 1 .. b : c \in a + 1 .. b - 1 \/ c = b
              BY <7>1
            <7>3. QED
              BY <5>5, <7>1, <7>2
          <6>2. \A c \in a + 1 .. Len(blocks) : ~IsSaved(c)
            BY <3>1, <5>3, <6>1
          <6>3. LastSaved(a)
            BY <3>1, <4>1, <5>1, <5>5, <6>2 DEF LastSaved
          <6>4. QED
            BY <3>1, <5>1, <5>5, <6>3 DEF BlockInv
        <5>6. QED
          BY <5>4, <5>5
      <4>2. QED
        BY <4>1 DEF TxNumsChain
    <3>8. ASSUME NEW a \in DOMAIN blocks', LastSaved(a)'
          PROVE  rollup'.oriTxId = blocks'[a].oriTxNum + Len(blocks'[a].logs)
      <4>1. a = last
        <5>1. a # last => last \in a + 1 .. last
          BY <1>0, <3>0, <3>1, <3>4
        <5>2. QED
          BY <3>1, <3>3, <3>8, <5>1 DEF LastSaved
      <4>2. QED
        BY <3>1, <4>1
    <3>9. QED
      BY <3>5, <3>6, <3>7, <3>8 DEF BlockInv
  <2>4. QED
    BY <2>2, <2>3
<1>10. CASE MarkExecuted
  <2>1. job'.pc # "taken"
    BY <1>10 DEF MarkExecuted, NoJob
  <2>2. QED
    BY <1>10, <2>1, BlocksStutter DEF MarkExecuted
<1>11. CASE Crash
  <2>1. past'.crashes = past.crashes + 1 /\ past'.lateThrow = past.lateThrow
    BY <1>0, <1>11 DEF Crash, PastType
  <2>2. blocks' = blocks /\ rollup' = NewRollup /\ job' = NoJob
    BY <1>11 DEF Crash
  <2>3. job'.pc # "taken" /\ ~rollup'.running
        /\ rollup'.currentTxLogs = <<>> /\ rollup'.rootFlow = 0 /\ rollup'.payload = 0
    BY <2>2 DEF NewRollup, NoJob
  <2>4. \A b \in DOMAIN blocks : blocks[b].boot <= past'.crashes /\ blocks[b].boot # past'.crashes
    BY <1>0, <2>1 DEF BlockInv, RollupInv
  <2>5. RollupInv'
    BY <2>2, <2>3, <2>4 DEF BlockInv, RollupInv, IsSaved
  <2>6. SavedBlocksFull' /\ TxNumsChain'
    BY <2>1, <2>2 DEF BlockInv, SavedBlocksFull, TxNumsChain, IsSaved
  <2>7. \A a \in DOMAIN blocks' : ~LastSaved(a)'
    BY <2>2, <2>4 DEF LastSaved
  <2>8. QED
    BY <2>5, <2>6, <2>7 DEF BlockInv
<1>12. CASE UNCHANGED vars
  BY <1>12, BlocksStutter DEF vars
<1>13. QED
  BY <1>1, <1>2, <1>3, <1>4, <1>5, <1>6, <1>7, <1>8, <1>9, <1>10, <1>11, <1>12
     DEF Next, Dispatcher, Sequencer

\* Every saved block holds NumOfReqs logs with the NOOPs at the end, a root
\* before the first log and after each, and its payload in step unless a request
\* threw late, for any block size, restarts and throws.
THEOREM BlocksFullCorrect == Spec => []SavedBlocksFull
<1>1. BlockInv => SavedBlocksFull
  BY DEF BlockInv
<1>2. QED
  BY <1>1, InitType, InitBlocks, TypeStep, BlockStep, PTL DEF Spec

\* oriTxNum of consecutive blocks saved in one life of the program chains, for
\* any block size and any blocks abandoned between them.
THEOREM TxNumsCorrect == Spec => []TxNumsChain
<1>1. BlockInv => TxNumsChain
  BY DEF BlockInv
<1>2. QED
  BY <1>1, InitType, InitBlocks, TypeStep, BlockStep, PTL DEF Spec

(***************************************************************************)
(* Rows: what the cursor, or a query under way, has passed is on its way,  *)
(* or lost in one of the two ways the property names.                      *)
(***************************************************************************)
Seen(t) == row[t] \notin {"NONE", "INSERTING"}

Passed(t) ==
    \/ t <= currentPendingTxId
    \/ \E h \in Handlers : /\ handler[h].pc = "finding"
                           /\ \E i \in DOMAIN handler[h].found : t <= handler[h].found[i]

Accounted(t) == Waiting(t) \/ t \in saving \/ t \in past.failedAdds \/ t \in past.overtaken

RowsInv ==
    /\ \A t, u \in TxIds : row[t] = "NONE" /\ t < u => row[u] = "NONE"
    /\ currentPendingTxId # 0 => Seen(currentPendingTxId)
    /\ \A t \in TxIds : Waiting(t) \/ t \in saving => Seen(t)
    /\ job.pc # "idle" => job.txId \in saving \/ row[job.txId] # "PENDING"
    /\ \A t \in TxIds : row[t] = "INSERTING" /\ Passed(t) => t \in past.overtaken
    /\ \A t \in TxIds : row[t] = "PENDING" /\ Passed(t) => Accounted(t)

\* The types of what the invariants below speak of.
LEMMA RowTypes ==
    ASSUME TypeInv
    PROVE  /\ row \in [TxIds -> RowStatus] /\ currentPendingTxId \in 0 .. MaxTx
           /\ handler \in [Handlers -> [pc : {"idle", "finding", "adding"}, found : Seq(TxIds)]]
           /\ \A h \in Handlers :
                  /\ handler[h].found \in Seq(TxIds)
                  /\ handler[h].pc \in {"idle", "finding", "adding"}
                  /\ \A i \in DOMAIN handler[h].found : handler[h].found[i] \in TxIds
                  /\ handler[h].pc = "idle" <=> handler[h].found = <<>>
           /\ seqQueue \in Seq(TxIds) /\ \A i \in DOMAIN seqQueue : seqQueue[i] \in TxIds
           /\ job.pc = "idle" <=> job = NoJob
           /\ job.pc = "idle" => job.txId = 0
           /\ job.pc # "idle" => job.txId \in TxIds /\ job.pc \in {"taken", "done"}
           /\ job \in [pc : {"taken", "done"}, txId : TxIds] \cup {NoJob}
           /\ saving \in SUBSET TxIds /\ past \in PastType
           /\ \A t \in TxIds : t \in Nat /\ t # 0 /\ ~ (t <= 0)
<1>1. /\ row \in [TxIds -> RowStatus] /\ currentPendingTxId \in 0 .. MaxTx
      /\ handler \in [Handlers -> [pc : {"idle", "finding", "adding"}, found : Seq(TxIds)]]
      /\ seqQueue \in Seq(TxIds) /\ saving \in SUBSET TxIds /\ past \in PastType
      /\ job \in [pc : {"taken", "done"}, txId : TxIds] \cup {NoJob}
      /\ \A h \in Handlers : handler[h].pc = "idle" <=> handler[h].found = <<>>
  BY DEF TypeInv, TypeOK
<1>2. ASSUME NEW h \in Handlers
      PROVE  /\ handler[h].found \in Seq(TxIds)
             /\ handler[h].pc \in {"idle", "finding", "adding"}
             /\ \A i \in DOMAIN handler[h].found : handler[h].found[i] \in TxIds
  <2>1. handler[h] \in [pc : {"idle", "finding", "adding"}, found : Seq(TxIds)]
    BY <1>1
  <2>2. handler[h].found \in Seq(TxIds) /\ handler[h].pc \in {"idle", "finding", "adding"}
    BY <2>1
  <2>3. QED
    BY <2>2
<1>3. \A i \in DOMAIN seqQueue : seqQueue[i] \in TxIds
  BY <1>1
<1>4. /\ job.pc = "idle" <=> job = NoJob
      /\ job.pc = "idle" => job.txId = 0
      /\ job.pc # "idle" => job.txId \in TxIds /\ job.pc \in {"taken", "done"}
  BY <1>1 DEF NoJob
<1>5. \A t \in TxIds : t \in Nat /\ t # 0 /\ ~ (t <= 0)
  BY DEF TxIds
<1>6. QED
  BY <1>1, <1>2, <1>3, <1>4, <1>5

\* At first no row is there and none is passed.
LEMMA InitRows == Init => RowsInv
<1> SUFFICES ASSUME Init PROVE RowsInv
  OBVIOUS
<1>1. /\ \A t \in TxIds : row[t] = "NONE" /\ t # 0
      /\ \A h \in Handlers : handler[h].pc = "idle" /\ DOMAIN handler[h].found = {}
      /\ DOMAIN seqQueue = {} /\ job.pc = "idle" /\ job.txId = 0 /\ saving = {}
      /\ currentPendingTxId = 0
  BY DEF Init, NoInvocation, NoJob, TxIds
<1>2. \A t \in TxIds : ~Waiting(t)
  BY <1>1 DEF Waiting
<1>3. QED
  BY <1>1, <1>2 DEF RowsInv

\* What is waiting of the rows an invocation found, after one add.
LEMMA AddIs ==
    ASSUME TypeInv, NEW h \in Handlers, AddJob(h)
    PROVE  /\ handler[h].pc = "adding" /\ handler[h].found \in Seq(TxIds) /\ handler[h].found # <<>>
           /\ 1 \in DOMAIN handler[h].found
           /\ Head(handler[h].found) = handler[h].found[1]
           /\ \A g \in Handlers : g # h => handler'[g] = handler[g]
           /\ handler'[h].pc # "finding"
           /\ handler'[h].found = Tail(handler[h].found)
           /\ \A i \in DOMAIN handler'[h].found :
                  /\ i \in Nat /\ i >= 1 /\ i + 1 \in DOMAIN handler[h].found
                  /\ handler'[h].found[i] = handler[h].found[i + 1]
           /\ \A k \in DOMAIN handler[h].found :
                  k = 1 \/ /\ k \in Nat /\ k - 1 \in DOMAIN handler'[h].found
                           /\ handler'[h].found[k - 1] = handler[h].found[k]
           /\ \/ /\ seqQueue' = Append(seqQueue, handler[h].found[1])
                 /\ past' = past
              \/ /\ seqQueue' = seqQueue
                 /\ past' = [past EXCEPT !.failedAdds = @ \cup {handler[h].found[1]}]
<1> DEFINE s == handler[h].found
<1>1. handler[h].pc = "adding" /\ s \in Seq(TxIds) /\ s # <<>>
  BY RowTypes DEF AddJob
<1>2. /\ Len(s) \in Nat \ {0} /\ DOMAIN s = 1 .. Len(s)
      /\ Tail(s) \in Seq(TxIds) /\ DOMAIN Tail(s) = 1 .. (Len(s) - 1)
      /\ \A i \in 1 .. (Len(s) - 1) : Tail(s)[i] = s[i + 1]
      /\ Head(s) = s[1]
  BY <1>1
<1>3. handler' = [handler EXCEPT ![h] =
          IF Tail(s) = <<>> THEN NoInvocation ELSE [pc |-> "adding", found |-> Tail(s)]]
  BY DEF AddJob
<1>4. /\ \A g \in Handlers : g # h => handler'[g] = handler[g]
      /\ handler'[h].pc # "finding" /\ handler'[h].found = Tail(s)
  BY <1>3, RowTypes DEF NoInvocation
<1>5. \/ /\ seqQueue' = Append(seqQueue, s[1])
         /\ past' = past
      \/ /\ seqQueue' = seqQueue
         /\ past' = [past EXCEPT !.failedAdds = @ \cup {s[1]}]
  BY <1>2 DEF AddJob
<1> HIDE DEF s
<1>6. 1 \in DOMAIN s
  BY <1>2
<1>7. \A i \in DOMAIN Tail(s) : i \in Nat /\ i >= 1 /\ i + 1 \in DOMAIN s /\ Tail(s)[i] = s[i + 1]
  BY <1>2
<1>8. ASSUME NEW k \in DOMAIN s, k # 1
      PROVE  k \in Nat /\ k - 1 \in DOMAIN Tail(s) /\ Tail(s)[k - 1] = s[k]
  <2>1. k \in Nat /\ k - 1 \in 1 .. (Len(s) - 1) /\ (k - 1) + 1 = k
    BY <1>2, <1>8
  <2>2. QED
    BY <1>2, <2>1
<1>9. /\ handler[h].pc = "adding" /\ s \in Seq(TxIds) /\ s # <<>>
      /\ 1 \in DOMAIN s /\ Head(s) = s[1]
      /\ \A i \in DOMAIN handler'[h].found :
             /\ i \in Nat /\ i >= 1 /\ i + 1 \in DOMAIN s /\ handler'[h].found[i] = s[i + 1]
      /\ \A k \in DOMAIN s :
             k = 1 \/ /\ k \in Nat /\ k - 1 \in DOMAIN handler'[h].found
                      /\ handler'[h].found[k - 1] = s[k]
  BY <1>1, <1>2, <1>4, <1>6, <1>7, <1>8
<1>10. QED
  BY <1>4, <1>5, <1>9 DEF s

\* What waits after one add waited before, and what waited still does or is lost.
LEMMA AddWaits ==
    ASSUME TypeInv, NEW h \in Handlers, AddJob(h), NEW t \in TxIds
    PROVE  /\ Waiting(t)' => Waiting(t)
           /\ Waiting(t) => Waiting(t)' \/ t \in past'.failedAdds
<1>1. /\ 1 \in DOMAIN handler[h].found
      /\ \A g \in Handlers : g # h => handler'[g] = handler[g]
      /\ \A i \in DOMAIN handler'[h].found :
             i + 1 \in DOMAIN handler[h].found /\ handler'[h].found[i] = handler[h].found[i + 1]
      /\ \A k \in DOMAIN handler[h].found :
             k = 1 \/ /\ k - 1 \in DOMAIN handler'[h].found
                      /\ handler'[h].found[k - 1] = handler[h].found[k]
      /\ \/ /\ seqQueue' = Append(seqQueue, handler[h].found[1])
            /\ past' = past
         \/ /\ seqQueue' = seqQueue
            /\ past' = [past EXCEPT !.failedAdds = @ \cup {handler[h].found[1]}]
  BY AddIs
<1>2. job' = job
  BY DEF AddJob
<1> DEFINE InQueue(q) == \E i \in DOMAIN q : q[i] = t
           first == handler[h].found[1]
<1>3. \/ /\ InQueue(seqQueue') <=> InQueue(seqQueue) \/ first = t
      \/ /\ InQueue(seqQueue') <=> InQueue(seqQueue)
         /\ first \in past'.failedAdds
  <2>1. CASE seqQueue' = Append(seqQueue, handler[h].found[1])
    <3>1. seqQueue \in Seq(TxIds) /\ first \in TxIds
      BY <1>1, RowTypes
    <3> HIDE DEF first
    <3>2. /\ Len(seqQueue) \in Nat /\ DOMAIN seqQueue = 1 .. Len(seqQueue)
          /\ DOMAIN Append(seqQueue, first) = 1 .. (Len(seqQueue) + 1)
          /\ Append(seqQueue, first)[Len(seqQueue) + 1] = first
          /\ \A i \in 1 .. Len(seqQueue) : Append(seqQueue, first)[i] = seqQueue[i]
      BY <3>1
    <3>3. \A i \in 1 .. (Len(seqQueue) + 1) : i \in 1 .. Len(seqQueue) \/ i = Len(seqQueue) + 1
      BY <3>2
    <3>4. \A i \in 1 .. Len(seqQueue) : i \in 1 .. (Len(seqQueue) + 1)
      BY <3>2
    <3>5. Len(seqQueue) + 1 \in 1 .. (Len(seqQueue) + 1)
      BY <3>2
    <3>6. seqQueue' = Append(seqQueue, first)
      BY <2>1 DEF first
    <3>7. InQueue(seqQueue') <=> InQueue(seqQueue) \/ first = t
      BY <3>2, <3>3, <3>4, <3>5, <3>6
    <3>8. QED
      BY <3>7
  <2>2. CASE /\ seqQueue' = seqQueue
             /\ past' = [past EXCEPT !.failedAdds = @ \cup {handler[h].found[1]}]
    BY <2>2, RowTypes DEF PastType
  <2>3. QED
    BY <1>1, <2>1, <2>2
<1> DEFINE InFound(f) == \E i \in DOMAIN f : f[i] = t
<1>4. InFound(handler[h].found) <=> first = t \/ InFound(handler'[h].found)
  BY <1>1
<1>5. (\E g \in Handlers : InFound(handler[g].found)) <=>
          first = t \/ \E g \in Handlers : InFound(handler'[g].found)
  <2> HIDE DEF InFound, first
  <2>1. \A g \in Handlers : g # h => (InFound(handler[g].found) <=> InFound(handler'[g].found))
    BY <1>1
  <2>2. QED
    BY <1>4, <2>1
<1>6. Waiting(t) <=> InQueue(seqQueue) \/ (\E g \in Handlers : InFound(handler[g].found)) \/ job.txId = t
  BY DEF Waiting
<1>7. Waiting(t)' <=> InQueue(seqQueue') \/ (\E g \in Handlers : InFound(handler'[g].found)) \/ job.txId = t
  BY <1>2 DEF Waiting
<1> HIDE DEF InQueue, InFound, first
<1>8. QED
  BY <1>3, <1>5, <1>6, <1>7

\* A step after which the job is gone, and nothing else of what RowsInv speaks of.
LEMMA JobGone ==
    ASSUME TypeInv, RowsInv, job.pc # "idle",
           job' = NoJob \/ job' = [job EXCEPT !.pc = "done"],
           row' = row, currentPendingTxId' = currentPendingTxId, handler' = handler,
           seqQueue' = seqQueue, saving' = saving,
           past'.failedAdds = past.failedAdds, past'.overtaken = past.overtaken
    PROVE  RowsInv'
<1>1. job'.pc # "idle" => job'.txId = job.txId
  BY RowTypes DEF NoJob
<1>2. \A t \in TxIds : Waiting(t)' => Waiting(t)
  <2>1. \A t \in TxIds : job'.txId = t => job.txId = t
    BY RowTypes DEF NoJob
  <2>2. QED
    BY <2>1 DEF Waiting
<1>3. \A t \in TxIds : Waiting(t) => Waiting(t)' \/ job.txId = t
  BY DEF Waiting
<1>4. \A t \in TxIds : Passed(t)' <=> Passed(t)
  BY DEF Passed
<1>5. \A t \in TxIds : row[t] = "PENDING" /\ Passed(t) => Accounted(t)'
  BY <1>3 DEF RowsInv, Accounted
<1>6. \A t \in TxIds : Seen(t)' <=> Seen(t)
  BY DEF Seen
<1>7. \A t \in TxIds : Waiting(t)' \/ t \in saving' => Seen(t)'
  BY <1>2, <1>6 DEF RowsInv
<1>8. currentPendingTxId' # 0 => Seen(currentPendingTxId)'
  BY DEF RowsInv, Seen
<1>9. QED
  BY <1>1, <1>4, <1>5, <1>7, <1>8 DEF RowsInv

\* A query: what it finds was not waited for before, and what it sees is found.
LEMMA QueryRows ==
    ASSUME TypeInv, RowsInv, NEW h \in Handlers, FindPending(h)
    PROVE  RowsInv'
<1>1. PICK s : s = PendingAfter(currentPendingTxId)
  OBVIOUS
<1>2. /\ handler[h].pc = "idle" /\ handler' = [handler EXCEPT ![h] = [pc |-> "finding", found |-> s]]
      /\ past' = [past EXCEPT
            !.overlapped = @ \/ \E g \in Handlers : handler[g].pc = "finding",
            !.overtaken = @ \cup {t \in TxIds : /\ row[t] = "INSERTING"
                                                /\ \E i \in DOMAIN s : s[i] > t}]
      /\ row' = row /\ currentPendingTxId' = currentPendingTxId /\ seqQueue' = seqQueue
      /\ job' = job /\ saving' = saving
  BY <1>1 DEF FindPending
<1>3. /\ s \in Seq(TxIds)
      /\ \A i \in DOMAIN s : s[i] > currentPendingTxId /\ row[s[i]] = "PENDING"
      /\ \A t \in TxIds : t > currentPendingTxId /\ row[t] = "PENDING" => \E i \in DOMAIN s : s[i] = t
  BY <1>1, PendingIs
<1>4. /\ handler'[h].pc = "finding" /\ handler'[h].found = s
      /\ \A g \in Handlers : g # h => handler'[g] = handler[g]
  BY <1>2, RowTypes
<1>5. /\ past'.failedAdds = past.failedAdds
      /\ past'.overtaken = past.overtaken \cup {t \in TxIds : /\ row[t] = "INSERTING"
                                                              /\ \E i \in DOMAIN s : s[i] > t}
  BY <1>2, RowTypes DEF PastType
<1>6. DOMAIN handler[h].found = {} /\ handler[h].pc # "finding"
  BY <1>2, RowTypes
<1>7. \A t \in TxIds : Waiting(t)' <=> Waiting(t) \/ \E i \in DOMAIN s : s[i] = t
  BY <1>2, <1>4, <1>6 DEF Waiting
<1>8. \A t \in TxIds : Passed(t)' <=> Passed(t) \/ \E i \in DOMAIN s : t <= s[i]
  BY <1>2, <1>4, <1>6 DEF Passed
<1>9. \A i \in DOMAIN s : s[i] \in TxIds /\ s[i] \in Nat
  BY <1>3, RowTypes
<1>10. \A t \in TxIds : Waiting(t)' \/ t \in saving => Seen(t)
  BY <1>3, <1>7 DEF RowsInv, Seen
<1>11. ASSUME NEW t \in TxIds, row[t] = "INSERTING", Passed(t)'
       PROVE  t \in past'.overtaken
  <2>1. CASE Passed(t)
    BY <1>5, <1>11, <2>1 DEF RowsInv
  <2>2. ASSUME NEW i \in DOMAIN s, t <= s[i] PROVE t \in past'.overtaken
    <3>1. t # s[i]
      BY <1>3, <1>11
    <3>2. s[i] > t
      BY <1>9, <2>2, <3>1, RowTypes
    <3>3. QED
      BY <1>5, <1>11, <3>2
  <2>3. QED
    BY <1>8, <1>11, <2>1, <2>2
<1>12. ASSUME NEW t \in TxIds, row[t] = "PENDING", Passed(t)'
       PROVE  Accounted(t)'
  <2>1. CASE Passed(t)
    BY <1>2, <1>5, <1>7, <1>12, <2>1 DEF RowsInv, Accounted
  <2>2. CASE t > currentPendingTxId
    BY <1>3, <1>7, <1>12, <2>2 DEF Accounted
  <2>3. t <= currentPendingTxId \/ t > currentPendingTxId
    BY RowTypes, SequencingAssumption
  <2>4. QED
    BY <2>1, <2>2, <2>3 DEF Passed
<1>13. QED
  BY <1>2, <1>10, <1>11, <1>12 DEF RowsInv, Seen

\* The cursor moves to the last row found: what it passes was passed already.
LEMMA CursorRows ==
    ASSUME TypeInv, RowsInv, NEW h \in Handlers, MoveCursor(h)
    PROVE  RowsInv'
<1>1. /\ handler[h].pc = "finding" /\ handler' = [handler EXCEPT ![h] = [handler[h] EXCEPT !.pc = "adding"]]
      /\ currentPendingTxId' = handler[h].found[Len(handler[h].found)]
      /\ row' = row /\ seqQueue' = seqQueue /\ job' = job /\ saving' = saving /\ past' = past
  BY DEF MoveCursor, CursorAfter
<1>2. /\ handler'[h].pc = "adding" /\ handler'[h].found = handler[h].found
      /\ \A g \in Handlers : g # h => handler'[g] = handler[g]
  <2>1. handler[h] \in [pc : {"idle", "finding", "adding"}, found : Seq(TxIds)]
    BY RowTypes
  <2>2. QED
    BY <1>1, <2>1, RowTypes
<1>3. Len(handler[h].found) \in DOMAIN handler[h].found
  <2>1. handler[h].found \in Seq(TxIds) /\ handler[h].found # <<>>
    BY <1>1, RowTypes
  <2>2. QED
    BY <2>1
<1>4. \A t \in TxIds : Waiting(t)' <=> Waiting(t)
  BY <1>1, <1>2 DEF Waiting
<1>5. \A t \in TxIds : Passed(t)' => Passed(t)
  BY <1>1, <1>2, <1>3 DEF Passed
<1>6. currentPendingTxId' \in TxIds /\ Waiting(currentPendingTxId')
  BY <1>1, <1>3, RowTypes DEF Waiting
<1>7. Seen(currentPendingTxId')
  BY <1>6 DEF RowsInv
<1>8. QED
  BY <1>1, <1>4, <1>5, <1>7 DEF RowsInv, Seen, Accounted

\* The elements of a concatenation are those of its parts.
LEMMA ConcatIs ==
    ASSUME NEW a \in Seq(TxIds), NEW b \in Seq(TxIds)
    PROVE  \A k \in DOMAIN (a \o b) :
               \/ k \in DOMAIN a /\ (a \o b)[k] = a[k]
               \/ \E i \in DOMAIN b : (a \o b)[k] = b[i]
<1>1. Len(a) \in Nat /\ Len(b) \in Nat /\ DOMAIN a = 1 .. Len(a) /\ DOMAIN b = 1 .. Len(b)
  OBVIOUS
<1>2. DOMAIN (a \o b) = 1 .. (Len(a) + Len(b))
  OBVIOUS
<1>3. ASSUME NEW k \in DOMAIN (a \o b), k \notin DOMAIN a PROVE \E i \in DOMAIN b : (a \o b)[k] = b[i]
  <2>1. k - Len(a) \in DOMAIN b /\ (a \o b)[k] = b[k - Len(a)]
    BY <1>1, <1>2, <1>3
  <2>2. QED
    BY <2>1
<1>4. \A k \in DOMAIN a : (a \o b)[k] = a[k]
  BY <1>1, <1>2
<1>5. QED
  BY <1>3, <1>4

\* Every step keeps RowsInv.
LEMMA RowsStep == TypeInv /\ RowsInv /\ [Next]_vars => RowsInv'
<1> SUFFICES ASSUME TypeInv, RowsInv, [Next]_vars PROVE RowsInv'
  OBVIOUS
<1>0. /\ row \in [TxIds -> RowStatus] /\ currentPendingTxId \in 0 .. MaxTx /\ MaxTx \in Nat
      /\ past \in PastType
      /\ \A t \in TxIds : t \in Nat /\ t # 0 /\ ~ (t <= 0)
      /\ TxIds = 1 .. MaxTx
  BY RowTypes, SequencingAssumption DEF TxIds
<1>1. CASE InsertRow
  <2>1. PICK u \in TxIds : /\ row[u] = "NONE" /\ \A v \in 1 .. u - 1 : row[v] # "NONE"
                           /\ row' = [row EXCEPT ![u] = "INSERTING"]
    BY <1>1 DEF InsertRow
  <2>2. /\ currentPendingTxId' = currentPendingTxId /\ handler' = handler /\ seqQueue' = seqQueue
        /\ job' = job /\ saving' = saving /\ past' = past
    BY <1>1 DEF InsertRow
  <2>3. \A t \in TxIds : row'[t] = IF t = u THEN "INSERTING" ELSE row[t]
    BY <1>0, <2>1
  <2>4. \A t \in TxIds : (Waiting(t)' <=> Waiting(t)) /\ (Passed(t)' <=> Passed(t))
    BY <2>2 DEF Waiting, Passed
  <2>5. ~Seen(u) /\ \A t \in TxIds : Seen(t) => Seen(t)' /\ t # u
    BY <2>1, <2>3 DEF Seen
  <2>6. \A t \in TxIds : Seen(t) => ~ (u <= t)
    <3> SUFFICES ASSUME NEW t \in TxIds, Seen(t), u <= t PROVE FALSE
      OBVIOUS
    <3>1. u < t
      BY <1>0, <2>5
    <3>2. row[t] = "NONE"
      BY <2>1, <3>1 DEF RowsInv
    <3>3. QED
      BY <3>2 DEF Seen
  <2>7. ~Passed(u)
    <3>1. ~ (u <= currentPendingTxId)
      <4>1. currentPendingTxId # 0 => currentPendingTxId \in TxIds
        BY <1>0
      <4>2. QED
        BY <1>0, <2>6, <4>1 DEF RowsInv
    <3>2. \A h \in Handlers : \A i \in DOMAIN handler[h].found : ~ (u <= handler[h].found[i])
      <4>1. \A h \in Handlers : \A i \in DOMAIN handler[h].found :
               handler[h].found[i] \in TxIds /\ Waiting(handler[h].found[i])
        BY RowTypes DEF Waiting
      <4>2. QED
        BY <2>6, <4>1 DEF RowsInv
    <3>3. QED
      BY <3>1, <3>2 DEF Passed
  <2>8. \A t, v \in TxIds : row'[t] = "NONE" /\ t < v => row'[v] = "NONE"
    <3> SUFFICES ASSUME NEW t \in TxIds, NEW v \in TxIds, row'[t] = "NONE", t < v PROVE row'[v] = "NONE"
      OBVIOUS
    <3>1. row[t] = "NONE" /\ row[v] = "NONE" /\ t # u
      BY <2>3 DEF RowsInv
    <3>2. v # u
      <4>1. v = u => t \in 1 .. u - 1
        BY <1>0
      <4>2. QED
        BY <2>1, <3>1, <4>1
    <3>3. QED
      BY <2>3, <3>1, <3>2
  <2>9. currentPendingTxId # 0 => currentPendingTxId \in TxIds
    BY <1>0
  <2>10. currentPendingTxId' # 0 => Seen(currentPendingTxId)'
    <3>1. currentPendingTxId # 0 => row'[currentPendingTxId] \notin {"NONE", "INSERTING"}
      BY <2>3, <2>5, <2>9 DEF RowsInv, Seen
    <3>2. QED
      BY <2>2, <3>1 DEF Seen
  <2>11. \A t \in TxIds : Waiting(t)' \/ t \in saving' => Seen(t)'
    BY <2>2, <2>4, <2>5 DEF RowsInv
  <2>12. job'.pc # "idle" => job'.txId \in saving' \/ row'[job'.txId] # "PENDING"
    BY <2>2, <2>3, RowTypes DEF RowsInv
  <2>13. \A t \in TxIds : row'[t] = "INSERTING" /\ Passed(t)' => t \in past'.overtaken
    BY <2>2, <2>3, <2>4, <2>7 DEF RowsInv
  <2>14. \A t \in TxIds : row'[t] = "PENDING" /\ Passed(t)' => Accounted(t)'
    BY <2>2, <2>3, <2>4 DEF RowsInv, Accounted
  <2>15. QED
    BY <2>8, <2>10, <2>11, <2>12, <2>13, <2>14 DEF RowsInv
<1>2. ASSUME NEW u \in TxIds, CommitRow(u) PROVE RowsInv'
  <2>1. row[u] = "INSERTING" /\ \A t \in TxIds : row'[t] = IF t = u THEN "PENDING" ELSE row[t]
    BY <1>0, <1>2 DEF CommitRow
  <2>2. /\ currentPendingTxId' = currentPendingTxId /\ handler' = handler /\ seqQueue' = seqQueue
        /\ job' = job /\ saving' = saving /\ past' = past
    BY <1>2 DEF CommitRow
  <2>3. \A t \in TxIds : (Waiting(t)' <=> Waiting(t)) /\ (Passed(t)' <=> Passed(t))
    BY <2>2 DEF Waiting, Passed
  <2>4. \A t \in TxIds : Seen(t) => t # u /\ row'[t] \notin {"NONE", "INSERTING"} /\ row'[t] = row[t]
    BY <2>1 DEF Seen
  <2>5. \A t, v \in TxIds : row'[t] = "NONE" /\ t < v => row'[v] = "NONE"
    <3> SUFFICES ASSUME NEW t \in TxIds, NEW v \in TxIds, row'[t] = "NONE", t < v PROVE row'[v] = "NONE"
      OBVIOUS
    <3>1. row[v] = "NONE"
      BY <2>1 DEF RowsInv
    <3>2. QED
      BY <2>1, <3>1
  <2>6. currentPendingTxId' # 0 => Seen(currentPendingTxId)'
    <3>1. currentPendingTxId # 0 => currentPendingTxId \in TxIds
      BY <1>0
    <3>2. QED
      BY <2>2, <2>4, <3>1 DEF RowsInv, Seen
  <2>7. \A t \in TxIds : Waiting(t)' \/ t \in saving' => Seen(t)'
    BY <2>2, <2>3, <2>4 DEF RowsInv, Seen
  <2>8. job'.pc # "idle" => job'.txId \in saving' \/ row'[job'.txId] # "PENDING"
    <3>1. job.pc # "idle" => job.txId \in TxIds /\ Seen(job.txId)
      BY RowTypes DEF RowsInv, Waiting
    <3>2. QED
      BY <2>2, <2>4, <3>1 DEF RowsInv
  <2>9. \A t \in TxIds : row'[t] = "INSERTING" /\ Passed(t)' => t \in past'.overtaken
    BY <2>1, <2>2, <2>3 DEF RowsInv
  <2>10. \A t \in TxIds : row'[t] = "PENDING" /\ Passed(t)' => Accounted(t)'
    BY <2>1, <2>2, <2>3 DEF RowsInv, Accounted
  <2>11. QED
    BY <2>5, <2>6, <2>7, <2>8, <2>9, <2>10 DEF RowsInv
<1>3. ASSUME NEW u \in TxIds, SavePROCESSING(u) PROVE RowsInv'
  <2>1. u \in saving /\ saving' = saving \ {u}
        /\ \A t \in TxIds : row'[t] = IF t = u THEN "PROCESSING" ELSE row[t]
    BY <1>0, <1>3 DEF SavePROCESSING
  <2>2. /\ currentPendingTxId' = currentPendingTxId /\ handler' = handler /\ seqQueue' = seqQueue
        /\ job' = job /\ past'.failedAdds = past.failedAdds /\ past'.overtaken = past.overtaken
    BY <1>0, <1>3 DEF SavePROCESSING, PastType
  <2>3. \A t \in TxIds : (Waiting(t)' <=> Waiting(t)) /\ (Passed(t)' <=> Passed(t))
    BY <2>2 DEF Waiting, Passed
  <2>4. \A t \in TxIds : Seen(t) => row'[t] \notin {"NONE", "INSERTING"}
    BY <2>1 DEF Seen
  <2>5. \A t, v \in TxIds : row'[t] = "NONE" /\ t < v => row'[v] = "NONE"
    <3> SUFFICES ASSUME NEW t \in TxIds, NEW v \in TxIds, row'[t] = "NONE", t < v PROVE row'[v] = "NONE"
      OBVIOUS
    <3>1. row[v] = "NONE"
      BY <2>1 DEF RowsInv
    <3>2. Seen(u)
      BY <2>1 DEF RowsInv
    <3>3. QED
      BY <2>1, <3>1, <3>2 DEF Seen
  <2>6. currentPendingTxId' # 0 => Seen(currentPendingTxId)'
    <3>1. currentPendingTxId # 0 => currentPendingTxId \in TxIds
      BY <1>0
    <3>2. QED
      BY <2>2, <2>4, <3>1 DEF RowsInv, Seen
  <2>7. \A t \in TxIds : Waiting(t)' \/ t \in saving' => Seen(t)'
    BY <2>1, <2>3, <2>4 DEF RowsInv, Seen
  <2>8. job'.pc # "idle" => job'.txId \in saving' \/ row'[job'.txId] # "PENDING"
    BY <2>1, <2>2, RowTypes DEF RowsInv
  <2>9. \A t \in TxIds : row'[t] = "INSERTING" /\ Passed(t)' => t \in past'.overtaken
    BY <2>1, <2>2, <2>3 DEF RowsInv
  <2>10. \A t \in TxIds : row'[t] = "PENDING" /\ Passed(t)' => Accounted(t)'
    BY <2>1, <2>2, <2>3 DEF RowsInv, Accounted
  <2>11. QED
    BY <2>5, <2>6, <2>7, <2>8, <2>9, <2>10 DEF RowsInv
<1>4. ASSUME NEW h \in Handlers, FindPending(h) PROVE RowsInv'
  BY <1>4, QueryRows
<1>5. ASSUME NEW h \in Handlers, MoveCursor(h) PROVE RowsInv'
  BY <1>5, CursorRows
<1>6. ASSUME NEW h \in Handlers, AddJob(h) PROVE RowsInv'
  <2>1. /\ row' = row /\ currentPendingTxId' = currentPendingTxId /\ job' = job /\ saving' = saving
        /\ past.failedAdds \subseteq past'.failedAdds /\ past'.overtaken = past.overtaken
    BY <1>0, <1>6 DEF AddJob, PastType
  <2>2. \A t \in TxIds : /\ Waiting(t)' => Waiting(t)
                         /\ Waiting(t) => Waiting(t)' \/ t \in past'.failedAdds
    BY <1>6, AddWaits
  <2>3. \A t \in TxIds : Passed(t)' => Passed(t)
    <3>1. handler'[h].pc # "finding" /\ \A g \in Handlers : g # h => handler'[g] = handler[g]
      BY <1>6, AddIs
    <3>2. QED
      BY <2>1, <3>1 DEF Passed
  <2>4. \A t \in TxIds : Accounted(t) => Accounted(t)'
    BY <2>1, <2>2 DEF Accounted
  <2>5. QED
    BY <2>1, <2>2, <2>3, <2>4 DEF RowsInv, Seen
<1>7. CASE TakeJob
  <2>1. /\ job.pc = "idle" /\ seqQueue # <<>> /\ job' = [pc |-> "taken", txId |-> Head(seqQueue)]
        /\ seqQueue' = Tail(seqQueue) /\ saving' = saving \cup {Head(seqQueue)}
        /\ row' = row /\ currentPendingTxId' = currentPendingTxId /\ handler' = handler /\ past' = past
    BY <1>7 DEF TakeJob
  <2>2. /\ Head(seqQueue) = seqQueue[1] /\ 1 \in DOMAIN seqQueue
        /\ \A i \in DOMAIN Tail(seqQueue) : i + 1 \in DOMAIN seqQueue /\ Tail(seqQueue)[i] = seqQueue[i + 1]
        /\ \A k \in DOMAIN seqQueue : k = 1 \/ /\ k - 1 \in DOMAIN Tail(seqQueue)
                                               /\ Tail(seqQueue)[k - 1] = seqQueue[k]
    <3>1. seqQueue \in Seq(TxIds) /\ seqQueue # <<>>
      BY <2>1, RowTypes
    <3>2. /\ Len(seqQueue) \in Nat \ {0} /\ DOMAIN seqQueue = 1 .. Len(seqQueue)
          /\ DOMAIN Tail(seqQueue) = 1 .. (Len(seqQueue) - 1)
          /\ \A i \in 1 .. (Len(seqQueue) - 1) : Tail(seqQueue)[i] = seqQueue[i + 1]
          /\ Head(seqQueue) = seqQueue[1]
      BY <3>1
    <3>3. \A k \in 1 .. Len(seqQueue) : k = 1 \/ k - 1 \in 1 .. (Len(seqQueue) - 1)
      BY <3>2
    <3>4. \A k \in 1 .. Len(seqQueue) : (k - 1) + 1 = k
      BY <3>2
    <3>5. \A i \in 1 .. (Len(seqQueue) - 1) : i + 1 \in 1 .. Len(seqQueue)
      BY <3>2
    <3>6. 1 \in DOMAIN seqQueue
      BY <3>2
    <3>7. QED
      BY <3>2, <3>3, <3>4, <3>5, <3>6
  <2>3. job.txId = 0 /\ job'.txId = seqQueue[1] /\ seqQueue[1] \in TxIds
    BY <2>1, <2>2, RowTypes
  <2>4. \A t \in TxIds : (\E i \in DOMAIN seqQueue : seqQueue[i] = t) <=>
           job'.txId = t \/ \E i \in DOMAIN seqQueue' : seqQueue'[i] = t
    <3> SUFFICES ASSUME NEW t \in TxIds
                 PROVE  (\E i \in DOMAIN seqQueue : seqQueue[i] = t) <=>
                            seqQueue[1] = t \/ \E i \in DOMAIN Tail(seqQueue) : Tail(seqQueue)[i] = t
      BY <2>1, <2>3
    <3>1. ASSUME NEW k \in DOMAIN seqQueue, seqQueue[k] = t
          PROVE  seqQueue[1] = t \/ \E i \in DOMAIN Tail(seqQueue) : Tail(seqQueue)[i] = t
      <4>1. CASE k = 1
        BY <3>1, <4>1
      <4>2. CASE k # 1
        <5>1. k - 1 \in DOMAIN Tail(seqQueue) /\ Tail(seqQueue)[k - 1] = t
          BY <2>2, <3>1, <4>2
        <5>2. QED
          BY <5>1
      <4>3. QED
        BY <4>1, <4>2
    <3>2. ASSUME NEW i \in DOMAIN Tail(seqQueue), Tail(seqQueue)[i] = t
          PROVE  \E k \in DOMAIN seqQueue : seqQueue[k] = t
      <4>1. i + 1 \in DOMAIN seqQueue /\ seqQueue[i + 1] = t
        BY <2>2, <3>2
      <4>2. QED
        BY <4>1
    <3>3. 1 \in DOMAIN seqQueue
      BY <2>2
    <3>4. QED
      BY <3>1, <3>2, <3>3
  <2>5. \A t \in TxIds : Waiting(t)' <=> Waiting(t)
    BY <1>0, <2>1, <2>3, <2>4 DEF Waiting
  <2>6. \A t \in TxIds : Passed(t)' <=> Passed(t)
    BY <2>1 DEF Passed
  <2>7. Waiting(seqQueue[1])
    BY <2>2 DEF Waiting
  <2>8. \A t \in TxIds : Waiting(t)' \/ t \in saving' => Seen(t)'
    BY <2>1, <2>2, <2>3, <2>5, <2>7 DEF RowsInv, Seen
  <2>9. job'.txId \in saving'
    BY <2>1
  <2>10. \A t \in TxIds : Accounted(t) => Accounted(t)'
    BY <2>1, <2>5 DEF Accounted
  <2>11. QED
    BY <2>1, <2>6, <2>8, <2>9, <2>10 DEF RowsInv, Seen
<1>8. CASE ThrowRequest
  <2>1. past'.failedAdds = past.failedAdds /\ past'.overtaken = past.overtaken
    BY <1>0, <1>8 DEF ThrowRequest, PastType
  <2>2. QED
    BY <1>8, <2>1, JobGone DEF ThrowRequest
<1>9. CASE LogRequest
  <2>1. past'.failedAdds = past.failedAdds /\ past'.overtaken = past.overtaken
    BY <1>0, <1>9 DEF LogRequest, PastType
  <2>2. job' = NoJob \/ job' = [job EXCEPT !.pc = "done"]
    BY <1>9 DEF LogRequest
  <2>3. QED
    BY <1>9, <2>1, <2>2, JobGone DEF LogRequest
<1>10. CASE MarkExecuted
  <2>1. /\ job.pc = "done" /\ job' = NoJob /\ currentPendingTxId' = currentPendingTxId
        /\ handler' = handler /\ seqQueue' = seqQueue /\ saving' = saving /\ past' = past
        /\ row' = [row EXCEPT ![job.txId] = "L2EXECUTED"]
    BY <1>10 DEF MarkExecuted
  <2>2. PICK u \in TxIds : u = job.txId
    BY <2>1, RowTypes
  <2>3. \A t \in TxIds : row'[t] = IF t = u THEN "L2EXECUTED" ELSE row[t]
    BY <1>0, <2>1, <2>2
  <2>4. job'.pc = "idle" /\ job'.txId = 0
    BY <2>1 DEF NoJob
  <2>5. \A t \in TxIds : (Waiting(t)' => Waiting(t)) /\ (Waiting(t) => Waiting(t)' \/ t = u)
    BY <1>0, <2>1, <2>2, <2>4 DEF Waiting
  <2>6. \A t \in TxIds : Passed(t)' <=> Passed(t)
    BY <2>1 DEF Passed
  <2>7. Seen(u)
    BY <2>2 DEF RowsInv, Waiting
  <2>8. \A t \in TxIds : Seen(t) => row'[t] \notin {"NONE", "INSERTING"}
    BY <2>3 DEF Seen
  <2>9. \A t, v \in TxIds : row'[t] = "NONE" /\ t < v => row'[v] = "NONE"
    <3> SUFFICES ASSUME NEW t \in TxIds, NEW v \in TxIds, row'[t] = "NONE", t < v PROVE row'[v] = "NONE"
      OBVIOUS
    <3>1. row[v] = "NONE"
      BY <2>3 DEF RowsInv
    <3>2. QED
      BY <2>3, <2>7, <3>1 DEF Seen
  <2>10. currentPendingTxId' # 0 => Seen(currentPendingTxId)'
    <3>1. currentPendingTxId # 0 => currentPendingTxId \in TxIds
      BY <1>0
    <3>2. QED
      BY <2>1, <2>8, <3>1 DEF RowsInv, Seen
  <2>11. \A t \in TxIds : Waiting(t)' \/ t \in saving' => Seen(t)'
    BY <2>1, <2>5, <2>8 DEF RowsInv, Seen
  <2>12. \A t \in TxIds : row'[t] = "INSERTING" /\ Passed(t)' => t \in past'.overtaken
    BY <2>1, <2>3, <2>6 DEF RowsInv
  <2>13. \A t \in TxIds : row'[t] = "PENDING" /\ Passed(t)' => Accounted(t)'
    BY <2>1, <2>3, <2>5, <2>6 DEF RowsInv, Accounted
  <2>14. QED
    BY <2>4, <2>9, <2>10, <2>11, <2>12, <2>13 DEF RowsInv
<1>11. CASE Crash
  <2>1. /\ row' = row /\ currentPendingTxId' = 0 /\ handler' = [h \in Handlers |-> NoInvocation]
        /\ job' = NoJob /\ saving' = {}
        /\ seqQueue' = IF job.pc = "idle" THEN seqQueue ELSE <<job.txId>> \o seqQueue
    BY <1>11 DEF Crash
  <2>2. \A h \in Handlers : handler'[h].pc = "idle" /\ DOMAIN handler'[h].found = {}
    BY <2>1 DEF NoInvocation
  <2>3. job'.pc = "idle" /\ job'.txId = 0
    BY <2>1 DEF NoJob
  <2>4. \A t \in TxIds : ~Passed(t)'
    BY <1>0, <2>1, <2>2 DEF Passed
  <2>5. \A i \in DOMAIN seqQueue' : seqQueue'[i] = job.txId \/ \E k \in DOMAIN seqQueue : seqQueue'[i] = seqQueue[k]
    <3>1. CASE job.pc = "idle"
      BY <2>1, <3>1
    <3>2. CASE job.pc # "idle"
      <4>1. <<job.txId>> \in Seq(TxIds) /\ seqQueue \in Seq(TxIds)
        BY <3>2, RowTypes
      <4>2. \A i \in DOMAIN <<job.txId>> : <<job.txId>>[i] = job.txId
        OBVIOUS
      <4>3. seqQueue' = <<job.txId>> \o seqQueue
        BY <2>1, <3>2
      <4> DEFINE one == <<job.txId>>
      <4> HIDE DEF one
      <4>4. \A i \in DOMAIN (one \o seqQueue) :
               \/ i \in DOMAIN one /\ (one \o seqQueue)[i] = one[i]
               \/ \E k \in DOMAIN seqQueue : (one \o seqQueue)[i] = seqQueue[k]
        BY <4>1, ConcatIs DEF one
      <4>5. QED
        BY <4>2, <4>3, <4>4 DEF one
    <3>3. QED
      BY <3>1, <3>2
  <2>6. \A t \in TxIds : Waiting(t)' => Waiting(t)
    BY <1>0, <2>2, <2>3, <2>5 DEF Waiting
  <2>7. \A t \in TxIds : Waiting(t)' \/ t \in saving' => Seen(t)'
    BY <2>1, <2>6 DEF RowsInv, Seen
  <2>8. QED
    BY <2>1, <2>3, <2>4, <2>7 DEF RowsInv
<1>12. CASE UNCHANGED vars
  BY <1>12 DEF vars, RowsInv, Seen, Passed, Accounted, Waiting
<1>13. QED
  BY <1>1, <1>2, <1>3, <1>4, <1>5, <1>6, <1>7, <1>8, <1>9, <1>10, <1>11, <1>12
     DEF Next, Dispatcher, Sequencer

\* A pending row the cursor has passed is on its way, or its add failed, or its
\* insert committed after a query that saw a later row: for any number of rows,
\* overlapping invocations, restarts and throws.
THEOREM StrandedCorrect == Spec => []StrandedOnlyIfLostOrLate
<1>1. RowsInv => StrandedOnlyIfLostOrLate
  BY DEF RowsInv, StrandedOnlyIfLostOrLate, Passed, Accounted
<1>2. QED
  BY <1>1, InitType, InitRows, TypeStep, RowsStep, PTL DEF Spec

(***************************************************************************)
(* Executions: without a restart and without overlapping queries no row is *)
(* found, added, waiting or in hand twice, and what is on its way has not  *)
(* been executed yet.                                                      *)
(***************************************************************************)
Undisturbed == past.crashes = 0 /\ ~past.overlapped

InQueue(t) == \E i \in DOMAIN seqQueue : seqQueue[i] = t

\* A row the cursor has passed that is neither executed nor in hand.
Fresh(t) == t <= currentPendingTxId /\ past.executions[t] = 0 /\ job.txId # t

\* The rows found, by the invocation that found them.
FoundInv ==
    /\ \A g, h \in Handlers : handler[g].pc = "finding" /\ handler[h].pc = "finding" => g = h
    /\ \A h \in Handlers : \A i, k \in DOMAIN handler[h].found :
           i < k => handler[h].found[i] < handler[h].found[k]
    /\ \A h \in Handlers : handler[h].pc = "finding" =>
           \A i \in DOMAIN handler[h].found : handler[h].found[i] > currentPendingTxId
    /\ \A h \in Handlers : handler[h].pc = "adding" =>
           \A i \in DOMAIN handler[h].found :
               Fresh(handler[h].found[i]) /\ ~InQueue(handler[h].found[i])
    /\ \A g, h \in Handlers : handler[g].pc = "adding" /\ handler[h].pc = "adding" /\ g # h =>
           \A i \in DOMAIN handler[g].found : \A k \in DOMAIN handler[h].found :
               handler[g].found[i] # handler[h].found[k]

\* The rows that wait, the one in hand and those executed.
QueueInv ==
    /\ \A i \in DOMAIN seqQueue : Fresh(seqQueue[i])
    /\ \A i, k \in DOMAIN seqQueue : seqQueue[i] = seqQueue[k] => i = k
    /\ job.pc # "idle" => job.txId <= currentPendingTxId
    /\ job.pc = "taken" => past.executions[job.txId] = 0
    /\ \A t \in TxIds : \/ past.executions[t] = 0
                        \/ past.executions[t] = 1 /\ t <= currentPendingTxId

OnceInv == Undisturbed => FoundInv /\ QueueInv

\* At first nothing is found, waiting, in hand or executed.
LEMMA InitOnce == Init => OnceInv
<1> SUFFICES ASSUME Init PROVE FoundInv /\ QueueInv
  BY DEF OnceInv
<1>1. /\ \A h \in Handlers : handler[h].pc = "idle" /\ DOMAIN handler[h].found = {}
      /\ DOMAIN seqQueue = {} /\ job.pc = "idle"
      /\ \A t \in TxIds : past.executions[t] = 0
  BY DEF Init, NoInvocation, NoJob
<1>2. QED
  BY <1>1 DEF FoundInv, QueueInv

\* A step of the job in hand, or of none of what OnceInv speaks of.
LEMMA JobMoves ==
    ASSUME TypeInv, OnceInv,
           currentPendingTxId' = currentPendingTxId, handler' = handler, seqQueue' = seqQueue,
           past'.crashes = past.crashes, past'.overlapped = past.overlapped,
           \/ job' = job \/ job' = NoJob
           \/ job.pc = "taken" /\ job' = [pc |-> "done", txId |-> job.txId],
           \/ past'.executions = past.executions
           \/ /\ job.pc = "taken" /\ job' # job
              /\ past'.executions = [past.executions EXCEPT ![job.txId] = past.executions[job.txId] + 1]
    PROVE  OnceInv'
<1> SUFFICES ASSUME Undisturbed' PROVE FoundInv' /\ QueueInv'
  BY DEF OnceInv
<1>1. FoundInv /\ QueueInv
  BY DEF OnceInv, Undisturbed
<1>2. /\ \A t \in TxIds : t # 0
      /\ job.pc # "idle" => job.txId \in TxIds /\ job.pc \in {"taken", "done"}
      /\ past.executions \in [TxIds -> Nat]
      /\ \A i \in DOMAIN seqQueue : seqQueue[i] \in TxIds
      /\ \A h \in Handlers : \A i \in DOMAIN handler[h].found : handler[h].found[i] \in TxIds
  BY RowTypes DEF PastType
<1>3. /\ job'.pc = "taken" => job' = job
      /\ job'.pc # "idle" => job'.txId = job.txId /\ job.pc # "idle"
      /\ job'.txId = job.txId \/ job'.txId = 0
  BY RowTypes DEF NoJob
<1>4. \A t \in TxIds : job.txId # t => job'.txId # t /\ past'.executions[t] = past.executions[t]
  BY <1>2, <1>3
<1>5. \A t \in TxIds : Fresh(t) => Fresh(t)'
  BY <1>4 DEF Fresh
<1>6. \A t \in TxIds : InQueue(t)' <=> InQueue(t)
  BY DEF InQueue
<1>7. ASSUME NEW t \in TxIds
      PROVE  \/ past'.executions[t] = 0
             \/ past'.executions[t] = 1 /\ t <= currentPendingTxId
  <2>1. CASE past'.executions[t] = past.executions[t]
    BY <1>1, <2>1 DEF QueueInv
  <2>2. CASE past'.executions[t] # past.executions[t]
    <3>1. job.txId = t /\ job.pc = "taken" /\ past'.executions[t] = past.executions[t] + 1
      BY <1>2, <1>4, <2>2
    <3>2. past.executions[t] = 0 /\ t <= currentPendingTxId
      BY <1>1, <3>1 DEF QueueInv
    <3>3. QED
      BY <3>1, <3>2
  <2>3. QED
    BY <2>1, <2>2
<1>8. job'.pc = "taken" => past'.executions[job'.txId] = 0
  BY <1>1, <1>3 DEF QueueInv
<1>9. FoundInv'
  BY <1>1, <1>2, <1>5, <1>6 DEF FoundInv
<1>10. \A i \in DOMAIN seqQueue :
          seqQueue[i] <= currentPendingTxId /\ past'.executions[seqQueue[i]] = 0 /\ job'.txId # seqQueue[i]
  BY <1>1, <1>2, <1>5 DEF QueueInv, Fresh
<1>11. (\A i \in DOMAIN seqQueue : Fresh(seqQueue[i]))'
  BY <1>10 DEF Fresh
<1>12. job'.pc # "idle" => job'.txId <= currentPendingTxId
  BY <1>1, <1>3 DEF QueueInv
<1>13. QueueInv'
  BY <1>1, <1>7, <1>8, <1>11, <1>12 DEF QueueInv
<1>14. QED
  BY <1>9, <1>13

\* A query finds rows above the cursor, and none of those has been found before.
LEMMA QueryOnce ==
    ASSUME TypeInv, OnceInv, NEW h \in Handlers, FindPending(h)
    PROVE  OnceInv'
<1> SUFFICES ASSUME Undisturbed' PROVE FoundInv' /\ QueueInv'
  BY DEF OnceInv
<1>1. PICK s : s = PendingAfter(currentPendingTxId)
  OBVIOUS
<1>2. /\ handler' = [handler EXCEPT ![h] = [pc |-> "finding", found |-> s]]
      /\ past' = [past EXCEPT
            !.overlapped = @ \/ \E g \in Handlers : handler[g].pc = "finding",
            !.overtaken = @ \cup {t \in TxIds : /\ row[t] = "INSERTING"
                                                /\ \E i \in DOMAIN s : s[i] > t}]
      /\ currentPendingTxId' = currentPendingTxId /\ seqQueue' = seqQueue /\ job' = job
  BY <1>1 DEF FindPending
<1>3. /\ \A i \in DOMAIN s : s[i] > currentPendingTxId
      /\ \A i, k \in DOMAIN s : i < k => s[i] < s[k]
  BY <1>1, PendingIs
<1>4. /\ handler'[h].pc = "finding" /\ handler'[h].found = s
      /\ \A g \in Handlers : g # h => handler'[g] = handler[g]
  BY <1>2, RowTypes
<1>5. /\ past'.crashes = past.crashes /\ past'.executions = past.executions
      /\ past'.overlapped = (past.overlapped \/ \E g \in Handlers : handler[g].pc = "finding")
  BY <1>2, RowTypes DEF PastType
<1>6. Undisturbed /\ \A g \in Handlers : handler[g].pc # "finding"
  BY <1>5 DEF Undisturbed
<1>7. FoundInv /\ QueueInv
  BY <1>6 DEF OnceInv
<1>8. \A t : (Fresh(t)' <=> Fresh(t)) /\ (InQueue(t)' <=> InQueue(t))
  BY <1>2, <1>5 DEF Fresh, InQueue
<1>9. QueueInv'
  BY <1>2, <1>5, <1>7 DEF QueueInv, Fresh
<1>10. \A g \in Handlers : handler'[g].pc = "finding" => g = h
  BY <1>4, <1>6
<1>11. \A g \in Handlers : \A i, k \in DOMAIN handler'[g].found :
          i < k => handler'[g].found[i] < handler'[g].found[k]
  BY <1>3, <1>4, <1>7 DEF FoundInv
<1>12. \A g \in Handlers : handler'[g].pc = "finding" =>
          \A i \in DOMAIN handler'[g].found : handler'[g].found[i] > currentPendingTxId'
  BY <1>2, <1>3, <1>4, <1>10
<1>13. \A g \in Handlers : handler'[g].pc = "adding" => g # h /\ handler'[g] = handler[g]
  BY <1>4
<1>14. \A g \in Handlers : handler'[g].pc = "adding" =>
          \A i \in DOMAIN handler'[g].found :
              Fresh(handler[g].found[i])' /\ ~InQueue(handler[g].found[i])'
  BY <1>7, <1>8, <1>13 DEF FoundInv
<1>15. FoundInv'
  BY <1>7, <1>10, <1>11, <1>12, <1>13, <1>14 DEF FoundInv
<1>16. QED
  BY <1>9, <1>15

\* The cursor moves over the rows found: they have not been executed, and no one
\* else has them.
LEMMA CursorOnce ==
    ASSUME TypeInv, OnceInv, NEW h \in Handlers, MoveCursor(h)
    PROVE  OnceInv'
<1> SUFFICES ASSUME Undisturbed' PROVE FoundInv' /\ QueueInv'
  BY DEF OnceInv
<1> DEFINE s == handler[h].found
<1>1. /\ handler[h].pc = "finding" /\ handler' = [handler EXCEPT ![h] = [handler[h] EXCEPT !.pc = "adding"]]
      /\ currentPendingTxId' = s[Len(s)]
      /\ seqQueue' = seqQueue /\ job' = job /\ past' = past
  BY DEF MoveCursor, CursorAfter
<1>2. /\ handler'[h].pc = "adding" /\ handler'[h].found = s
      /\ \A g \in Handlers : g # h => handler'[g] = handler[g]
  <2>1. handler[h] \in [pc : {"idle", "finding", "adding"}, found : Seq(TxIds)]
    BY RowTypes
  <2>2. QED
    BY <1>1, <2>1, RowTypes
<1>3. FoundInv /\ QueueInv
  BY <1>1 DEF OnceInv, Undisturbed
<1>4. s \in Seq(TxIds) /\ s # <<>>
  BY <1>1, RowTypes
<1>5. /\ Len(s) \in DOMAIN s /\ \A i \in DOMAIN s : i < Len(s) \/ i = Len(s)
      /\ \A i \in DOMAIN s : s[i] \in TxIds
  BY <1>4
<1>6. /\ \A i, k \in DOMAIN s : i < k => s[i] < s[k]
      /\ \A i \in DOMAIN s : s[i] > currentPendingTxId
  BY <1>1, <1>3 DEF FoundInv
<1>7. currentPendingTxId \in Nat /\ \A t \in TxIds : t \in Nat
  BY RowTypes, SequencingAssumption
<1> HIDE DEF s
<1>8. \A i \in DOMAIN s : s[i] < s[Len(s)] \/ s[i] = s[Len(s)]
  BY <1>5, <1>6
<1>9. \A i \in DOMAIN s : s[i] <= currentPendingTxId'
  BY <1>1, <1>5, <1>7, <1>8
<1>10. currentPendingTxId' \in Nat /\ currentPendingTxId' > currentPendingTxId
  BY <1>1, <1>5, <1>6, <1>7
<1>11. \A t \in Nat :
          /\ t <= currentPendingTxId => t <= currentPendingTxId'
          /\ t > currentPendingTxId => ~ (t <= currentPendingTxId)
  BY <1>7, <1>10
<1> DEFINE FreshNext(t) == t <= currentPendingTxId' /\ past'.executions[t] = 0 /\ job'.txId # t
<1>12. ASSUME NEW t \in TxIds, t <= currentPendingTxId PROVE t <= currentPendingTxId'
  <2>1. t \in Nat
    BY <1>7
  <2>2. QED
    BY <1>11, <1>12, <2>1
<1>13. \A t \in TxIds : Fresh(t) => FreshNext(t)
  BY <1>1, <1>12 DEF Fresh
<1> HIDE DEF FreshNext
<1>14. \A i \in DOMAIN seqQueue : seqQueue[i] \in TxIds
  BY RowTypes
<1>15. (\A i \in DOMAIN seqQueue : Fresh(seqQueue[i]))'
  <2>1. \A i \in DOMAIN seqQueue : Fresh(seqQueue[i])
    BY <1>3 DEF QueueInv
  <2>2. \A i \in DOMAIN seqQueue : FreshNext(seqQueue[i])
    BY <1>13, <1>14, <2>1
  <2>3. QED
    BY <1>1, <2>2 DEF Fresh, FreshNext
<1>16. job.pc # "idle" => job.txId <= currentPendingTxId'
  <2>1. job.pc # "idle" => job.txId \in TxIds /\ job.txId <= currentPendingTxId
    BY <1>3, RowTypes DEF QueueInv
  <2>2. QED
    BY <1>12, <2>1
<1>17. \A t \in TxIds :
          \/ past.executions[t] = 0
          \/ past.executions[t] = 1 /\ t <= currentPendingTxId'
  BY <1>3, <1>12 DEF QueueInv
<1>18. QueueInv'
  BY <1>1, <1>3, <1>15, <1>16, <1>17 DEF QueueInv
<1>19. \A i \in DOMAIN s : /\ s[i] <= currentPendingTxId' /\ past'.executions[s[i]] = 0
                           /\ job'.txId # s[i] /\ \A k \in DOMAIN seqQueue' : seqQueue'[k] # s[i]
  <2> SUFFICES ASSUME NEW i \in DOMAIN s
               PROVE  /\ s[i] <= currentPendingTxId' /\ past.executions[s[i]] = 0
                      /\ job.txId # s[i] /\ \A k \in DOMAIN seqQueue : seqQueue[k] # s[i]
    BY <1>1
  <2>1. s[i] \in TxIds /\ s[i] \in Nat /\ ~ (s[i] <= currentPendingTxId) /\ s[i] <= currentPendingTxId'
    BY <1>5, <1>6, <1>7, <1>9, <1>11
  <2>2. past.executions[s[i]] = 0
    BY <1>3, <2>1 DEF QueueInv
  <2>3. job.txId # s[i]
    BY <1>3, <2>1, RowTypes DEF QueueInv
  <2>4. \A k \in DOMAIN seqQueue : seqQueue[k] # s[i]
    BY <1>3, <2>1 DEF QueueInv, Fresh
  <2>5. QED
    BY <2>1, <2>2, <2>3, <2>4
<1>20. \A g \in Handlers : g # h => handler[g].pc # "finding"
  BY <1>1, <1>3 DEF FoundInv
<1>21. \A g \in Handlers : handler[g].pc = "adding" =>
          \A i \in DOMAIN handler[g].found :
              /\ handler[g].found[i] \in TxIds
              /\ handler[g].found[i] <= currentPendingTxId
              /\ FreshNext(handler[g].found[i]) /\ ~InQueue(handler[g].found[i])
  <2> SUFFICES ASSUME NEW g \in Handlers, handler[g].pc = "adding", NEW i \in DOMAIN handler[g].found
               PROVE  /\ handler[g].found[i] \in TxIds
                      /\ handler[g].found[i] <= currentPendingTxId
                      /\ FreshNext(handler[g].found[i]) /\ ~InQueue(handler[g].found[i])
    OBVIOUS
  <2>1. Fresh(handler[g].found[i]) /\ ~InQueue(handler[g].found[i])
    BY <1>3 DEF FoundInv
  <2>2. handler[g].found[i] \in TxIds
    BY RowTypes
  <2>3. QED
    BY <1>13, <2>1, <2>2 DEF Fresh
<1>23. \A g \in Handlers : handler'[g].pc = "adding" /\ g # h =>
          \A i \in DOMAIN handler'[g].found : \A k \in DOMAIN s : handler'[g].found[i] # s[k]
  BY <1>2, <1>5, <1>6, <1>7, <1>11, <1>21
<1>24. \A g, e \in Handlers : handler'[g].pc = "adding" /\ handler'[e].pc = "adding" /\ g # e =>
          \A i \in DOMAIN handler'[g].found : \A k \in DOMAIN handler'[e].found :
              handler'[g].found[i] # handler'[e].found[k]
  <2> SUFFICES ASSUME NEW g \in Handlers, NEW e \in Handlers,
                      handler'[g].pc = "adding", handler'[e].pc = "adding", g # e,
                      NEW i \in DOMAIN handler'[g].found, NEW k \in DOMAIN handler'[e].found
               PROVE  handler'[g].found[i] # handler'[e].found[k]
    OBVIOUS
  <2>1. CASE g = h
    BY <1>2, <1>23, <2>1
  <2>2. CASE e = h
    BY <1>2, <1>23, <2>2
  <2>3. CASE g # h /\ e # h
    BY <1>2, <1>3, <2>3 DEF FoundInv
  <2>4. QED
    BY <2>1, <2>2, <2>3
<1>25. \A g, e \in Handlers : handler'[g].pc = "finding" /\ handler'[e].pc = "finding" => g = e
  BY <1>2, <1>20
<1>26. \A g \in Handlers : \A i, k \in DOMAIN handler'[g].found :
          i < k => handler'[g].found[i] < handler'[g].found[k]
  BY <1>2, <1>3, <1>6 DEF FoundInv
<1>27. \A g \in Handlers : handler'[g].pc # "finding"
  BY <1>2, <1>20
<1>28. (\A g \in Handlers : handler[g].pc = "adding" =>
          \A i \in DOMAIN handler[g].found :
              Fresh(handler[g].found[i]) /\ ~InQueue(handler[g].found[i]))'
  <2> SUFFICES ASSUME NEW g \in Handlers, handler'[g].pc = "adding", NEW i \in DOMAIN handler'[g].found
               PROVE  /\ handler'[g].found[i] <= currentPendingTxId'
                      /\ past'.executions[handler'[g].found[i]] = 0
                      /\ job'.txId # handler'[g].found[i]
                      /\ \A k \in DOMAIN seqQueue' : seqQueue'[k] # handler'[g].found[i]
    BY DEF Fresh, InQueue
  <2>1. CASE g = h
    BY <1>2, <1>19, <2>1
  <2>2. CASE g # h
    BY <1>1, <1>2, <1>21, <2>2 DEF FreshNext, InQueue
  <2>3. QED
    BY <2>1, <2>2
<1>29. FoundInv'
  BY <1>24, <1>25, <1>26, <1>27, <1>28 DEF FoundInv
<1>30. QED
  BY <1>18, <1>29

\* One add: the first of the rows found waits behind the others, or is lost.
LEMMA AddOnce ==
    ASSUME TypeInv, OnceInv, NEW h \in Handlers, AddJob(h)
    PROVE  OnceInv'
<1> SUFFICES ASSUME Undisturbed' PROVE FoundInv' /\ QueueInv'
  BY DEF OnceInv
<1> DEFINE s == handler[h].found
           r == handler'[h].found
<1>1. /\ handler[h].pc = "adding" /\ s \in Seq(TxIds) /\ 1 \in DOMAIN s
      /\ \A g \in Handlers : g # h => handler'[g] = handler[g]
      /\ handler'[h].pc # "finding"
      /\ \A i \in DOMAIN r :
             /\ i \in Nat /\ i >= 1 /\ i + 1 \in DOMAIN s
             /\ r[i] = s[i + 1]
      /\ \/ /\ seqQueue' = Append(seqQueue, s[1])
            /\ past' = past
         \/ /\ seqQueue' = seqQueue
            /\ past' = [past EXCEPT !.failedAdds = @ \cup {s[1]}]
  BY AddIs
<1>2. currentPendingTxId' = currentPendingTxId /\ job' = job
  BY DEF AddJob
<1>3. /\ past'.crashes = past.crashes /\ past'.overlapped = past.overlapped
      /\ past'.executions = past.executions
  BY <1>1, RowTypes DEF PastType
<1>4. FoundInv /\ QueueInv
  BY <1>3 DEF OnceInv, Undisturbed
<1>5. s[1] \in TxIds /\ Fresh(s[1]) /\ ~InQueue(s[1])
  BY <1>1, <1>4 DEF FoundInv
<1>6. \A t : Fresh(t)' <=> Fresh(t)
  BY <1>2, <1>3 DEF Fresh
<1>7. \A t : InQueue(t)' => InQueue(t) \/ t = s[1]
  <2>1. CASE seqQueue' = seqQueue
    BY <2>1 DEF InQueue
  <2>2. CASE seqQueue' = Append(seqQueue, s[1])
    <3>1. seqQueue \in Seq(TxIds)
      BY RowTypes
    <3>2. /\ DOMAIN seqQueue = 1 .. Len(seqQueue)
          /\ \A i \in DOMAIN seqQueue' : \/ i \in DOMAIN seqQueue /\ seqQueue'[i] = seqQueue[i]
                                         \/ seqQueue'[i] = s[1]
      BY <1>5, <2>2, <3>1
    <3>3. QED
      BY <3>2 DEF InQueue
  <2>3. QED
    BY <1>1, <2>1, <2>2
<1>8. (\A i \in DOMAIN seqQueue : Fresh(seqQueue[i])) /\
      (\A i, k \in DOMAIN seqQueue : seqQueue[i] = seqQueue[k] => i = k)
  BY <1>4 DEF QueueInv
<1>9. (\A i \in DOMAIN seqQueue' : Fresh(seqQueue'[i])) /\
      (\A i, k \in DOMAIN seqQueue' : seqQueue'[i] = seqQueue'[k] => i = k)
  <2>1. CASE seqQueue' = seqQueue
    BY <1>8, <2>1
  <2>2. CASE seqQueue' = Append(seqQueue, s[1])
    <3>1. seqQueue \in Seq(TxIds)
      BY RowTypes
    <3>2. /\ Len(seqQueue) \in Nat /\ DOMAIN seqQueue = 1 .. Len(seqQueue)
          /\ DOMAIN seqQueue' = 1 .. (Len(seqQueue) + 1)
          /\ seqQueue'[Len(seqQueue) + 1] = s[1]
          /\ \A i \in 1 .. Len(seqQueue) : seqQueue'[i] = seqQueue[i]
      BY <1>5, <2>2, <3>1
    <3>3. \A i \in 1 .. (Len(seqQueue) + 1) : i \in 1 .. Len(seqQueue) \/ i = Len(seqQueue) + 1
      BY <3>2
    <3>4. \A i \in 1 .. Len(seqQueue) : seqQueue[i] # s[1]
      BY <1>5, <3>2 DEF InQueue
    <3>5. QED
      BY <1>5, <1>8, <3>2, <3>3, <3>4
  <2>3. QED
    BY <1>1, <2>1, <2>2
<1>10. (\A i \in DOMAIN seqQueue : Fresh(seqQueue[i]))'
  BY <1>2, <1>3, <1>9 DEF Fresh
<1>11. QueueInv'
  BY <1>2, <1>3, <1>4, <1>9, <1>10 DEF QueueInv
<1>12. \A i, k \in DOMAIN s : i < k => s[i] < s[k]
  BY <1>4 DEF FoundInv
<1>13. \A i \in DOMAIN s : s[i] \in Nat
  BY <1>1, RowTypes
<1>14. \A i \in DOMAIN s : Fresh(s[i]) /\ ~InQueue(s[i])
  BY <1>1, <1>4 DEF FoundInv
<1>15. \A g \in Handlers : handler[g].pc = "adding" /\ g # h =>
          /\ \A i \in DOMAIN handler[g].found :
                 /\ Fresh(handler[g].found[i]) /\ ~InQueue(handler[g].found[i])
                 /\ \A k \in DOMAIN s : handler[g].found[i] # s[k]
  BY <1>1, <1>4 DEF FoundInv
<1> HIDE DEF s, r
<1>16. \A i \in DOMAIN r : i + 1 \in DOMAIN s /\ r[i] = s[i + 1] /\ s[1] < s[i + 1] /\ s[i + 1] # s[1]
  <2> SUFFICES ASSUME NEW i \in DOMAIN r
               PROVE  i + 1 \in DOMAIN s /\ r[i] = s[i + 1] /\ s[1] < s[i + 1] /\ s[i + 1] # s[1]
    OBVIOUS
  <2>1. i \in Nat /\ i >= 1 /\ i + 1 \in DOMAIN s /\ r[i] = s[i + 1] /\ 1 < i + 1
    BY <1>1
  <2>2. s[1] < s[i + 1]
    BY <1>1, <1>12, <2>1
  <2>3. QED
    BY <1>1, <1>13, <2>1, <2>2
<1>17. \A i, k \in DOMAIN r : i < k => r[i] < r[k]
  <2> SUFFICES ASSUME NEW i \in DOMAIN r, NEW k \in DOMAIN r, i < k PROVE r[i] < r[k]
    OBVIOUS
  <2>1. i \in Nat /\ k \in Nat /\ i + 1 < k + 1
    BY <1>1
  <2>2. QED
    BY <1>12, <1>16, <2>1
<1>18. \A i \in DOMAIN r : Fresh(r[i]) /\ ~InQueue(r[i]) /\ r[i] # s[1]
  BY <1>14, <1>16
<1>19. \A g \in Handlers : handler'[g].pc = "adding" =>
          \A i \in DOMAIN handler'[g].found :
              /\ Fresh(handler'[g].found[i]) /\ ~InQueue(handler'[g].found[i])
              /\ handler'[g].found[i] # s[1]
  <2> SUFFICES ASSUME NEW g \in Handlers, handler'[g].pc = "adding", NEW i \in DOMAIN handler'[g].found
               PROVE  /\ Fresh(handler'[g].found[i]) /\ ~InQueue(handler'[g].found[i])
                      /\ handler'[g].found[i] # s[1]
    OBVIOUS
  <2>1. CASE g = h
    BY <1>18, <2>1 DEF r
  <2>2. CASE g # h
    BY <1>1, <1>15, <2>2
  <2>3. QED
    BY <2>1, <2>2
<1>20. (\A g \in Handlers : handler[g].pc = "adding" =>
          \A i \in DOMAIN handler[g].found :
              Fresh(handler[g].found[i]) /\ ~InQueue(handler[g].found[i]))'
  <2> SUFFICES ASSUME NEW g \in Handlers, handler'[g].pc = "adding", NEW i \in DOMAIN handler'[g].found
               PROVE  (Fresh(handler[g].found[i]) /\ ~InQueue(handler[g].found[i]))'
    OBVIOUS
  <2>1. PICK t : t = handler'[g].found[i]
    OBVIOUS
  <2>2. Fresh(t) /\ ~InQueue(t) /\ t # s[1]
    BY <1>19, <2>1
  <2>3. Fresh(t)' /\ ~InQueue(t)'
    BY <1>6, <1>7, <2>2
  <2>4. QED
    BY <2>1, <2>3 DEF Fresh, InQueue
<1>21. \A g \in Handlers : handler'[g].pc = "finding" => g # h /\ handler[g].pc = "finding" /\ handler'[g] = handler[g]
  BY <1>1
<1>22. \A g \in Handlers : handler'[g].pc = "adding" /\ g # h =>
          \A i \in DOMAIN handler'[g].found : \A k \in DOMAIN r : handler'[g].found[i] # r[k]
  BY <1>1, <1>15, <1>16
<1>23. \A g, e \in Handlers : handler'[g].pc = "adding" /\ handler'[e].pc = "adding" /\ g # e =>
          \A i \in DOMAIN handler'[g].found : \A k \in DOMAIN handler'[e].found :
              handler'[g].found[i] # handler'[e].found[k]
  <2> SUFFICES ASSUME NEW g \in Handlers, NEW e \in Handlers,
                      handler'[g].pc = "adding", handler'[e].pc = "adding", g # e,
                      NEW i \in DOMAIN handler'[g].found, NEW k \in DOMAIN handler'[e].found
               PROVE  handler'[g].found[i] # handler'[e].found[k]
    OBVIOUS
  <2>1. CASE g = h
    BY <1>22, <2>1 DEF r
  <2>2. CASE e = h
    BY <1>22, <2>2 DEF r
  <2>3. CASE g # h /\ e # h
    BY <1>1, <1>4, <2>3 DEF FoundInv
  <2>4. QED
    BY <2>1, <2>2, <2>3
<1>24. \A g \in Handlers : \A i, k \in DOMAIN handler'[g].found :
          i < k => handler'[g].found[i] < handler'[g].found[k]
  BY <1>1, <1>4, <1>17 DEF FoundInv, r
<1>25. FoundInv'
  BY <1>2, <1>4, <1>20, <1>21, <1>23, <1>24 DEF FoundInv
<1>26. QED
  BY <1>11, <1>25

\* The worker takes the first job: no other is of the same row.
LEMMA TakeOnce ==
    ASSUME TypeInv, OnceInv, TakeJob
    PROVE  OnceInv'
<1> SUFFICES ASSUME Undisturbed' PROVE FoundInv' /\ QueueInv'
  BY DEF OnceInv
<1>1. /\ job.pc = "idle" /\ seqQueue # <<>> /\ job' = [pc |-> "taken", txId |-> Head(seqQueue)]
      /\ seqQueue' = Tail(seqQueue)
      /\ currentPendingTxId' = currentPendingTxId /\ handler' = handler /\ past' = past
  BY DEF TakeJob
<1>2. FoundInv /\ QueueInv
  BY <1>1 DEF OnceInv, Undisturbed
<1>3. seqQueue \in Seq(TxIds) /\ seqQueue # <<>>
  BY <1>1, RowTypes
<1>4. /\ Len(seqQueue) \in Nat \ {0} /\ DOMAIN seqQueue = 1 .. Len(seqQueue)
      /\ DOMAIN seqQueue' = 1 .. (Len(seqQueue) - 1)
      /\ \A i \in 1 .. (Len(seqQueue) - 1) : seqQueue'[i] = seqQueue[i + 1]
      /\ Head(seqQueue) = seqQueue[1]
  BY <1>1, <1>3
<1>5. \A i \in DOMAIN seqQueue' :
          i \in Nat /\ i + 1 \in DOMAIN seqQueue /\ i + 1 # 1 /\ seqQueue'[i] = seqQueue[i + 1]
  BY <1>4
<1>6. 1 \in DOMAIN seqQueue
  BY <1>4
<1>7. job'.pc = "taken" /\ job'.txId = seqQueue[1]
  BY <1>1, <1>4
<1>8. Fresh(seqQueue[1]) /\ InQueue(seqQueue[1])
  BY <1>2, <1>6 DEF QueueInv, InQueue
<1>9. \A t : Fresh(t) /\ t # seqQueue[1] => /\ t <= currentPendingTxId'
                                           /\ past'.executions[t] = 0
                                           /\ job'.txId # t
  BY <1>1, <1>7 DEF Fresh
<1>10. \A i \in DOMAIN seqQueue' : seqQueue'[i] # seqQueue[1] /\ Fresh(seqQueue'[i])
  BY <1>2, <1>5, <1>6 DEF QueueInv
<1>11. (\A i \in DOMAIN seqQueue : Fresh(seqQueue[i]))'
  BY <1>9, <1>10 DEF Fresh
<1>12. \A i, k \in DOMAIN seqQueue' : seqQueue'[i] = seqQueue'[k] => i = k
  <2> SUFFICES ASSUME NEW i \in DOMAIN seqQueue', NEW k \in DOMAIN seqQueue', seqQueue'[i] = seqQueue'[k]
               PROVE  i = k
    OBVIOUS
  <2>1. i + 1 \in DOMAIN seqQueue /\ k + 1 \in DOMAIN seqQueue /\ seqQueue[i + 1] = seqQueue[k + 1]
    BY <1>5
  <2>2. i + 1 = k + 1
    BY <1>2, <2>1 DEF QueueInv
  <2>3. QED
    BY <1>5, <2>2
<1>13. QueueInv'
  BY <1>1, <1>2, <1>7, <1>8, <1>11, <1>12 DEF QueueInv, Fresh
<1>14. \A t : InQueue(t)' => InQueue(t)
  BY <1>5 DEF InQueue
<1>15. (\A h \in Handlers : handler[h].pc = "adding" =>
          \A i \in DOMAIN handler[h].found :
              Fresh(handler[h].found[i]) /\ ~InQueue(handler[h].found[i]))'
  <2> SUFFICES ASSUME NEW h \in Handlers, handler[h].pc = "adding", NEW i \in DOMAIN handler[h].found
               PROVE  (Fresh(handler[h].found[i]) /\ ~InQueue(handler[h].found[i]))'
    BY <1>1
  <2>1. PICK t : t = handler[h].found[i]
    OBVIOUS
  <2>2. Fresh(t) /\ ~InQueue(t)
    BY <1>2, <2>1 DEF FoundInv
  <2>3. t # seqQueue[1]
    BY <1>8, <2>2
  <2>4. Fresh(t)' /\ ~InQueue(t)'
    BY <1>9, <1>14, <2>2, <2>3 DEF Fresh
  <2>5. QED
    BY <1>1, <2>1, <2>4 DEF Fresh, InQueue
<1>16. FoundInv'
  BY <1>1, <1>2, <1>15 DEF FoundInv
<1>17. QED
  BY <1>13, <1>16

\* Every step keeps what is on its way unexecuted and single.
LEMMA OnceStep == TypeInv /\ OnceInv /\ [Next]_vars => OnceInv'
<1> SUFFICES ASSUME TypeInv, OnceInv, [Next]_vars PROVE OnceInv'
  OBVIOUS
<1>0. past \in PastType
  BY DEF TypeInv
<1>1. CASE InsertRow
  BY <1>1, JobMoves DEF InsertRow
<1>2. ASSUME NEW u \in TxIds, CommitRow(u) PROVE OnceInv'
  BY <1>2, JobMoves DEF CommitRow
<1>3. ASSUME NEW u \in TxIds, SavePROCESSING(u) PROVE OnceInv'
  <2>1. /\ past'.crashes = past.crashes /\ past'.overlapped = past.overlapped
        /\ past'.executions = past.executions
    BY <1>0, <1>3 DEF SavePROCESSING, PastType
  <2>2. QED
    BY <1>3, <2>1, JobMoves DEF SavePROCESSING
<1>4. ASSUME NEW h \in Handlers, FindPending(h) PROVE OnceInv'
  BY <1>4, QueryOnce
<1>5. ASSUME NEW h \in Handlers, MoveCursor(h) PROVE OnceInv'
  BY <1>5, CursorOnce
<1>6. ASSUME NEW h \in Handlers, AddJob(h) PROVE OnceInv'
  BY <1>6, AddOnce
<1>7. CASE TakeJob
  BY <1>7, TakeOnce
<1>8. CASE ThrowRequest
  <2>1. /\ past'.crashes = past.crashes /\ past'.overlapped = past.overlapped
        /\ past'.executions = past.executions
    BY <1>0, <1>8 DEF ThrowRequest, PastType
  <2>2. QED
    BY <1>8, <2>1, JobMoves DEF ThrowRequest
<1>9. CASE LogRequest
  <2>1. /\ past'.crashes = past.crashes /\ past'.overlapped = past.overlapped
        /\ past'.executions = [past.executions EXCEPT ![job.txId] = past.executions[job.txId] + 1]
    BY <1>0, <1>9 DEF LogRequest, PastType
  <2>2. job.pc = "taken" /\ job.txId \in TxIds /\ job \in [pc : {"taken", "done"}, txId : TxIds]
    BY <1>9, RowTypes DEF LogRequest, NoJob
  <2>3. [job EXCEPT !.pc = "done"] = [pc |-> "done", txId |-> job.txId]
    BY <2>2
  <2>4. job' = NoJob \/ job' = [pc |-> "done", txId |-> job.txId]
    BY <1>9, <2>3 DEF LogRequest
  <2>5. job' # job
    BY <2>2, <2>4 DEF NoJob
  <2>6. QED
    BY <1>9, <2>1, <2>2, <2>4, <2>5, JobMoves DEF LogRequest
<1>10. CASE MarkExecuted
  BY <1>10, JobMoves DEF MarkExecuted
<1>11. CASE Crash
  <2>1. past'.crashes # 0
    BY <1>0, <1>11 DEF Crash, PastType
  <2>2. QED
    BY <2>1 DEF OnceInv, Undisturbed
<1>12. CASE UNCHANGED vars
  BY <1>12, JobMoves DEF vars
<1>13. QED
  BY <1>1, <1>2, <1>3, <1>4, <1>5, <1>6, <1>7, <1>8, <1>9, <1>10, <1>11, <1>12
     DEF Next, Dispatcher, Sequencer

\* No row is executed twice unless the program was restarted or two queries of the
\* cron job overlapped: process itself does not look at the status of its row.
THEOREM OnceCorrect == Spec => []ExecutedOnce
<1>1. OnceInv /\ TypeInv => ExecutedOnce
  <2> SUFFICES ASSUME OnceInv, TypeInv, NEW t \in TxIds,
                      past.executions[t] > 1, past.crashes = 0, ~past.overlapped
               PROVE  FALSE
    BY DEF ExecutedOnce, TypeInv, PastType
  <2>1. past.executions[t] = 0 \/ past.executions[t] = 1
    BY DEF OnceInv, Undisturbed, QueueInv
  <2>2. QED
    BY <2>1
<1>2. QED
  BY <1>1, InitType, InitOnce, TypeStep, OnceStep, PTL DEF Spec

(***************************************************************************)
(* Statuses: what the rows say, or what the job in hand is about to say of *)
(* its row, against the logs in hand and in the blocks.                    *)
(***************************************************************************)
InHandDone(t) == job.pc = "done" /\ job.txId = t

\* The row says, said or is about to say that it was executed.
Shown(t) == row[t] = "L2EXECUTED" \/ t \in past.overwritten \/ InHandDone(t)

HasLog(t) == t \in InCurrentLogs \/ \E b \in DOMAIN blocks : IsSaved(b) /\ t \in InBlock(b)

StatusInv ==
    past.crashes = 0 =>
        /\ \A t \in TxIds : row[t] = "L2EXECUTED" \/ InHandDone(t) => HasLog(t)
        /\ \A t \in InCurrentLogs : Shown(t)
        /\ \A b \in DOMAIN blocks : \A t \in InBlock(b) : Shown(t) \/ ClosedBlock(t)

\* The logs are of rows.
LEMMA LogTypes ==
    ASSUME TypeInv
    PROVE  /\ InCurrentLogs \subseteq TxIds
           /\ \A b \in DOMAIN blocks : InBlock(b) \subseteq TxIds
<1>1. \A i \in DOMAIN rollup.currentTxLogs : rollup.currentTxLogs[i] \in TxIds
  BY BlockTypes
<1>2. ASSUME NEW b \in DOMAIN blocks, NEW i \in DOMAIN blocks[b].logs
      PROVE  blocks[b].logs[i] \in TxIds \cup {Noop}
  <2>1. blocks[b].logs \in Seq(TxIds \cup {Noop})
    BY BlockTypes
  <2>2. QED
    BY <2>1
<1>3. QED
  BY <1>1, <1>2 DEF InCurrentLogs, InBlock

\* At first nothing is executed and there are no logs.
LEMMA InitStatus == Init => StatusInv
<1> SUFFICES ASSUME Init PROVE StatusInv
  OBVIOUS
<1>1. /\ \A t \in TxIds : row[t] = "NONE"
      /\ job.pc = "idle" /\ DOMAIN rollup.currentTxLogs = {} /\ DOMAIN blocks = {}
  BY DEF Init, NewRollup, NoJob
<1>2. QED
  BY <1>1 DEF StatusInv, InHandDone, InCurrentLogs

\* A step that writes no log, and after which what was shown still is.
LEMMA LogsKeep ==
    ASSUME TypeInv, StatusInv, past'.crashes = past.crashes,
           rollup'.currentTxLogs = rollup.currentTxLogs,
           \A b \in DOMAIN blocks : b \in DOMAIN blocks' /\ blocks'[b] = blocks[b],
           \A b \in DOMAIN blocks' : b \in DOMAIN blocks \/ blocks'[b].logs = <<>>,
           \A t \in TxIds : row'[t] = "L2EXECUTED" \/ InHandDone(t)' =>
                               row[t] = "L2EXECUTED" \/ InHandDone(t),
           \A t \in TxIds : Shown(t) => Shown(t)'
    PROVE  StatusInv'
<1> SUFFICES ASSUME past'.crashes = 0
             PROVE  /\ \A t \in TxIds : row'[t] = "L2EXECUTED" \/ InHandDone(t)' => HasLog(t)'
                    /\ \A t \in InCurrentLogs' : Shown(t)'
                    /\ \A b \in DOMAIN blocks' : \A t \in InBlock(b)' : Shown(t)' \/ ClosedBlock(t)'
  BY DEF StatusInv
<1>1. /\ \A t \in TxIds : row[t] = "L2EXECUTED" \/ InHandDone(t) => HasLog(t)
      /\ \A t \in InCurrentLogs : Shown(t)
      /\ \A b \in DOMAIN blocks : \A t \in InBlock(b) : Shown(t) \/ ClosedBlock(t)
  BY DEF StatusInv
<1>2. /\ InCurrentLogs' = InCurrentLogs
      /\ \A b \in DOMAIN blocks : InBlock(b)' = InBlock(b) /\ (IsSaved(b) <=> IsSaved(b)')
      /\ \A b \in DOMAIN blocks' : b \in DOMAIN blocks \/ InBlock(b)' = {}
  BY DEF InCurrentLogs, InBlock, IsSaved
<1>3. \A t : HasLog(t) => HasLog(t)'
  BY <1>2 DEF HasLog
<1>4. \A t : ClosedBlock(t) => ClosedBlock(t)'
  BY <1>2 DEF ClosedBlock
<1>5. QED
  BY <1>1, <1>2, <1>3, <1>4, LogTypes

\* The job's request is logged, and the block goes on.
LEMMA StatusGoesOn ==
    ASSUME TypeInv, StatusInv, LogRequest, ~IsNearlyFull(Logged(rollup, job.txId))
    PROVE  StatusInv'
<1>1. /\ rollup'.currentTxLogs = Append(rollup.currentTxLogs, job.txId)
      /\ blocks' = blocks /\ job' = [job EXCEPT !.pc = "done"]
  BY LogGoesOn
<1>2. /\ job.pc = "taken" /\ row' = row
      /\ past'.crashes = past.crashes /\ past'.overwritten = past.overwritten
  BY RowTypes DEF LogRequest, PastType
<1>3. job.txId \in TxIds /\ job'.txId = job.txId /\ job'.pc = "done"
  <2>1. job \in [pc : {"taken", "done"}, txId : TxIds]
    BY <1>2, RowTypes DEF NoJob
  <2>2. QED
    BY <1>1, <2>1
<1>4. rollup.currentTxLogs \in Seq(TxIds)
  BY BlockTypes
<1>5. InCurrentLogs' = InCurrentLogs \cup {job.txId}
  <2> DEFINE s == rollup.currentTxLogs
             r == rollup'.currentTxLogs
  <2>1. /\ Len(s) \in Nat /\ DOMAIN s = 1 .. Len(s) /\ DOMAIN r = 1 .. (Len(s) + 1)
        /\ r[Len(s) + 1] = job.txId /\ \A i \in 1 .. Len(s) : r[i] = s[i]
    BY <1>1, <1>3, <1>4
  <2>2. \A i \in DOMAIN r : i \in DOMAIN s \/ i = Len(s) + 1
    BY <2>1
  <2>3. /\ \A i \in DOMAIN s : i \in DOMAIN r /\ r[i] = s[i]
        /\ Len(s) + 1 \in DOMAIN r
    BY <2>1
  <2>4. InCurrentLogs = {s[i] : i \in DOMAIN s} /\ InCurrentLogs' = {r[i] : i \in DOMAIN r}
    BY DEF InCurrentLogs
  <2> HIDE DEF s, r
  <2>5. QED
    BY <2>1, <2>2, <2>3, <2>4
<1>6. \A t : Shown(t) => Shown(t)'
  BY <1>2 DEF Shown, InHandDone
<1>7. \A b \in DOMAIN blocks : InBlock(b)' = InBlock(b)
  BY <1>1 DEF InBlock
<1>8. \A t : (HasLog(t) => HasLog(t)') /\ (ClosedBlock(t) => ClosedBlock(t)')
  BY <1>1, <1>5, <1>7 DEF HasLog, ClosedBlock, IsSaved
<1>9. HasLog(job.txId)' /\ Shown(job.txId)'
  BY <1>2, <1>3, <1>5 DEF HasLog, Shown, InHandDone
<1>10. QED
  BY <1>1, <1>2, <1>3, <1>5, <1>6, <1>7, <1>8, <1>9 DEF StatusInv, InHandDone

\* The job's request is logged and ends the block: it is the last before the padding.
LEMMA StatusEnds ==
    ASSUME TypeInv, BlockInv, StatusInv, LogRequest, IsNearlyFull(Logged(rollup, job.txId))
    PROVE  StatusInv'
<1> SUFFICES ASSUME past'.crashes = 0
             PROVE  /\ \A t \in TxIds : row'[t] = "L2EXECUTED" \/ InHandDone(t)' => HasLog(t)'
                    /\ \A t \in InCurrentLogs' : Shown(t)'
                    /\ \A b \in DOMAIN blocks' : \A t \in InBlock(b)' : Shown(t)' \/ ClosedBlock(t)'
  BY DEF StatusInv
<1>0. PICK last \in Nat : last = Len(blocks)
  BY BlockTypes
<1>1. PICK n \in Nat : n = Len(rollup.currentTxLogs) /\ n + 1 <= NumOfReqs
  BY BlockTypes
<1>2. /\ last \in DOMAIN blocks /\ ~IsSaved(last) /\ DOMAIN blocks' = DOMAIN blocks
      /\ \A b \in DOMAIN blocks : b # last => blocks'[b] = blocks[b]
      /\ blocks'[last].blockStatus = "L2EXECUTED" /\ Len(blocks'[last].logs) = NumOfReqs
      /\ blocks'[last].logs \in Seq(TxIds \cup {Noop})
      /\ \A i \in 1 .. n : blocks'[last].logs[i] = rollup.currentTxLogs[i]
      /\ blocks'[last].logs[n + 1] = job.txId
      /\ \A i \in n + 2 .. NumOfReqs : blocks'[last].logs[i] = Noop
      /\ rollup'.currentTxLogs = <<>>
      /\ job' = [job EXCEPT !.pc = "done"] \/ job' = NoJob
  BY <1>0, <1>1, LogEnds DEF BlockInv
<1>3. /\ job.pc = "taken" /\ row' = row
      /\ past'.crashes = past.crashes /\ past'.overwritten = past.overwritten
  BY RowTypes DEF LogRequest, PastType
<1>4. /\ \A t \in TxIds : row[t] = "L2EXECUTED" \/ InHandDone(t) => HasLog(t)
      /\ \A t \in InCurrentLogs : Shown(t)
      /\ \A b \in DOMAIN blocks : \A t \in InBlock(b) : Shown(t) \/ ClosedBlock(t)
  BY <1>3 DEF StatusInv
<1>5. job.txId \in TxIds /\ \A t \in TxIds : InHandDone(t)' => t = job.txId
  <2>1. job \in [pc : {"taken", "done"}, txId : TxIds]
    BY <1>3, RowTypes DEF NoJob
  <2>2. QED
    BY <1>2, <2>1 DEF InHandDone, NoJob
<1>6. DOMAIN rollup.currentTxLogs = 1 .. n /\ InCurrentLogs \subseteq TxIds
  BY <1>1, BlockTypes, LogTypes
<1>7. DOMAIN blocks'[last].logs = 1 .. NumOfReqs
  BY <1>2
<1>8. /\ \A i \in 1 .. NumOfReqs : i \in 1 .. n \/ i = n + 1 \/ i \in n + 2 .. NumOfReqs
      /\ \A i \in 1 .. n : i \in 1 .. NumOfReqs
      /\ n + 1 \in 1 .. NumOfReqs /\ (n + 1) + 1 = n + 2
  BY <1>1, SequencingAssumption
<1>9. InBlock(last)' = InCurrentLogs \cup {job.txId}
  <2>1. InBlock(last)' = {blocks'[last].logs[i] : i \in 1 .. NumOfReqs} \ {Noop}
    BY <1>7 DEF InBlock
  <2>2. Noop \notin TxIds
    BY DEF TxIds, Noop
  <2>3. InCurrentLogs = {rollup.currentTxLogs[i] : i \in 1 .. n}
    BY <1>6 DEF InCurrentLogs
  <2> DEFINE s == rollup.currentTxLogs
             l == blocks'[last].logs
  <2>4. /\ \A i \in 1 .. n : l[i] = s[i] /\ s[i] \in TxIds
        /\ l[n + 1] = job.txId
        /\ \A i \in n + 2 .. NumOfReqs : l[i] = Noop
    BY <1>2, <1>6, <2>3
  <2>5. InBlock(last)' = {l[i] : i \in 1 .. NumOfReqs} \ {Noop} /\ InCurrentLogs = {s[i] : i \in 1 .. n}
    BY <2>1, <2>3
  <2> HIDE DEF s, l
  <2>6. ASSUME NEW t PROVE t \in InBlock(last)' <=> t \in InCurrentLogs \cup {job.txId}
    <3>1. ASSUME t \in InBlock(last)' PROVE t \in InCurrentLogs \cup {job.txId}
      <4>1. PICK i \in 1 .. NumOfReqs : l[i] = t /\ t # Noop
        BY <2>5, <3>1
      <4>2. QED
        BY <1>8, <2>4, <2>5, <4>1
    <3>2. ASSUME t \in InCurrentLogs PROVE t \in InBlock(last)'
      <4>1. PICK i \in 1 .. n : s[i] = t
        BY <2>5, <3>2
      <4>2. QED
        BY <1>8, <2>2, <2>4, <2>5, <4>1
    <3>3. job.txId \in InBlock(last)'
      BY <1>5, <1>8, <2>2, <2>4, <2>5
    <3>4. QED
      BY <3>1, <3>2, <3>3
  <2>7. QED
    BY <2>6
<1>10. /\ \A b \in DOMAIN blocks : b # last => InBlock(b)' = InBlock(b) /\ (IsSaved(b) <=> IsSaved(b)')
       /\ IsSaved(last)'
  BY <1>2 DEF InBlock, IsSaved
<1>11. \A t : HasLog(t) => HasLog(t)'
  BY <1>2, <1>9, <1>10 DEF HasLog
<1>12. \A t : ClosedBlock(t) => ClosedBlock(t)'
  BY <1>2, <1>10 DEF ClosedBlock
<1>13. ASSUME NEW t, t = job.txId PROVE HasLog(t)'
  <2>1. t \in InBlock(last)' /\ last \in DOMAIN blocks'
    BY <1>2, <1>9, <1>13
  <2>2. \E b \in DOMAIN blocks' : IsSaved(b)' /\ t \in InBlock(b)'
    BY <1>10, <2>1
  <2>3. QED
    BY <2>2 DEF HasLog
<1>14. ASSUME NEW t, t = job.txId PROVE ClosedBlock(t)'
  <2>1. \A j \in n + 2 .. Len(blocks'[last].logs) : blocks'[last].logs[j] = Noop
    BY <1>2
  <2>2. \A j \in (n + 1) + 1 .. Len(blocks'[last].logs) : blocks'[last].logs[j] = Noop
    BY <1>8, <2>1
  <2>3. n + 1 \in DOMAIN blocks'[last].logs /\ blocks'[last].logs[n + 1] = t /\ last \in DOMAIN blocks'
    BY <1>2, <1>7, <1>8, <1>14
  <2>4. QED
    BY <1>10, <2>2, <2>3 DEF ClosedBlock
<1>15. \A t : Shown(t) => Shown(t)'
  BY <1>3 DEF Shown, InHandDone
<1>16. InCurrentLogs' = {}
  BY <1>2 DEF InCurrentLogs
<1>17. \A t \in TxIds : row'[t] = "L2EXECUTED" \/ InHandDone(t)' => HasLog(t)'
  BY <1>3, <1>4, <1>5, <1>11, <1>13
<1>18. ASSUME NEW b \in DOMAIN blocks', NEW t \in InBlock(b)'
       PROVE  Shown(t)' \/ ClosedBlock(t)'
  <2>1. CASE b = last
    BY <1>4, <1>9, <1>14, <1>15, <1>18, <2>1
  <2>2. CASE b # last
    BY <1>2, <1>4, <1>10, <1>12, <1>15, <1>18, <2>2
  <2>3. QED
    BY <2>1, <2>2
<1>19. QED
  BY <1>16, <1>17, <1>18

\* Every step keeps the rows in step with the logs.
LEMMA StatusStep == TypeInv /\ BlockInv /\ StatusInv /\ [Next]_vars => StatusInv'
<1> SUFFICES ASSUME TypeInv, BlockInv, StatusInv, [Next]_vars PROVE StatusInv'
  OBVIOUS
<1>0. row \in [TxIds -> RowStatus] /\ past \in PastType
  BY RowTypes
<1>1. CASE InsertRow
  <2>1. PICK u \in TxIds : row[u] = "NONE" /\ row' = [row EXCEPT ![u] = "INSERTING"]
    BY <1>1 DEF InsertRow
  <2>2. \A t \in TxIds : row'[t] = "L2EXECUTED" <=> row[t] = "L2EXECUTED"
    BY <1>0, <2>1
  <2>3. rollup' = rollup /\ blocks' = blocks /\ past' = past /\ job' = job
    BY <1>1 DEF InsertRow
  <2>4. \A t \in TxIds : (InHandDone(t)' <=> InHandDone(t)) /\ (Shown(t) => Shown(t)')
    BY <2>2, <2>3 DEF InHandDone, Shown
  <2>5. QED
    BY <2>2, <2>3, <2>4, LogsKeep
<1>2. ASSUME NEW u \in TxIds, CommitRow(u) PROVE StatusInv'
  <2>1. \A t \in TxIds : row'[t] = "L2EXECUTED" <=> row[t] = "L2EXECUTED"
    BY <1>0, <1>2 DEF CommitRow
  <2>2. rollup' = rollup /\ blocks' = blocks /\ past' = past /\ job' = job
    BY <1>2 DEF CommitRow
  <2>3. \A t \in TxIds : (InHandDone(t)' <=> InHandDone(t)) /\ (Shown(t) => Shown(t)')
    BY <2>1, <2>2 DEF InHandDone, Shown
  <2>4. QED
    BY <2>1, <2>2, <2>3, LogsKeep
<1>3. ASSUME NEW u \in TxIds, SavePROCESSING(u) PROVE StatusInv'
  <2>1. /\ rollup' = rollup /\ blocks' = blocks /\ job' = job /\ past'.crashes = past.crashes
        /\ past'.overwritten = IF row[u] = "L2EXECUTED" THEN past.overwritten \cup {u} ELSE past.overwritten
        /\ \A t \in TxIds : row'[t] = IF t = u THEN "PROCESSING" ELSE row[t]
    BY <1>0, <1>3 DEF SavePROCESSING, PastType
  <2>2. \A t \in TxIds : (InHandDone(t)' <=> InHandDone(t)) /\ (Shown(t) => Shown(t)')
    BY <2>1 DEF InHandDone, Shown
  <2>3. \A t \in TxIds : row'[t] = "L2EXECUTED" => row[t] = "L2EXECUTED"
    BY <2>1
  <2>4. QED
    BY <2>1, <2>2, <2>3, LogsKeep
<1>4. ASSUME NEW h \in Handlers, FindPending(h) PROVE StatusInv'
  <2>1. /\ rollup' = rollup /\ blocks' = blocks /\ job' = job /\ row' = row
        /\ past'.crashes = past.crashes /\ past'.overwritten = past.overwritten
    <3> DEFINE found == PendingAfter(currentPendingTxId)
    <3>1. past' = [past EXCEPT
                !.overlapped = @ \/ \E g \in Handlers : handler[g].pc = "finding",
                !.overtaken = @ \cup {t \in TxIds : /\ row[t] = "INSERTING"
                                                    /\ \E i \in DOMAIN found : found[i] > t}]
      BY <1>4 DEF FindPending
    <3> HIDE DEF found
    <3>2. QED
      BY <1>0, <1>4, <3>1 DEF FindPending, PastType
  <2>2. \A t \in TxIds : (InHandDone(t)' <=> InHandDone(t)) /\ (Shown(t) => Shown(t)')
    BY <2>1 DEF InHandDone, Shown
  <2>3. QED
    BY <2>1, <2>2, LogsKeep
<1>5. ASSUME NEW h \in Handlers, MoveCursor(h) PROVE StatusInv'
  <2>1. /\ rollup' = rollup /\ blocks' = blocks /\ job' = job /\ row' = row /\ past' = past
    BY <1>5 DEF MoveCursor
  <2>2. \A t \in TxIds : (InHandDone(t)' <=> InHandDone(t)) /\ (Shown(t) => Shown(t)')
    BY <2>1 DEF InHandDone, Shown
  <2>3. QED
    BY <2>1, <2>2, LogsKeep
<1>6. ASSUME NEW h \in Handlers, AddJob(h) PROVE StatusInv'
  <2>1. /\ rollup' = rollup /\ blocks' = blocks /\ job' = job /\ row' = row
        /\ past'.crashes = past.crashes /\ past'.overwritten = past.overwritten
    BY <1>0, <1>6 DEF AddJob, PastType
  <2>2. \A t \in TxIds : (InHandDone(t)' <=> InHandDone(t)) /\ (Shown(t) => Shown(t)')
    BY <2>1 DEF InHandDone, Shown
  <2>3. QED
    BY <2>1, <2>2, LogsKeep
<1>7. CASE TakeJob
  <2>1. /\ job.pc = "idle" /\ job'.pc = "taken" /\ row' = row /\ past' = past
        /\ rollup' = RollupStarted /\ blocks' = BlocksStarted
    BY <1>7 DEF TakeJob
  <2>2. rollup'.currentTxLogs = rollup.currentTxLogs
    <3>1. rollup \in RollupType
      BY DEF TypeInv
    <3>2. QED
      BY <2>1, <3>1 DEF RollupStarted, RollupType
  <2>3. /\ \A b \in DOMAIN blocks : b \in DOMAIN blocks' /\ blocks'[b] = blocks[b]
        /\ \A b \in DOMAIN blocks' : b \in DOMAIN blocks \/ blocks'[b].logs = <<>>
    <3> DEFINE new == [blockStatus |-> "PROCESSING", logs |-> <<>>, oriTxNum |-> 0,
                       rootFlow |-> 0, payload |-> 0, boot |-> past.crashes]
    <3>1. blocks' = blocks \/ blocks' = Append(blocks, new)
      BY <2>1 DEF BlocksStarted
    <3>2. new.logs = <<>>
      OBVIOUS
    <3>3. blocks \in Seq(BlockRows)
      BY BlockTypes
    <3> HIDE DEF new
    <3>4. QED
      BY <3>1, <3>2, <3>3
  <2>4. \A t \in TxIds : (InHandDone(t)' => InHandDone(t)) /\ (Shown(t) => Shown(t)')
    BY <2>1 DEF InHandDone, Shown
  <2>5. QED
    BY <2>1, <2>2, <2>3, <2>4, LogsKeep
<1>8. CASE ThrowRequest
  <2>1. PICK f \in Faults :
            /\ rollup' = [rollup EXCEPT !.payload = IF f = "late" THEN @ + 1 ELSE @]
            /\ past' = [past EXCEPT !.throws = @ + 1, !.lateThrow = @ \/ f = "late"]
    BY <1>8 DEF ThrowRequest
  <2>2. rollup \in RollupType
    BY DEF TypeInv
  <2>3. /\ rollup'.currentTxLogs = rollup.currentTxLogs
        /\ past'.crashes = past.crashes /\ past'.overwritten = past.overwritten
    BY <1>0, <2>1, <2>2 DEF RollupType, PastType
  <2>4. blocks' = blocks /\ row' = row /\ job.pc = "taken" /\ job' = NoJob
    BY <1>8 DEF ThrowRequest
  <2>5. \A t \in TxIds : (InHandDone(t)' => InHandDone(t)) /\ (Shown(t) => Shown(t)')
    BY <2>3, <2>4 DEF InHandDone, Shown, NoJob
  <2>6. QED
    BY <2>3, <2>4, <2>5, LogsKeep
<1>9. CASE LogRequest
  BY <1>9, StatusGoesOn, StatusEnds
<1>10. CASE MarkExecuted
  <2>1. /\ job.pc = "done" /\ job' = NoJob /\ row' = [row EXCEPT ![job.txId] = "L2EXECUTED"]
        /\ rollup' = rollup /\ blocks' = blocks /\ past' = past
    BY <1>10 DEF MarkExecuted
  <2>2. \A t \in TxIds : row'[t] = IF t = job.txId THEN "L2EXECUTED" ELSE row[t]
    BY <1>0, <2>1
  <2>3. /\ \A t \in TxIds : ~InHandDone(t)' /\ (InHandDone(t) <=> t = job.txId)
        /\ \A t \in TxIds : Shown(t) => Shown(t)'
    BY <2>1, <2>2 DEF InHandDone, Shown, NoJob
  <2>4. \A t \in TxIds : row'[t] = "L2EXECUTED" => row[t] = "L2EXECUTED" \/ InHandDone(t)
    BY <2>2, <2>3
  <2>5. QED
    BY <2>1, <2>3, <2>4, LogsKeep
<1>11. CASE Crash
  <2>1. past'.crashes # 0
    BY <1>0, <1>11 DEF Crash, PastType
  <2>2. QED
    BY <2>1 DEF StatusInv
<1>12. CASE UNCHANGED vars
  <2>1. /\ rollup' = rollup /\ blocks' = blocks /\ job' = job /\ row' = row /\ past' = past
    BY <1>12 DEF vars
  <2>2. \A t \in TxIds : (InHandDone(t)' <=> InHandDone(t)) /\ (Shown(t) => Shown(t)')
    BY <2>1 DEF InHandDone, Shown
  <2>3. QED
    BY <2>1, <2>2, LogsKeep
<1>13. QED
  BY <1>1, <1>2, <1>3, <1>4, <1>5, <1>6, <1>7, <1>8, <1>9, <1>10, <1>11, <1>12
     DEF Next, Dispatcher, Sequencer

\* As long as the program is not restarted, a row marked L2EXECUTED has its log in
\* hand or in a saved block, and a request in a saved block is marked, ended the
\* block, is still in hand, or had its mark overwritten by the late save of
\* PROCESSING: for any block size, cron invocations, lost adds and throws.
THEOREM StatusCorrect == Spec => []StatusMatchesBlocks
<1>1. StatusInv => StatusMatchesBlocks
  BY DEF StatusInv, StatusMatchesBlocks, Shown, HasLog, InHandDone, Waiting
<1>2. QED
  BY <1>1, InitType, InitBlocks, InitStatus, TypeStep, BlockStep, StatusStep, PTL DEF Spec
=============================================================================
