-------------------------- MODULE ZkOBSRefinement ---------------------------
(***************************************************************************)
(* The contract implements RequestFifo, as long as callers number blocks   *)
(* in turn.  A registration is two entries of the contract's queue and one *)
(* request of the abstract one; delivered and settled are read off the     *)
(* blocks that were committed and executed, not off the contract's         *)
(* counters.                                                               *)
(***************************************************************************)
EXTENDS ZkOBS

IsL1(request) == request.opType \in {"REGISTER", "DEPOSIT"}

\* The requests that users made with the first n entries of the queue: the
\* first entry of each call, oldest first.
FirstOfCall(i) == i = 1 \/ l1RequestQueue[i - 2].opType # "REGISTER"
RequestsMade(n) ==
    Joined([i \in 1 .. n |->
              IF FirstOfCall(i) THEN <<l1RequestQueue[i - 1]>> ELSE << >>])

\* The L1 requests of a block, and of the first n that were committed and
\* executed, in the order the contract collected them.
L1RequestsOf(requests) ==
    Joined([j \in 1 .. Len(requests) |->
              IF IsL1(requests[j]) THEN <<requests[j]>> ELSE << >>])
RequestsIn(n) == Joined([m \in 1 .. n |-> L1RequestsOf(commits[m].requests)])
RequestsExecuted(n) ==
    Joined([m \in 1 .. n |-> L1RequestsOf(executions[m].storedBlock.requests)])

Fifo == INSTANCE RequestFifo
        WITH requested <- RequestsMade(NextL1RequestId),
             delivered <- RequestsIn(committedBlockNum),
             settled <- RequestsExecuted(executedBlockNum)

\* Blocks are executed after some were numbered out of turn: the requests they
\* settle may not be the oldest.
SettleOutOfTurn ==
    ~Numbered /\ UNCHANGED <<RequestsMade(NextL1RequestId), RequestsIn(committedBlockNum)>>

(***************************************************************************)
(* Every step of the contract is a step of RequestFifo or leaves its state *)
(* alone: users' requests reach L2 at most once and in order, through any  *)
(* batches of commitBlocks, whatever numbers the blocks bear.  They are    *)
(* settled in that order too, by any batches of executeBlocks, as long as  *)
(* every block was numbered in turn; the contract does not see to that.    *)
(***************************************************************************)
ImplementsRequestFifo ==
    Fifo!Init /\ [][Fifo!Next \/ SettleOutOfTurn]_(Fifo!vars)
=============================================================================
