------------------------------- MODULE ZkOBS --------------------------------
(***************************************************************************)
(* The rollup contract contracts/ZkOBS.sol: the register of tokens and     *)
(* accounts, the queue of L1 requests (REGISTER and DEPOSIT), the chain of *)
(* L2 blocks that is committed, proved and executed, and the balances      *)
(* users may withdraw.                                                     *)
(*                                                                         *)
(* One action is one successful external call; a call whose require fails  *)
(* is reverted, which changes nothing.  A hash (keccak256, sha256) is      *)
(* modelled by what is hashed, so equal hashes are equal contents.         *)
(* Solidity's checked arithmetic reverts on overflow: the constants        *)
(* MaxAccountId ... MaxAmount are the largest values of the integer types. *)
(***************************************************************************)
EXTENDS Integers, Sequences, PrefixSums

CONSTANTS
    Users,          \* the addresses that call the contract
    NoAddress,      \* address(0), the owner of an id nobody registered
    Tokens,         \* the ERC20 contracts
    WETH,           \* wETHAddr
    Amounts,        \* the amounts callers and blocks name
    StateRoots,     \* the state roots of L2 blocks
    GenesisRoot,    \* genesisStateRoot of the constructor
    BadRoots,       \* roots no run of the circuit reaches: they have no proof
    Timestamps,     \* the timestamps of L2 blocks
    PublicDatas,    \* what callers commit: public data and offsets into it
    RollupPubdatas, \* what callers pass as the withdrawals of a block they execute
    MaxBatch,       \* blocks in one call
    MaxAccountId,   \* largest account id       (uint32)
    MaxTokenId,     \* largest token id         (uint16)
    MaxRequestId,   \* largest L1 request id    (uint64)
    MaxBlockNum,    \* largest block number     (uint32)
    MaxAmount       \* largest pending balance  (uint128)

FirstAccountId == 100       \* accountNum = 100 in the contract
RESERVED_TOKEN_NUM == 1
FirstTokenNumNotAdvanced == RESERVED_TOKEN_NUM      \* fault: no ++tokenNum
FirstTokenNum == RESERVED_TOKEN_NUM + 1

ASSUME ConstantAssumption ==
    /\ NoAddress \notin Users
    /\ WETH \in Tokens
    /\ Amounts \subseteq 0 .. MaxAmount
    /\ GenesisRoot \in StateRoots
    /\ BadRoots \subseteq StateRoots
    /\ Timestamps \subseteq Nat
    /\ MaxBatch \in Nat
    /\ MaxAccountId \in Nat /\ MaxAccountId >= FirstAccountId
    /\ MaxTokenId \in Nat /\ MaxTokenId > RESERVED_TOKEN_NUM
    /\ MaxRequestId \in Nat /\ MaxBlockNum \in Nat /\ MaxAmount \in Nat

(***************************************************************************)
(* Data.                                                                   *)
(***************************************************************************)
AccountIds == 0 .. MaxAccountId
TokenIds == 0 .. MaxTokenId
Addresses == Users \cup {NoAddress}

\* One request, in the queue or in a block's public data.  REGISTER's own
\* pubdata names only the account; "L2" stands for every type the contract
\* passes over (orders and their settlement).
Requests ==
    [opType : {"REGISTER", "DEPOSIT", "WITHDRAW", "L2"},
     accountId : AccountIds, tokenId : TokenIds, amount : 0 .. MaxAmount]

\* A block's public data, by what is read at each of its chunks, and
\* publicDataOffsets, the chunks the contract is to look at.
OffsetDatas == [publicData : Seq(Requests), publicDataOffsets : Seq(Nat)]

ASSUME PublicDataAssumption ==
    /\ PublicDatas \subseteq OffsetDatas
    /\ RollupPubdatas \subseteq Seq(Requests)

VARIABLES
    tokenIdOf,              \* token -> id, 0 when not whitelisted
    tokenNum,               \* the next token id
    accountIdOf,            \* user -> id, 0 when not registered
    addressOf,              \* id -> user
    accountNum,             \* the next account id
    l1RequestQueue,         \* the entries written, by request id
    firstL1RequestId,       \* the first request that is not executed
    pendingL1RequestNum,    \* requests from there on
    committedL1RequestNum,  \* how many of them are in committed blocks
    storedBlockHashes,      \* the slots written: the block stored under each number
    committedBlockNum,
    provedBlockNum,
    executedBlockNum,
    pendingBalances,        \* <<address, token id>> -> what may be withdrawn
    vault,                  \* token -> its balanceOf(address(this))
    commits,                \* history: the blocks committed, in their order
    executions,             \* history: what executeBlocks was passed, in its order
    credited                \* history: all that _increasePendingBalance added

accountVars == <<accountIdOf, addressOf, accountNum>>
tokenVars == <<tokenIdOf, tokenNum>>
queueVars ==
    <<l1RequestQueue, firstL1RequestId, pendingL1RequestNum, committedL1RequestNum>>
blockVars ==
    <<storedBlockHashes, committedBlockNum, provedBlockNum, executedBlockNum>>
moneyVars == <<pendingBalances, vault>>
historyVars == <<commits, executions, credited>>
vars == <<accountVars, tokenVars, queueVars, blockVars, moneyVars, historyVars>>

Register(accountId) ==
    [opType |-> "REGISTER", accountId |-> accountId, tokenId |-> 0, amount |-> 0]
Deposit(accountId, tokenId, amount) ==
    [opType |-> "DEPOSIT", accountId |-> accountId, tokenId |-> tokenId, amount |-> amount]

\* CommitBlock.  The number is the caller's own: the contract does not check it.
CommitBlocks ==
    [blockNumber : 0 .. MaxBlockNum, newStateRoot : StateRoots,
     timestamp : Timestamps, data : PublicDatas]

\* The preimage of a block's commitment, but for newTsRoot, which nothing reads.
Commitments ==
    [from : StateRoots, to : StateRoots, offsets : SUBSET Nat, publicData : Seq(Requests)]

\* StoredBlock.  requests, what the contract found at the offsets in their order,
\* stands for pendingRollupTxHash too, the hash of the WITHDRAW among them.
StoredBlocks ==
    [blockNumber : 0 .. MaxBlockNum, l1RequestNum : Nat, requests : Seq(Requests),
     commitment : Commitments, stateRoot : StateRoots, timestamp : Nat]

\* ExecuteBlock.
ExecuteBlocks == [storedBlock : StoredBlocks, pendingRollupTxPubdata : Seq(Requests)]

GenesisBlock ==
    [blockNumber |-> 0, l1RequestNum |-> 0, requests |-> << >>,
     commitment |-> [from |-> GenesisRoot, to |-> GenesisRoot, offsets |-> {},
                     publicData |-> << >>],
     stateRoot |-> GenesisRoot, timestamp |-> 0]

\* A mapping after its slots from, from + 1, ... were assigned the elements of seq.
Written(mapping, from, seq) ==
    LET slots == from .. from + Len(seq) - 1
    IN  [k \in DOMAIN mapping \cup slots |->
            IF k \in slots THEN seq[k - from + 1] ELSE mapping[k]]

\* A mapping after the blocks were assigned, one after the other, to the slots of
\* their numbers: of blocks with one number the last one stays.
StoredByIndex(mapping, blocks) ==                   \* fault: slots 1, 2, ... of the call
    Written(mapping, 1, blocks)
Stored(mapping, blocks) ==
    LET at(n) == {i \in DOMAIN blocks : blocks[i].blockNumber = n}
    IN  [n \in DOMAIN mapping \cup {blocks[i].blockNumber : i \in DOMAIN blocks} |->
            IF at(n) = {} THEN mapping[n]
            ELSE blocks[CHOOSE i \in at(n) : \A j \in at(n) : j <= i]]

-----------------------------------------------------------------------------
Init ==
    /\ tokenIdOf = [t \in Tokens |-> IF t = WETH THEN RESERVED_TOKEN_NUM ELSE 0]
    /\ tokenNum = FirstTokenNum
    /\ accountIdOf = [u \in Users |-> 0]
    /\ addressOf = [a \in AccountIds |-> NoAddress]
    /\ accountNum = FirstAccountId
    /\ l1RequestQueue = [id \in {} |-> Register(0)]
    /\ firstL1RequestId = 0
    /\ pendingL1RequestNum = 0
    /\ committedL1RequestNum = 0
    /\ storedBlockHashes = [n \in {0} |-> GenesisBlock]
    /\ committedBlockNum = 0
    /\ provedBlockNum = 0
    /\ executedBlockNum = 0
    /\ pendingBalances = [k \in Addresses \X TokenIds |-> 0]
    /\ vault = [t \in Tokens |-> 0]
    /\ commits = [n \in {0} |-> GenesisBlock]
    /\ executions = << >>
    /\ credited = [k \in Addresses \X TokenIds |-> 0]

(***************************************************************************)
(* Tokens, accounts and the L1 request queue.                              *)
(***************************************************************************)
addToken(token) ==
    /\ tokenIdOf[token] = 0
    /\ tokenNum < MaxTokenId
    /\ tokenIdOf' = [tokenIdOf EXCEPT ![token] = tokenNum]
    /\ tokenNum' = tokenNum + 1
    /\ UNCHANGED <<accountVars, queueVars, blockVars, moneyVars, historyVars>>

NextL1RequestIdFromPending == pendingL1RequestNum   \* fault: executed ones forgotten
NextL1RequestId == firstL1RequestId + pendingL1RequestNum

\* _addL1Request, once per element of requests.
AddL1Requests(requests) ==
    LET nextL1RequestId == NextL1RequestId
    IN  /\ nextL1RequestId + Len(requests) <= MaxRequestId
        /\ l1RequestQueue' = Written(l1RequestQueue, nextL1RequestId, requests)
        /\ pendingL1RequestNum' = pendingL1RequestNum + Len(requests)
        /\ UNCHANGED <<firstL1RequestId, committedL1RequestNum>>

\* The deposited tokens move into the contract before the request is queued.
Receive(token, amount) == vault' = [vault EXCEPT ![token] = @ + amount]

NotRegisteredUnchecked(user) == TRUE                \* fault: no require
NotRegistered(user) == accountIdOf[user] = 0

RegisterWithDeposit(user, token, amount) ==
    LET accountId == accountNum
    IN  /\ NotRegistered(user)
        /\ accountNum < MaxAccountId
        /\ accountNum' = accountNum + 1
        /\ accountIdOf' = [accountIdOf EXCEPT ![user] = accountId]
        /\ addressOf' = [addressOf EXCEPT ![accountId] = user]
        /\ AddL1Requests(<<Register(accountId),
                           Deposit(accountId, tokenIdOf[token], amount)>>)
        /\ Receive(token, amount)
        /\ UNCHANGED <<tokenVars, blockVars, pendingBalances, historyVars>>

registerETH(user, amount) == RegisterWithDeposit(user, WETH, amount)
registerERC20(user, token, amount) == RegisterWithDeposit(user, token, amount)

DepositToken(user, token, amount) ==
    /\ accountIdOf[user] # 0
    /\ AddL1Requests(<<Deposit(accountIdOf[user], tokenIdOf[token], amount)>>)
    /\ Receive(token, amount)
    /\ UNCHANGED <<accountVars, tokenVars, blockVars, pendingBalances, historyVars>>

depositETH(user, amount) == DepositToken(user, WETH, amount)
depositERC20(user, token, amount) == DepositToken(user, token, amount)

DebitedNothing(key, amount) == pendingBalances      \* fault: balance not written back
Debited(key, amount) == [pendingBalances EXCEPT ![key] = @ - amount]

\* The token's own transfer fails when the contract holds too little.
WithdrawToken(user, token, amount) ==
    LET key == <<addressOf[accountIdOf[user]], tokenIdOf[token]>>
    IN  /\ accountIdOf[user] # 0
        /\ pendingBalances[key] >= amount
        /\ vault[token] >= amount
        /\ pendingBalances' = Debited(key, amount)
        /\ vault' = [vault EXCEPT ![token] = @ - amount]
        /\ UNCHANGED <<accountVars, tokenVars, queueVars, blockVars, historyVars>>

withdrawETH(user, amount) == WithdrawToken(user, WETH, amount)
withdrawERC20(user, token, amount) == WithdrawToken(user, token, amount)

(***************************************************************************)
(* Blocks.  Anyone may make these three calls.                             *)
(***************************************************************************)

\* L1 requests a request of a block consumes: REGISTER takes the deposit
\* queued with it too, without looking at it.
ConsumedOneEach(request) ==                         \* fault: deposit not skipped
    IF request.opType \in {"REGISTER", "DEPOSIT"} THEN 1 ELSE 0
Consumed(request) ==
    CASE request.opType = "REGISTER" -> 2
      [] request.opType = "DEPOSIT" -> 1
      [] OTHER -> 0

ConsumedBefore(requests) ==
    PrefixSum([j \in 1 .. Len(requests) |-> Consumed(requests[j])])
L1RequestNum(requests) == ConsumedBefore(requests)[Len(requests)]

\* _collectRollupRequests: the offsets are of chunks of the public data, each at
\* most once, in whatever order; what lies at no offset is not looked at.
OffsetsValid(data) ==
    /\ \A i \in DOMAIN data.publicDataOffsets :
          data.publicDataOffsets[i] \in DOMAIN data.publicData
    /\ \A i, j \in DOMAIN data.publicDataOffsets :
          data.publicDataOffsets[i] = data.publicDataOffsets[j] => i = j
Collected(data) ==
    [i \in 1 .. Len(data.publicDataOffsets) |-> data.publicData[data.publicDataOffsets[i]]]

\* Every L1 request of the block is the queue's entry at its place, counted from
\* the first uncommitted request.
CollectsFromQueue(requests, uncommittedL1RequestNum) ==
    \A j \in DOMAIN requests :
        LET requestId == uncommittedL1RequestNum + ConsumedBefore(requests)[j - 1]
        IN  requests[j].opType \in {"REGISTER", "DEPOSIT"} =>
                /\ requestId \in DOMAIN l1RequestQueue
                /\ l1RequestQueue[requestId] = requests[j]

IsWithdraw(request) == request.opType = "WITHDRAW"

ContinuesFrom(last) ==
    /\ committedBlockNum \in DOMAIN storedBlockHashes
    /\ storedBlockHashes[committedBlockNum] = last

\* commitBlocks(last, newBlocks).  Block i of the call starts from block i - 1,
\* the first one from last, and its requests from those the call has committed.
commitBlocks(last, newBlocks) ==
    LET num == [i \in 1 .. Len(newBlocks) |-> L1RequestNum(Collected(newBlocks[i].data))]
        uncommitted(i) == firstL1RequestId + committedL1RequestNum + PrefixSum(num)[i - 1]
        previousRoot(i) == IF i = 1 THEN last.stateRoot ELSE newBlocks[i - 1].newStateRoot
        previousTime(i) == IF i = 1 THEN last.timestamp ELSE newBlocks[i - 1].timestamp
        offsets(i) == {newBlocks[i].data.publicDataOffsets[j] :
                          j \in DOMAIN newBlocks[i].data.publicDataOffsets}
        stored(i) ==
            [blockNumber |-> newBlocks[i].blockNumber,
             l1RequestNum |-> num[i],
             requests |-> Collected(newBlocks[i].data),
             commitment |-> [from |-> previousRoot(i), to |-> newBlocks[i].newStateRoot,
                             offsets |-> offsets(i),
                             publicData |-> newBlocks[i].data.publicData],
             stateRoot |-> newBlocks[i].newStateRoot,
             timestamp |-> newBlocks[i].timestamp]
        blocks == [i \in 1 .. Len(newBlocks) |-> stored(i)]
    IN  /\ ContinuesFrom(last)
        /\ committedBlockNum + Len(newBlocks) <= MaxBlockNum
        /\ \A i \in 1 .. Len(newBlocks) :
              /\ newBlocks[i].timestamp >= previousTime(i)
              /\ OffsetsValid(newBlocks[i].data)
              /\ CollectsFromQueue(Collected(newBlocks[i].data), uncommitted(i))
        /\ committedL1RequestNum' = committedL1RequestNum + Total(num)
        /\ storedBlockHashes' = Stored(storedBlockHashes, blocks)
        /\ commits' = Written(commits, committedBlockNum + 1, blocks)
        /\ committedBlockNum' = committedBlockNum + Len(newBlocks)
        /\ committedL1RequestNum' <= pendingL1RequestNum
        /\ UNCHANGED <<accountVars, tokenVars, l1RequestQueue, firstL1RequestId,
                       pendingL1RequestNum, provedBlockNum, executedBlockNum,
                       moneyVars, executions, credited>>

\* IVerifier.verifyProof: a proof is known by the commitment it proves.
VerifyProof(commitment) == commitment.to \notin BadRoots

\* _proveOneBlock.
ProvesAnything(block, proof) == VerifyProof(proof)  \* fault: commitment not compared
Proves(block, proof) == VerifyProof(proof) /\ proof = block.commitment

\* proveBlocks(committedBlocks, proof).
proveBlocks(committedBlocks, proofs) ==
    /\ \A i \in 1 .. Len(committedBlocks) :
          /\ provedBlockNum + i \in DOMAIN storedBlockHashes
          /\ storedBlockHashes[provedBlockNum + i] = committedBlocks[i]
          /\ Proves(committedBlocks[i], proofs[i])
    /\ provedBlockNum + Len(committedBlocks) <= committedBlockNum
    /\ provedBlockNum' = provedBlockNum + Len(committedBlocks)
    /\ UNCHANGED <<accountVars, tokenVars, queueVars, storedBlockHashes,
                   committedBlockNum, executedBlockNum, moneyVars, historyVars>>

\* What pubdata adds to the balance of addr in token tokenId.
Credit(pubdata, addr, tokenId) ==
    LET credits(op) == /\ IsWithdraw(op)
                       /\ addressOf[op.accountId] = addr
                       /\ op.tokenId = tokenId
    IN  Total([j \in 1 .. Len(pubdata) |->
                 IF credits(pubdata[j]) THEN pubdata[j].amount ELSE 0])

\* The requires of _executeOneBlock for block i of a call.
ExecutableAnyTime(block, i) ==                      \* fault: no check "o3"
    block \in {storedBlockHashes[n] : n \in DOMAIN storedBlockHashes}
Executable(block, i) ==
    /\ block.blockNumber \in DOMAIN storedBlockHashes
    /\ storedBlockHashes[block.blockNumber] = block
    /\ block.blockNumber = executedBlockNum + i

\* executeBlocks(pendingBlocks).  The withdrawals credited are the ones the caller
\* passes: the check against the block's pendingRollupTxHash is commented out.
executeBlocks(pendingBlocks) ==
    LET executedL1RequestNum ==
            Total([i \in 1 .. Len(pendingBlocks) |->
                     pendingBlocks[i].storedBlock.l1RequestNum])
        credit(addr, tokenId) ==
            Total([i \in 1 .. Len(pendingBlocks) |->
                     Credit(pendingBlocks[i].pendingRollupTxPubdata, addr, tokenId)])
    IN  /\ \A i \in 1 .. Len(pendingBlocks) : Executable(pendingBlocks[i].storedBlock, i)
        /\ \A addr \in Addresses, t \in TokenIds :
              pendingBalances[<<addr, t>>] + credit(addr, t) <= MaxAmount
        /\ pendingBalances' =
              [k \in Addresses \X TokenIds |-> pendingBalances[k] + credit(k[1], k[2])]
        /\ credited' = [k \in Addresses \X TokenIds |-> credited[k] + credit(k[1], k[2])]
        /\ committedL1RequestNum >= executedL1RequestNum
        /\ pendingL1RequestNum >= executedL1RequestNum
        /\ firstL1RequestId' = firstL1RequestId + executedL1RequestNum
        /\ committedL1RequestNum' = committedL1RequestNum - executedL1RequestNum
        /\ pendingL1RequestNum' = pendingL1RequestNum - executedL1RequestNum
        /\ executions' = Written(executions, executedBlockNum + 1, pendingBlocks)
        /\ executedBlockNum' = executedBlockNum + Len(pendingBlocks)
        /\ executedBlockNum' <= provedBlockNum
        /\ UNCHANGED <<accountVars, tokenVars, l1RequestQueue, storedBlockHashes,
                       committedBlockNum, provedBlockNum, vault, commits>>

(***************************************************************************)
(* The callers.  They may be behind: they name any block committed so far  *)
(* and any proofs, and the contract accepts the ones in turn.              *)
(***************************************************************************)
KnownBlocks == {commits[n] : n \in DOMAIN commits}

\* The runs of stored blocks a call may pass.
Run(from, len) == [i \in 1 .. len |-> storedBlockHashes[from + i - 1]]
Runs ==
    {Run(r[1], r[2]) :
        r \in {r \in (DOMAIN storedBlockHashes) \X (1 .. MaxBatch) :
                  r[1] .. r[1] + r[2] - 1 \subseteq DOMAIN storedBlockHashes}}

Next ==
    \/ \E t \in Tokens : addToken(t)
    \/ \E u \in Users, a \in Amounts : registerETH(u, a)
    \/ \E u \in Users, t \in Tokens, a \in Amounts : registerERC20(u, t, a)
    \/ \E u \in Users, a \in Amounts : depositETH(u, a)
    \/ \E u \in Users, t \in Tokens, a \in Amounts : depositERC20(u, t, a)
    \/ \E u \in Users, a \in Amounts : withdrawETH(u, a)
    \/ \E u \in Users, t \in Tokens, a \in Amounts : withdrawERC20(u, t, a)
    \/ \E last \in KnownBlocks, n \in 1 .. MaxBatch :
          \E newBlocks \in [1 .. n -> CommitBlocks] : commitBlocks(last, newBlocks)
    \/ \E run \in Runs :
          \E proofs \in [DOMAIN run -> {b.commitment : b \in KnownBlocks}] :
             proveBlocks(run, proofs)
    \/ \E run \in Runs :
          \E pubdata \in [DOMAIN run -> RollupPubdatas] :
             executeBlocks([i \in DOMAIN run |->
                              [storedBlock |-> run[i],
                               pendingRollupTxPubdata |-> pubdata[i]]])

Spec == Init /\ [][Next]_vars

-----------------------------------------------------------------------------
(***************************************************************************)
(* Every variable has its type; exactly the queue slots the counters count *)
(* have been written, and every slot of storedBlockHashes holds a block of *)
(* that number.                                                            *)
(***************************************************************************)
TypeOK ==
    /\ tokenIdOf \in [Tokens -> TokenIds]
    /\ tokenNum \in TokenIds
    /\ accountIdOf \in [Users -> AccountIds]
    /\ addressOf \in [AccountIds -> Addresses]
    /\ accountNum \in FirstAccountId .. MaxAccountId
    /\ firstL1RequestId \in Nat
    /\ pendingL1RequestNum \in Nat
    /\ committedL1RequestNum \in Nat
    /\ l1RequestQueue \in
         [0 .. (firstL1RequestId + pendingL1RequestNum) - 1 -> Requests]
    /\ DOMAIN storedBlockHashes \subseteq 0 .. MaxBlockNum
    /\ storedBlockHashes \in [DOMAIN storedBlockHashes -> StoredBlocks]
    /\ \A n \in DOMAIN storedBlockHashes : storedBlockHashes[n].blockNumber = n
    /\ committedBlockNum \in 0 .. MaxBlockNum
    /\ provedBlockNum \in Nat
    /\ executedBlockNum \in Nat
    /\ pendingBalances \in [Addresses \X TokenIds -> 0 .. MaxAmount]
    /\ vault \in [Tokens -> Nat]
    /\ commits \in [0 .. committedBlockNum -> StoredBlocks]
    /\ executions \in [1 .. executedBlockNum -> ExecuteBlocks]
    /\ credited \in [Addresses \X TokenIds -> Nat]

\* The callers numbered the blocks they committed 1, 2, 3, ...: what the
\* contract does not check and some of what it promises depends on.
Numbered == \A n \in DOMAIN commits : commits[n].blockNumber = n

\* L1 requests consumed by the first n blocks committed: where the next one
\* starts; and by the blocks executed.
L1RequestsThrough(n) == Total([m \in 1 .. n |-> commits[m].l1RequestNum])
L1RequestsExecuted ==
    Total([n \in 1 .. executedBlockNum |-> executions[n].storedBlock.l1RequestNum])

(***************************************************************************)
(* The counters commitBlocks and executeBlocks keep separately agree with  *)
(* the blocks, in whatever batches and under whatever numbers they came:   *)
(* blocks are executed after as many were proved and proved after as many  *)
(* were committed, firstL1RequestId counts the requests of the blocks      *)
(* executed and firstL1RequestId + committedL1RequestNum those of all that *)
(* were committed, within the requests there are.  If the callers numbered *)
(* the blocks in turn, firstL1RequestId is where the executed ones end in  *)
(* the order of the commits: no subtraction of executeBlocks can underflow *)
(* and no execution be refused for that.                                   *)
(***************************************************************************)
CountersAgree ==
    /\ executedBlockNum <= provedBlockNum
    /\ provedBlockNum <= committedBlockNum
    /\ committedL1RequestNum <= pendingL1RequestNum
    /\ firstL1RequestId = L1RequestsExecuted
    /\ firstL1RequestId + committedL1RequestNum = L1RequestsThrough(committedBlockNum)
    /\ Numbered => firstL1RequestId = L1RequestsThrough(executedBlockNum)

(***************************************************************************)
(* Every L1 request of every block committed is, forever, the entry of the *)
(* queue at the block's place in the order of the commits, whatever number *)
(* the block bears: with CountersAgree, each queued request is committed   *)
(* at most once and in the order users made them.                          *)
(***************************************************************************)
CommittedInQueueOrder ==
    \A n \in 1 .. committedBlockNum :
        CollectsFromQueue(commits[n].requests, L1RequestsThrough(n - 1))

(***************************************************************************)
(* A REGISTER entry is directly followed by the deposit of the same        *)
(* account, and no committed block ends between the two.  It is what lets  *)
(* _collectRollupRequests skip the second entry unchecked (the check is    *)
(* commented out): what is skipped is that account's deposit.              *)
(***************************************************************************)
RegisterSkipsItsDeposit ==
    /\ \A id \in DOMAIN l1RequestQueue :
          l1RequestQueue[id].opType = "REGISTER" =>
              /\ id + 1 \in DOMAIN l1RequestQueue
              /\ l1RequestQueue[id + 1].opType = "DEPOSIT"
              /\ l1RequestQueue[id + 1].accountId = l1RequestQueue[id].accountId
    /\ \A n \in 1 .. committedBlockNum :
          L1RequestsThrough(n) > 0 =>
              l1RequestQueue[L1RequestsThrough(n) - 1].opType # "REGISTER"

(***************************************************************************)
(* accountIdOf and addressOf are inverse to each other, and every request  *)
(* in the queue names an account that had been registered: a withdrawal    *)
(* credited to addressOf[accountId] is credited to one user.               *)
(***************************************************************************)
AccountsOneToOne ==
    /\ \A u \in Users : accountIdOf[u] # 0 => addressOf[accountIdOf[u]] = u
    /\ \A a \in AccountIds :
          addressOf[a] # NoAddress => accountIdOf[addressOf[a]] = a
    /\ \A id \in DOMAIN l1RequestQueue :
          addressOf[l1RequestQueue[id].accountId] # NoAddress

(***************************************************************************)
(* If the callers numbered the blocks in turn, the stored blocks 0 ..      *)
(* committedBlockNum are the committed ones and one chain from the genesis *)
(* block: each commitment leads from the state root before it to its own,  *)
(* times never go back, and up to provedBlockNum, so for every block that  *)
(* was executed, only state roots that have a proof.                       *)
(***************************************************************************)
BlocksFormProvedChain ==
    Numbered =>
        \A n \in 1 .. committedBlockNum :
            LET block == storedBlockHashes[n]
                previous == storedBlockHashes[n - 1]
            IN  /\ n - 1 \in DOMAIN storedBlockHashes /\ n \in DOMAIN storedBlockHashes
                /\ block = commits[n]
                /\ block.commitment.from = previous.stateRoot
                /\ block.commitment.to = block.stateRoot
                /\ block.timestamp >= previous.timestamp
                /\ n <= provedBlockNum => block.stateRoot \notin BadRoots
                /\ n <= executedBlockNum => block = executions[n].storedBlock

\* Amounts deposited under a token id, and named by the withdrawals of the
\* executed blocks.
Deposited(tokenId) ==
    Total([i \in 1 .. firstL1RequestId + pendingL1RequestNum |->
             LET request == l1RequestQueue[i - 1]
             IN  IF request.opType = "DEPOSIT" /\ request.tokenId = tokenId
                 THEN request.amount ELSE 0])
ReleasedTo(addr, tokenId) ==
    Total([n \in 1 .. executedBlockNum |->
             Credit(executions[n].storedBlock.requests, addr, tokenId)])

\* The withdrawals of a block, and whether every call passed exactly those of
\* the blocks it executed, which is what the check "o4" compares.
Withdrawals(requests) ==
    Joined([j \in 1 .. Len(requests) |->
              IF IsWithdraw(requests[j]) THEN <<requests[j]>> ELSE << >>])
OwnWithdrawalsPassed ==
    \A n \in 1 .. executedBlockNum :
        executions[n].pendingRollupTxPubdata =
            Withdrawals(executions[n].storedBlock.requests)

\* What user u withdrew, and what the users of all accounts did: the accounts'
\* ids are given out one after the other.
Left(u, tokenId) == credited[<<u, tokenId>>] - pendingBalances[<<u, tokenId>>]
LeftToAll(tokenId) ==
    Total([i \in 1 .. accountNum - FirstAccountId |->
             Left(addressOf[FirstAccountId + i - 1], tokenId)])
Owed(tokenId) == Deposited(tokenId) - LeftToAll(tokenId)

(***************************************************************************)
(* What the contract holds of a whitelisted token covers what was          *)
(* deposited under the token's id less what left through withdrawals (and  *)
(* is exactly that for WETH, whitelisted from the start), and what left    *)
(* for a user is what executeBlocks credited him less what is still        *)
(* pending: nobody is paid twice.  That he is paid only what an executed   *)
(* block released depends on the callers, as the check "o4" is commented   *)
(* out: if each passed the withdrawals of the block it executed, no user   *)
(* was credited more than the blocks executed release to him.              *)
(***************************************************************************)
VaultAccountsForWithdrawals ==
    /\ \A u \in Users, id \in TokenIds :
          /\ Left(u, id) >= 0
          /\ OwnWithdrawalsPassed => credited[<<u, id>>] <= ReleasedTo(u, id)
    /\ \A t \in Tokens : tokenIdOf[t] # 0 => vault[t] >= Owed(tokenIdOf[t])
    /\ vault[WETH] = Owed(tokenIdOf[WETH])

(***************************************************************************)
(* No call rewrites an entry of the queue: the next id, firstL1RequestId + *)
(* pendingL1RequestNum, never comes back although executeBlocks moves both *)
(* counters.                                                               *)
(***************************************************************************)
QueueAppendOnly ==
    [][/\ DOMAIN l1RequestQueue \subseteq DOMAIN l1RequestQueue'
       /\ \A id \in DOMAIN l1RequestQueue :
             l1RequestQueue'[id] = l1RequestQueue[id]]_vars

(***************************************************************************)
(* No call moves a block counter back or changes an account that was given *)
(* out; and a call replaces a block with the number of one that was to be  *)
(* committed already only if its own blocks are numbered out of turn, for  *)
(* nothing else protects a slot.                                           *)
(***************************************************************************)
HistoryPermanent ==
    [][/\ committedBlockNum' >= committedBlockNum
       /\ provedBlockNum' >= provedBlockNum
       /\ executedBlockNum' >= executedBlockNum
       /\ \A u \in Users : accountIdOf[u] # 0 => accountIdOf'[u] = accountIdOf[u]
       /\ \/ \A n \in DOMAIN storedBlockHashes \cap (0 .. committedBlockNum) :
                /\ n \in DOMAIN storedBlockHashes'
                /\ storedBlockHashes'[n] = storedBlockHashes[n]
          \/ \E m \in committedBlockNum + 1 .. committedBlockNum' :
                commits'[m].blockNumber # m]_vars
=============================================================================
