---------------------------- MODULE ZkOBSProofs -----------------------------
(***************************************************************************)
(* Theorems about the contract, for every set of users and tokens, every   *)
(* stream of blocks and every width of its integers.                       *)
(***************************************************************************)
EXTENDS ZkOBSRefinement, PrefixSumsProofs, SequenceTheorems, TLAPS

(***************************************************************************)
(* Operators.                                                              *)
(***************************************************************************)

\* What a block consumes of the queue is a natural number.
LEMMA L1RequestNumType ==
    ASSUME NEW publicData \in Seq(Requests)
    PROVE  L1RequestNum(publicData) \in Nat
<1> DEFINE num == [j \in 1 .. Len(publicData) |-> Consumed(publicData[j])]
<1>1. \A r : Consumed(r) \in Nat
  BY DEF Consumed
<1>2. num \in Seq(Nat) /\ Len(num) = Len(publicData)
  BY <1>1
<1>3. Total(num) \in Nat
  BY <1>2, TotalType
<1>4. QED
  BY <1>2, <1>3 DEF L1RequestNum, ConsumedBefore, Total

\* written is mapping up to slot n, then seq.
SlotsWritten(written, mapping, n, seq) ==
    /\ written = [k \in 0 .. n + Len(seq) - 1 |-> written[k]]
    /\ \A k \in 0 .. n - 1 : written[k] = mapping[k]
    /\ \A k \in n .. n + Len(seq) - 1 :
         k - n + 1 \in 1 .. Len(seq) /\ written[k] = seq[k - n + 1]

\* Writing a sequence behind the last slot extends the mapping and leaves
\* what was written alone.
LEMMA WrittenSlots ==
    ASSUME NEW n \in Nat, NEW mapping, DOMAIN mapping = 0 .. n - 1,
           NEW seq, Len(seq) \in Nat
    PROVE  SlotsWritten(Written(mapping, n, seq), mapping, n, seq)
<1> DEFINE slots == n .. n + Len(seq) - 1
           val(k) == IF k \in slots THEN seq[k - n + 1] ELSE mapping[k]
<1>1. Written(mapping, n, seq) = [k \in (0 .. n - 1) \cup slots |-> val(k)]
  BY DEF Written
<1>2. (0 .. n - 1) \cup slots = 0 .. n + Len(seq) - 1
  OBVIOUS
<1>3. \A k \in 0 .. n - 1 : val(k) = mapping[k]
  OBVIOUS
<1>4. \A k \in slots : val(k) = seq[k - n + 1] /\ k - n + 1 \in 1 .. Len(seq)
  OBVIOUS
<1> HIDE DEF val, slots
<1>5. \A k \in (0 .. n - 1) \cup slots : Written(mapping, n, seq)[k] = val(k)
  BY <1>1
<1> DEFINE w == Written(mapping, n, seq)
<1>6. w = [k \in 0 .. n + Len(seq) - 1 |-> w[k]]
  BY <1>1, <1>2
<1>7. \A k \in 0 .. n - 1 : w[k] = mapping[k]
  BY <1>3, <1>5
<1>8. \A k \in n .. n + Len(seq) - 1 : k - n + 1 \in 1 .. Len(seq) /\ w[k] = seq[k - n + 1]
  BY <1>4, <1>5 DEF slots
<1> HIDE DEF w
<1>9. SlotsWritten(w, mapping, n, seq)
  BY <1>6, <1>7, <1>8 DEF SlotsWritten
<1>10. QED
  BY <1>9 DEF w

\* written is a sequence of e elements followed by seq.
NextWritten(written, mapping, e, seq) ==
    /\ written = [k \in 1 .. e + Len(seq) |-> written[k]]
    /\ \A k \in 1 .. e : written[k] = mapping[k]
    /\ \A i \in 1 .. Len(seq) : written[e + i] = seq[i]

\* Writing behind the last slot where the slots start from 1.
LEMMA WrittenNext ==
    ASSUME NEW e \in Nat, NEW mapping, DOMAIN mapping = 1 .. e,
           NEW seq, Len(seq) \in Nat
    PROVE  NextWritten(Written(mapping, e + 1, seq), mapping, e, seq)
<1> DEFINE slots == e + 1 .. e + 1 + Len(seq) - 1
           val(k) == IF k \in slots THEN seq[k - (e + 1) + 1] ELSE mapping[k]
           w == Written(mapping, e + 1, seq)
<1>1. w = [k \in (1 .. e) \cup slots |-> val(k)]
  BY DEF Written
<1>2. (1 .. e) \cup slots = 1 .. e + Len(seq)
  OBVIOUS
<1>3. \A k \in 1 .. e : val(k) = mapping[k]
  OBVIOUS
<1>4. \A i \in 1 .. Len(seq) : e + i \in slots /\ (e + i) - (e + 1) + 1 = i
  OBVIOUS
<1>5. \A i \in 1 .. Len(seq) : val(e + i) = seq[i]
  BY <1>4
<1> HIDE DEF val, slots, w
<1>6. w = [k \in 1 .. e + Len(seq) |-> w[k]]
  BY <1>1, <1>2
<1>7. \A k \in 1 .. e : w[k] = mapping[k]
  BY <1>1, <1>3
<1>8. \A i \in 1 .. Len(seq) : w[e + i] = seq[i]
  BY <1>1, <1>4, <1>5
<1>9. NextWritten(w, mapping, e, seq)
  BY <1>6, <1>7, <1>8 DEF NextWritten
<1>10. QED
  BY <1>9 DEF w

\* What is found at valid offsets of public data are requests.
LEMMA CollectedType ==
    ASSUME NEW data \in OffsetDatas, OffsetsValid(data)
    PROVE  Collected(data) \in Seq(Requests)
<1> DEFINE offs == data.publicDataOffsets
           pd == data.publicData
<1>1. pd \in Seq(Requests) /\ offs \in Seq(Nat)
  BY DEF OffsetDatas
<1>2. \A i \in 1 .. Len(offs) : pd[offs[i]] \in Requests
  BY <1>1 DEF OffsetsValid
<1>3. Collected(data) = [i \in 1 .. Len(offs) |-> pd[offs[i]]]
  BY DEF Collected
<1> HIDE DEF offs, pd
<1>4. QED
  BY <1>1, <1>2, <1>3

\* What is passed for a block credits an address a natural number.
LEMMA CreditType ==
    ASSUME NEW pd \in Seq(Requests), NEW addr, NEW tokenId
    PROVE  Credit(pd, addr, tokenId) \in Nat
<1> DEFINE credits(op) == /\ IsWithdraw(op)
                          /\ addressOf[op.accountId] = addr
                          /\ op.tokenId = tokenId
           num == [j \in 1 .. Len(pd) |-> IF credits(pd[j]) THEN pd[j].amount ELSE 0]
<1>1. \A j \in 1 .. Len(pd) : pd[j].amount \in Nat
  <2>1. \A j \in 1 .. Len(pd) : pd[j] \in Requests
    OBVIOUS
  <2>2. \A r \in Requests : r.amount \in Nat
    BY DEF Requests
  <2>3. QED
    BY <2>1, <2>2
<1>2. num \in Seq(Nat)
  <2> HIDE DEF credits
  <2>1. QED
    BY <1>1
<1>3. QED
  BY <1>2, TotalType DEF Credit

-----------------------------------------------------------------------------
(***************************************************************************)
(* The inductive invariant behind type correctness and much that follows:  *)
(* as long as callers number blocks in turn, the slots hold the blocks     *)
(* committed.                                                              *)
(***************************************************************************)
BlocksInTurn == Numbered => storedBlockHashes = commits

TypeInv == TypeOK /\ BlocksInTurn

\* The part of TypeOK about blocks and the history.
BlockTypeOK ==
    /\ DOMAIN storedBlockHashes \subseteq 0 .. MaxBlockNum
    /\ storedBlockHashes \in [DOMAIN storedBlockHashes -> StoredBlocks]
    /\ \A n \in DOMAIN storedBlockHashes : storedBlockHashes[n].blockNumber = n
    /\ committedBlockNum \in 0 .. MaxBlockNum
    /\ provedBlockNum \in Nat
    /\ executedBlockNum \in Nat
    /\ commits \in [0 .. committedBlockNum -> StoredBlocks]
    /\ executions \in [1 .. executedBlockNum -> ExecuteBlocks]
    /\ credited \in [Addresses \X TokenIds -> Nat]
    /\ BlocksInTurn

LEMMA BlockTypeKept ==
    ASSUME TypeInv, UNCHANGED <<blockVars, historyVars>>
    PROVE  BlockTypeOK'
<1>1. /\ storedBlockHashes' = storedBlockHashes
      /\ committedBlockNum' = committedBlockNum
      /\ provedBlockNum' = provedBlockNum
      /\ executedBlockNum' = executedBlockNum
      /\ commits' = commits
      /\ executions' = executions
      /\ credited' = credited
  BY DEF blockVars, historyVars
<1>2. BlocksInTurn'
  BY <1>1 DEF TypeInv, BlocksInTurn, Numbered
<1>3. QED
  BY <1>1, <1>2 DEF TypeInv, TypeOK, BlockTypeOK

LEMMA InitTypeInv == Init => TypeInv
<1> SUFFICES ASSUME Init PROVE TypeInv
  OBVIOUS
<1> USE ConstantAssumption DEF Init
<1>1. RESERVED_TOKEN_NUM = 1 /\ FirstTokenNum = 2 /\ FirstAccountId = 100
  BY DEF RESERVED_TOKEN_NUM, FirstTokenNum, FirstAccountId
<1>2. GenesisBlock \in StoredBlocks /\ GenesisBlock.blockNumber = 0
  <2>1. << >> \in Seq(Requests) /\ {} \in SUBSET Nat
    OBVIOUS
  <2>2. QED
    BY <2>1 DEF GenesisBlock, StoredBlocks, Commitments
<1>3. /\ commits \in [0 .. 0 -> StoredBlocks] /\ commits[0] = GenesisBlock
      /\ storedBlockHashes = commits
      /\ DOMAIN storedBlockHashes \subseteq 0 .. MaxBlockNum
  BY <1>2
<1>4. l1RequestQueue \in [0 .. 0 + 0 - 1 -> Requests]
  OBVIOUS
<1>5. tokenIdOf \in [Tokens -> TokenIds] /\ tokenNum \in TokenIds
  BY <1>1 DEF TokenIds
<1>6. accountNum \in FirstAccountId .. MaxAccountId
  BY <1>1
<1>7. /\ accountIdOf \in [Users -> AccountIds]
      /\ addressOf \in [AccountIds -> Addresses]
  BY DEF AccountIds, Addresses
<1>8. pendingBalances \in [Addresses \X TokenIds -> 0 .. MaxAmount] /\ vault \in [Tokens -> Nat]
  OBVIOUS
<1>9. TypeOK
  <2>1. executions \in [1 .. 0 -> ExecuteBlocks]
    OBVIOUS
  <2>2. credited \in [Addresses \X TokenIds -> Nat]
    OBVIOUS
  <2>3. /\ storedBlockHashes \in [DOMAIN storedBlockHashes -> StoredBlocks]
        /\ \A n \in DOMAIN storedBlockHashes : storedBlockHashes[n].blockNumber = n
    BY <1>2, <1>3
  <2>4. QED
    BY <2>1, <2>2, <2>3, <1>3, <1>4, <1>5, <1>6, <1>7, <1>8 DEF TypeOK
<1>10. BlocksInTurn
  BY <1>3 DEF BlocksInTurn
<1>11. QED
  BY <1>9, <1>10 DEF TypeInv

\* The queue's part of TypeOK.
QueueTypeOK ==
    /\ firstL1RequestId \in Nat
    /\ pendingL1RequestNum \in Nat
    /\ committedL1RequestNum \in Nat
    /\ l1RequestQueue \in
         [0 .. (firstL1RequestId + pendingL1RequestNum) - 1 -> Requests]

\* New requests get the slots after the last and leave the others alone.
LEMMA AddL1RequestsType ==
    ASSUME TypeOK, NEW requests \in Seq(Requests), AddL1Requests(requests)
    PROVE  /\ QueueTypeOK'
           /\ \A id \in 0 .. (firstL1RequestId + pendingL1RequestNum) - 1 :
                l1RequestQueue'[id] = l1RequestQueue[id]
<1> DEFINE n == firstL1RequestId + pendingL1RequestNum
<1>1. n \in Nat /\ Len(requests) \in Nat /\ l1RequestQueue \in [0 .. n - 1 -> Requests]
  BY DEF TypeOK
<1>2. /\ l1RequestQueue' = Written(l1RequestQueue, n, requests)
      /\ pendingL1RequestNum' = pendingL1RequestNum + Len(requests)
      /\ firstL1RequestId' = firstL1RequestId
      /\ committedL1RequestNum' = committedL1RequestNum
  BY DEF AddL1Requests, NextL1RequestId
<1>3. /\ l1RequestQueue' \in [0 .. n + Len(requests) - 1 -> Requests]
      /\ \A k \in 0 .. n - 1 : l1RequestQueue'[k] = l1RequestQueue[k]
  <2> HIDE DEF n
  <2>1. /\ l1RequestQueue' =
             [k \in 0 .. n + Len(requests) - 1 |-> l1RequestQueue'[k]]
        /\ \A k \in 0 .. n - 1 : l1RequestQueue'[k] = l1RequestQueue[k]
        /\ \A k \in n .. n + Len(requests) - 1 :
             k - n + 1 \in 1 .. Len(requests) /\ l1RequestQueue'[k] = requests[k - n + 1]
    <3>1. DOMAIN l1RequestQueue = 0 .. n - 1 /\ l1RequestQueue' = Written(l1RequestQueue, n, requests)
      BY <1>1, <1>2
    <3>2. SlotsWritten(Written(l1RequestQueue, n, requests), l1RequestQueue, n, requests)
      BY <1>1, <3>1, WrittenSlots
    <3>3. SlotsWritten(l1RequestQueue', l1RequestQueue, n, requests)
      BY <3>1, <3>2
    <3>4. QED
      BY <3>3 DEF SlotsWritten
  <2>2. \A k \in 0 .. n + Len(requests) - 1 : l1RequestQueue'[k] \in Requests
    <3>1. \A k \in 0 .. n - 1 : l1RequestQueue[k] \in Requests
      BY <1>1
    <3>2. \A j \in 1 .. Len(requests) : requests[j] \in Requests
      OBVIOUS
    <3>3. \A k \in n .. n + Len(requests) - 1 : l1RequestQueue'[k] \in Requests
      BY <2>1, <3>2
    <3>4. QED
      BY <1>1, <2>1, <3>1, <3>3
  <2>3. QED
    BY <2>1, <2>2
<1>4. (firstL1RequestId' + pendingL1RequestNum') - 1 = n + Len(requests) - 1
  <2>1. firstL1RequestId \in Nat /\ pendingL1RequestNum \in Nat
    BY DEF TypeOK
  <2> DEFINE len == Len(requests)
  <2>2. len \in Nat /\ pendingL1RequestNum' = pendingL1RequestNum + len
    BY <1>1, <1>2
  <2> HIDE DEF len
  <2>3. (firstL1RequestId + (pendingL1RequestNum + len)) - 1 = n + len - 1
    BY <2>1, <2>2
  <2>4. QED
    BY <1>2, <2>2, <2>3 DEF len
<1>5. QED
  BY <1>1, <1>2, <1>3, <1>4, SMTT(30) DEF TypeOK, QueueTypeOK

\* The requests that registerETH and the deposits queue are requests.
LEMMA RequestTypes ==
    ASSUME NEW accountId \in AccountIds, NEW tokenId \in TokenIds, NEW amount \in Amounts
    PROVE  /\ Register(accountId) \in Requests
           /\ Deposit(accountId, tokenId, amount) \in Requests
<1>1. 0 \in TokenIds /\ 0 \in 0 .. MaxAmount /\ amount \in 0 .. MaxAmount
  BY ConstantAssumption DEF TokenIds
<1>2. QED
  BY <1>1 DEF Requests, Register, Deposit

\* A new token gets the next id, within uint16.
LEMMA AddTokenType ==
    ASSUME TypeInv, NEW token \in Tokens, addToken(token)
    PROVE  TypeInv'
<1>1. tokenNum \in TokenIds /\ tokenNum + 1 \in TokenIds
  BY ConstantAssumption, SMTT(30) DEF TypeInv, TypeOK, addToken, TokenIds
<1>2. QED
  BY <1>1, BlockTypeKept DEF TypeInv, TypeOK, BlockTypeOK, addToken,
              accountVars, queueVars, moneyVars

\* A new account gets the next id, within uint32.
LEMMA RegisterType ==
    ASSUME TypeInv, NEW user \in Users, NEW token \in Tokens, NEW amount \in Amounts,
           RegisterWithDeposit(user, token, amount)
    PROVE  TypeInv'
<1> USE DEF TypeInv
<1>1. /\ accountNum \in AccountIds
      /\ accountNum' \in FirstAccountId .. MaxAccountId
      /\ amount \in Nat
  <2>1. /\ accountNum \in FirstAccountId .. MaxAccountId
        /\ accountNum < MaxAccountId /\ accountNum' = accountNum + 1
    BY DEF TypeOK, RegisterWithDeposit
  <2>2. MaxAccountId \in Nat /\ amount \in 0 .. MaxAmount /\ MaxAmount \in Nat
    BY ConstantAssumption
  <2>3. QED
    BY <2>1, <2>2 DEF AccountIds, FirstAccountId
<1>2. <<Register(accountNum), Deposit(accountNum, tokenIdOf[token], amount)>> \in Seq(Requests)
  <2>1. tokenIdOf[token] \in TokenIds
    BY DEF TypeOK
  <2>2. QED
    BY <1>1, <2>1, RequestTypes
<1>3. QueueTypeOK'
  BY <1>2, AddL1RequestsType DEF RegisterWithDeposit
<1>4. /\ accountIdOf' \in [Users -> AccountIds]
      /\ addressOf' \in [AccountIds -> Addresses]
  BY <1>1 DEF TypeOK, RegisterWithDeposit, Addresses
<1>5. vault' \in [Tokens -> Nat]
  BY <1>1 DEF TypeOK, RegisterWithDeposit, Receive
<1>6. BlockTypeOK'
  BY BlockTypeKept DEF RegisterWithDeposit
<1>7. QED
  BY <1>1, <1>3, <1>4, <1>5, <1>6
     DEF TypeOK, QueueTypeOK, BlockTypeOK, RegisterWithDeposit, tokenVars

\* A deposit's amount fits the vault's and the request's type.
LEMMA DepositType ==
    ASSUME TypeInv, NEW user \in Users, NEW token \in Tokens, NEW amount \in Amounts,
           DepositToken(user, token, amount)
    PROVE  TypeInv'
<1> USE DEF TypeInv
<1>1. amount \in Nat
  BY ConstantAssumption
<1>2. <<Deposit(accountIdOf[user], tokenIdOf[token], amount)>> \in Seq(Requests)
  <2>1. tokenIdOf[token] \in TokenIds /\ accountIdOf[user] \in AccountIds
    BY DEF TypeOK
  <2>2. QED
    BY <2>1, RequestTypes
<1>3. QueueTypeOK'
  BY <1>2, AddL1RequestsType DEF DepositToken
<1>4. vault' \in [Tokens -> Nat]
  BY <1>1 DEF TypeOK, DepositToken, Receive
<1>5. BlockTypeOK'
  BY BlockTypeKept DEF DepositToken
<1>6. QED
  BY <1>3, <1>4, <1>5 DEF TypeOK, QueueTypeOK, BlockTypeOK, DepositToken,
                          accountVars, tokenVars

\* A withdrawal is within what is pending and what the vault holds.
LEMMA WithdrawType ==
    ASSUME TypeInv, NEW user \in Users, NEW token \in Tokens, NEW amount \in Amounts,
           WithdrawToken(user, token, amount)
    PROVE  TypeInv'
<1> USE DEF TypeInv
<1> DEFINE key == <<addressOf[accountIdOf[user]], tokenIdOf[token]>>
<1>1. amount \in Nat
  BY ConstantAssumption
<1>2. key \in Addresses \X TokenIds
  BY DEF TypeOK
<1>3. /\ pendingBalances[key] \in 0 .. MaxAmount
      /\ pendingBalances[key] >= amount
      /\ vault[token] \in Nat /\ vault[token] >= amount
  BY <1>2 DEF TypeOK, WithdrawToken
<1>4. pendingBalances[key] - amount \in 0 .. MaxAmount /\ vault[token] - amount \in Nat
  BY <1>1, <1>3, ConstantAssumption
<1>5. pendingBalances' \in [Addresses \X TokenIds -> 0 .. MaxAmount]
  BY <1>2, <1>4 DEF TypeOK, WithdrawToken, Debited
<1>6. vault' \in [Tokens -> Nat]
  BY <1>4 DEF TypeOK, WithdrawToken
<1>7. BlockTypeOK'
  BY BlockTypeKept DEF WithdrawToken
<1>8. QED
  BY <1>5, <1>6, <1>7 DEF TypeOK, BlockTypeOK, WithdrawToken,
                          accountVars, tokenVars, queueVars

\* What storing blocks leaves in the slots: in each the last block of its number,
\* or what was there.
SlotsStored(slots, mapping, blocks, n) ==
    /\ slots = [k \in DOMAIN slots |-> slots[k]]
    /\ DOMAIN slots = DOMAIN mapping \cup {blocks[i].blockNumber : i \in 1 .. n}
    /\ \A k \in DOMAIN slots :
          \/ /\ k \in DOMAIN mapping /\ slots[k] = mapping[k]
             /\ \A i \in 1 .. n : blocks[i].blockNumber # k
          \/ \E i \in 1 .. n : blocks[i].blockNumber = k /\ slots[k] = blocks[i]

LEMMA StoredSlots ==
    ASSUME NEW mapping, NEW n \in Nat, NEW blocks, DOMAIN blocks = 1 .. n
    PROVE  SlotsStored(Stored(mapping, blocks), mapping, blocks, n)
<1> DEFINE at(k) == {i \in 1 .. n : blocks[i].blockNumber = k}
           max(k) == CHOOSE i \in at(k) : \A j \in at(k) : j <= i
           slots == DOMAIN mapping \cup {blocks[i].blockNumber : i \in 1 .. n}
           val(k) == IF at(k) = {} THEN mapping[k] ELSE blocks[max(k)]
<1>1. Stored(mapping, blocks) = [k \in slots |-> val(k)]
  BY DEF Stored
<1>2. ASSUME NEW k, at(k) # {}
      PROVE  max(k) \in at(k)
  <2>1. \E i \in at(k) : \A j \in at(k) : j <= i
    <3> DEFINE back == {n - i : i \in at(k)}
    <3>1. back \in SUBSET Nat /\ back # {}
      BY <1>2
    <3>2. PICK m \in back : \A b \in back : m <= b
      <4> HIDE DEF back
      <4>1. QED
        BY <3>1, LeastNat
    <3>3. PICK i \in at(k) : m = n - i
      BY <3>2
    <3>4. \A j \in at(k) : n - i <= n - j
      BY <3>2, <3>3
    <3>5. QED
      BY <3>3, <3>4
  <2> HIDE DEF at
  <2>2. QED
    BY <2>1
<1>3. ASSUME NEW k \in slots
      PROVE  \/ /\ k \in DOMAIN mapping /\ val(k) = mapping[k]
                /\ \A i \in 1 .. n : blocks[i].blockNumber # k
             \/ \E i \in 1 .. n : blocks[i].blockNumber = k /\ val(k) = blocks[i]
  <2>1. CASE at(k) = {}
    BY <1>3, <2>1
  <2>2. CASE at(k) # {}
    <3>1. max(k) \in at(k) /\ val(k) = blocks[max(k)]
      BY <1>2, <2>2
    <3> HIDE DEF max, val
    <3>2. QED
      BY <3>1
  <2>3. QED
    BY <2>1, <2>2
<1> HIDE DEF val, slots
<1>4. QED
  BY <1>1, <1>3, SMTT(30) DEF SlotsStored, slots

\* Block i of a call, as commitBlocks stores it.
NewBlock(last, newBlocks, i) ==
    [blockNumber |-> newBlocks[i].blockNumber,
     l1RequestNum |-> L1RequestNum(Collected(newBlocks[i].data)),
     requests |-> Collected(newBlocks[i].data),
     commitment |-> [from |-> IF i = 1 THEN last.stateRoot ELSE newBlocks[i - 1].newStateRoot,
                     to |-> newBlocks[i].newStateRoot,
                     offsets |-> {newBlocks[i].data.publicDataOffsets[j] :
                                     j \in DOMAIN newBlocks[i].data.publicDataOffsets},
                     publicData |-> newBlocks[i].data.publicData],
     stateRoot |-> newBlocks[i].newStateRoot,
     timestamp |-> newBlocks[i].timestamp]
CallBlocks(last, newBlocks) == [i \in 1 .. Len(newBlocks) |-> NewBlock(last, newBlocks, i)]

\* The blocks of a call are stored blocks.
LEMMA NewBlockType ==
    ASSUME NEW last \in StoredBlocks, NEW n \in Nat, NEW newBlocks \in [1 .. n -> CommitBlocks],
           NEW i \in 1 .. n, OffsetsValid(newBlocks[i].data)
    PROVE  /\ NewBlock(last, newBlocks, i) \in StoredBlocks
           /\ Collected(newBlocks[i].data) \in Seq(Requests)
<1> DEFINE data == newBlocks[i].data
           offsets == {data.publicDataOffsets[j] : j \in DOMAIN data.publicDataOffsets}
           from == IF i = 1 THEN last.stateRoot ELSE newBlocks[i - 1].newStateRoot
<1>1. /\ newBlocks[i].newStateRoot \in StateRoots
      /\ newBlocks[i].timestamp \in Nat
      /\ newBlocks[i].blockNumber \in 0 .. MaxBlockNum
      /\ data \in OffsetDatas
  BY ConstantAssumption, PublicDataAssumption DEF CommitBlocks
<1>2. data.publicData \in Seq(Requests) /\ offsets \in SUBSET Nat
  BY <1>1 DEF OffsetDatas
<1>3. Collected(data) \in Seq(Requests) /\ L1RequestNum(Collected(data)) \in Nat
  BY <1>1, CollectedType, L1RequestNumType
<1>4. from \in StateRoots
  <2>1. CASE i = 1
    BY <2>1 DEF StoredBlocks
  <2>2. CASE i # 1
    <3>1. newBlocks[i - 1] \in CommitBlocks
      BY <2>2
    <3>2. QED
      BY <2>2, <3>1 DEF CommitBlocks
  <2>3. QED
    BY <2>1, <2>2
<1>5. NewBlock(last, newBlocks, i) =
        [blockNumber |-> newBlocks[i].blockNumber,
         l1RequestNum |-> L1RequestNum(Collected(data)),
         requests |-> Collected(data),
         commitment |-> [from |-> from, to |-> newBlocks[i].newStateRoot,
                         offsets |-> offsets, publicData |-> data.publicData],
         stateRoot |-> newBlocks[i].newStateRoot,
         timestamp |-> newBlocks[i].timestamp]
  BY DEF NewBlock
<1> HIDE DEF data, offsets, from
<1>6. NewBlock(last, newBlocks, i) \in StoredBlocks
  BY <1>1, <1>2, <1>3, <1>4, <1>5 DEF StoredBlocks, Commitments
<1>7. QED
  BY <1>3, <1>6 DEF data

\* What commitBlocks leaves behind, block by block.
CommitStored(last, n, newBlocks) ==
    /\ committedBlockNum' = committedBlockNum + n
    /\ committedBlockNum' \in 0 .. MaxBlockNum
    /\ commits' \in [0 .. committedBlockNum + n -> StoredBlocks]
    /\ \A k \in 0 .. committedBlockNum : commits'[k] = commits[k]
    /\ committedBlockNum \in DOMAIN storedBlockHashes
    /\ last = storedBlockHashes[committedBlockNum]
    /\ \A i \in 1 .. n :
          /\ commits'[committedBlockNum + i] = NewBlock(last, newBlocks, i)
          /\ commits'[committedBlockNum + i].l1RequestNum =
               L1RequestNum(Collected(newBlocks[i].data))
          /\ Collected(newBlocks[i].data) \in Seq(Requests)
    /\ committedL1RequestNum' =
         committedL1RequestNum
         + Total([i \in 1 .. n |-> L1RequestNum(Collected(newBlocks[i].data))])
    /\ committedL1RequestNum' <= pendingL1RequestNum
    /\ storedBlockHashes' = Stored(storedBlockHashes, CallBlocks(last, newBlocks))
    /\ UNCHANGED <<accountVars, tokenVars, l1RequestQueue, firstL1RequestId,
                   pendingL1RequestNum, provedBlockNum, executedBlockNum, moneyVars,
                   executions, credited>>

LEMMA CommitStores ==
    ASSUME TypeInv, NEW last, NEW n \in Nat, NEW newBlocks \in [1 .. n -> CommitBlocks],
           commitBlocks(last, newBlocks)
    PROVE  CommitStored(last, n, newBlocks)
<1> DEFINE c == committedBlockNum
           num == [i \in 1 .. n |-> L1RequestNum(Collected(newBlocks[i].data))]
           seq == CallBlocks(last, newBlocks)
<1>1. Len(newBlocks) = n /\ Len(num) = n
  OBVIOUS
<1>2. seq = [i \in 1 .. n |-> NewBlock(last, newBlocks, i)] /\ Len(seq) = n
  BY <1>1 DEF CallBlocks
<1>3. /\ c \in DOMAIN storedBlockHashes
      /\ last = storedBlockHashes[c] /\ last \in StoredBlocks
  BY DEF TypeInv, TypeOK, commitBlocks, ContinuesFrom
<1>4. c \in Nat /\ c + n <= MaxBlockNum
  BY <1>1 DEF commitBlocks, TypeInv, TypeOK
<1>5. \A i \in 1 .. n : OffsetsValid(newBlocks[i].data)
  BY <1>1 DEF commitBlocks
<1>6. \A i \in 1 .. n : /\ NewBlock(last, newBlocks, i) \in StoredBlocks
                        /\ Collected(newBlocks[i].data) \in Seq(Requests)
  BY <1>3, <1>5, NewBlockType
<1>7. /\ commits' = Written(commits, c + 1, seq)
      /\ storedBlockHashes' = Stored(storedBlockHashes, seq)
      /\ committedBlockNum' = c + n
      /\ committedL1RequestNum' = committedL1RequestNum + Total(num)
      /\ committedL1RequestNum' <= pendingL1RequestNum
  <2> DEFINE num0 == [i \in 1 .. Len(newBlocks) |-> L1RequestNum(Collected(newBlocks[i].data))]
             previousRoot(i) == IF i = 1 THEN last.stateRoot ELSE newBlocks[i - 1].newStateRoot
             stored(i) ==
                 [blockNumber |-> newBlocks[i].blockNumber,
                  l1RequestNum |-> num0[i],
                  requests |-> Collected(newBlocks[i].data),
                  commitment |-> [from |-> previousRoot(i), to |-> newBlocks[i].newStateRoot,
                                  offsets |-> {newBlocks[i].data.publicDataOffsets[j] :
                                      j \in DOMAIN newBlocks[i].data.publicDataOffsets},
                                  publicData |-> newBlocks[i].data.publicData],
                  stateRoot |-> newBlocks[i].newStateRoot,
                  timestamp |-> newBlocks[i].timestamp]
             blocks == [i \in 1 .. Len(newBlocks) |-> stored(i)]
  <2>1. /\ commits' = Written(commits, c + 1, blocks)
        /\ storedBlockHashes' = Stored(storedBlockHashes, blocks)
        /\ committedBlockNum' = c + Len(newBlocks)
        /\ committedL1RequestNum' = committedL1RequestNum + Total(num0)
        /\ committedL1RequestNum' <= pendingL1RequestNum
    BY DEF commitBlocks
  <2>2. num0 = num
    BY <1>1
  <2>3. \A i \in 1 .. Len(newBlocks) : stored(i) = NewBlock(last, newBlocks, i)
    BY DEF NewBlock
  <2>4. blocks = seq
    <3> HIDE DEF stored
    <3>1. QED
      BY <2>3 DEF CallBlocks
  <2> HIDE DEF num0, num, seq, blocks
  <2>5. QED
    BY <1>1, <2>1, <2>2, <2>4
<1> HIDE DEF seq, num
<1> DEFINE from == c + 1
<1>9. DOMAIN commits = 0 .. from - 1 /\ from \in Nat
  BY <1>4, SMTT(30) DEF TypeInv, TypeOK
<1>10. /\ commits' = [k \in 0 .. from + n - 1 |-> commits'[k]]
       /\ \A k \in 0 .. from - 1 : commits'[k] = commits[k]
       /\ \A k \in from .. from + n - 1 :
            k - from + 1 \in 1 .. n /\ commits'[k] = seq[k - from + 1]
  <2> HIDE DEF from
  <2>1. commits' = Written(commits, from, seq)
    BY <1>7 DEF from
  <2>2. Len(seq) = n /\ Len(seq) \in Nat
    BY <1>2
  <2>3. SlotsWritten(commits', commits, from, seq)
    BY <1>9, <2>1, <2>2, WrittenSlots
  <2>4. QED
    BY <2>2, <2>3 DEF SlotsWritten
<1>11. \A i \in 1 .. n : commits'[c + i] = NewBlock(last, newBlocks, i)
  <2> SUFFICES ASSUME NEW i \in 1 .. n PROVE commits'[c + i] = NewBlock(last, newBlocks, i)
    OBVIOUS
  <2>1. c + i \in c + 1 .. c + 1 + n - 1 /\ (c + i) - (c + 1) + 1 = i
    BY <1>4
  <2>2. QED
    BY <2>1, <1>2, <1>10
<1>12. \A k \in 0 .. c : commits'[k] = commits[k]
  BY <1>4, <1>10
<1>13. commits' \in [0 .. c + n -> StoredBlocks]
  <2>1. \A k \in 0 .. c : commits'[k] \in StoredBlocks
    BY <1>12 DEF TypeInv, TypeOK
  <2>2. \A k \in c + 1 .. c + n : commits'[k] \in StoredBlocks
    <3> SUFFICES ASSUME NEW k \in c + 1 .. c + n
                 PROVE  commits'[k] \in StoredBlocks
      OBVIOUS
    <3>1. k - c \in 1 .. n /\ c + (k - c) = k
      BY <1>4
    <3>2. QED
      BY <3>1, <1>6, <1>11
  <2>3. c + 1 + n - 1 = c + n
    BY <1>4
  <2>4. \A k \in 0 .. c + n : k \in 0 .. c \/ k \in c + 1 .. c + n
    BY <1>4
  <2> HIDE DEF c
  <2>5. QED
    BY <2>1, <2>2, <2>3, <2>4, <1>10
<1>14. c + n \in 0 .. MaxBlockNum
  BY <1>4, ConstantAssumption
<1>15. UNCHANGED <<accountVars, tokenVars, l1RequestQueue, firstL1RequestId,
                   pendingL1RequestNum, provedBlockNum, executedBlockNum, moneyVars,
                   executions, credited>>
  BY DEF commitBlocks
<1>16. \A i \in 1 .. n :
         NewBlock(last, newBlocks, i).l1RequestNum = L1RequestNum(Collected(newBlocks[i].data))
  BY DEF NewBlock
<1>17. \A i \in 1 .. n :
         commits'[c + i].l1RequestNum = L1RequestNum(Collected(newBlocks[i].data))
  BY <1>11, <1>16
<1>18. QED
  BY <1>3, <1>6, <1>7, <1>11, <1>12, <1>13, <1>14, <1>15, <1>17 DEF num, seq, CommitStored

\* If the blocks are numbered in turn, then those committed before were, and
\* those of the call are the next.
LEMMA NumberedBefore ==
    ASSUME TypeInv, NEW last, NEW n \in Nat, NEW newBlocks \in [1 .. n -> CommitBlocks],
           commitBlocks(last, newBlocks), Numbered'
    PROVE  /\ Numbered
           /\ storedBlockHashes = commits
           /\ \A i \in 1 .. n : newBlocks[i].blockNumber = committedBlockNum + i
<1> DEFINE c == committedBlockNum
<1>1. /\ commits' \in [0 .. c + n -> StoredBlocks]
      /\ \A k \in 0 .. c : commits'[k] = commits[k]
      /\ \A i \in 1 .. n : commits'[c + i] = NewBlock(last, newBlocks, i)
  <2>1. CommitStored(last, n, newBlocks)
    BY CommitStores
  <2>2. QED
    BY <2>1 DEF CommitStored
<1>2. c \in Nat /\ DOMAIN commits = 0 .. c
  BY DEF TypeInv, TypeOK
<1>3. \A k \in 0 .. c + n : commits'[k].blockNumber = k
  BY <1>1 DEF Numbered
<1>4. Numbered
  BY <1>1, <1>2, <1>3 DEF Numbered
<1>5. \A i \in 1 .. n : newBlocks[i].blockNumber = c + i
  <2> SUFFICES ASSUME NEW i \in 1 .. n PROVE newBlocks[i].blockNumber = c + i
    OBVIOUS
  <2>1. c + i \in 0 .. c + n
    BY <1>2
  <2>2. NewBlock(last, newBlocks, i).blockNumber = newBlocks[i].blockNumber
    BY DEF NewBlock
  <2>3. QED
    BY <1>1, <1>3, <2>1, <2>2
<1>6. QED
  BY <1>4, <1>5 DEF TypeInv, BlocksInTurn

\* After a call every slot holds a block of its number, and the committed ones
\* if all were numbered in turn.
LEMMA CommitSlots ==
    ASSUME TypeInv, NEW last, NEW n \in Nat, NEW newBlocks \in [1 .. n -> CommitBlocks],
           commitBlocks(last, newBlocks)
    PROVE  /\ DOMAIN storedBlockHashes' \subseteq 0 .. MaxBlockNum
           /\ storedBlockHashes' \in [DOMAIN storedBlockHashes' -> StoredBlocks]
           /\ \A k \in DOMAIN storedBlockHashes' : storedBlockHashes'[k].blockNumber = k
           /\ BlocksInTurn'
<1> DEFINE c == committedBlockNum
           blocks == CallBlocks(last, newBlocks)
<1>1. /\ commits' \in [0 .. c + n -> StoredBlocks]
      /\ \A k \in 0 .. c : commits'[k] = commits[k]
      /\ \A i \in 1 .. n : commits'[c + i] = NewBlock(last, newBlocks, i)
      /\ storedBlockHashes' = Stored(storedBlockHashes, blocks)
  <2>1. CommitStored(last, n, newBlocks)
    BY CommitStores
  <2>2. QED
    BY <2>1 DEF CommitStored
<1>2. c \in Nat
  BY DEF TypeInv, TypeOK
<1>3. DOMAIN blocks = 1 .. n /\ \A i \in 1 .. n : blocks[i] = NewBlock(last, newBlocks, i)
  BY DEF CallBlocks
<1>4. \A i \in 1 .. n : blocks[i] \in StoredBlocks
  <2> SUFFICES ASSUME NEW i \in 1 .. n PROVE blocks[i] \in StoredBlocks
    OBVIOUS
  <2>1. c + i \in 0 .. c + n
    BY <1>2
  <2>2. QED
    BY <1>1, <1>3, <2>1
<1> HIDE DEF blocks
<1>5. SlotsStored(storedBlockHashes', storedBlockHashes, blocks, n)
  BY <1>1, <1>3, StoredSlots
<1>6. /\ storedBlockHashes' = [k \in DOMAIN storedBlockHashes' |-> storedBlockHashes'[k]]
      /\ DOMAIN storedBlockHashes' =
           DOMAIN storedBlockHashes \cup {blocks[i].blockNumber : i \in 1 .. n}
      /\ \A k \in DOMAIN storedBlockHashes' :
            \/ /\ k \in DOMAIN storedBlockHashes /\ storedBlockHashes'[k] = storedBlockHashes[k]
               /\ \A i \in 1 .. n : blocks[i].blockNumber # k
            \/ \E i \in 1 .. n :
                  blocks[i].blockNumber = k /\ storedBlockHashes'[k] = blocks[i]
  BY <1>5 DEF SlotsStored
<1>7. \A k \in DOMAIN storedBlockHashes' :
        /\ storedBlockHashes'[k] \in StoredBlocks
        /\ storedBlockHashes'[k].blockNumber = k
  BY <1>4, <1>6 DEF TypeInv, TypeOK
<1>8. DOMAIN storedBlockHashes' \subseteq 0 .. MaxBlockNum
  <2>1. \A b \in StoredBlocks : b.blockNumber \in 0 .. MaxBlockNum
    BY DEF StoredBlocks
  <2>2. \A k \in DOMAIN storedBlockHashes' : k \in 0 .. MaxBlockNum
    BY <1>7, <2>1
  <2>3. QED
    BY <2>2
<1>9. storedBlockHashes' \in [DOMAIN storedBlockHashes' -> StoredBlocks]
  BY <1>6, <1>7
<1>10. BlocksInTurn'
  <2> SUFFICES ASSUME Numbered' PROVE storedBlockHashes' = commits'
    BY DEF BlocksInTurn
  <2>1. /\ storedBlockHashes = commits
        /\ \A i \in 1 .. n : newBlocks[i].blockNumber = c + i
    BY NumberedBefore
  <2>2. \A i \in 1 .. n : blocks[i].blockNumber = c + i
    BY <1>3, <2>1 DEF NewBlock
  <2>3. DOMAIN storedBlockHashes = 0 .. c
    BY <2>1 DEF TypeInv, TypeOK
  <2>4. {blocks[i].blockNumber : i \in 1 .. n} = c + 1 .. c + n
    <3>1. \A i \in 1 .. n : c + i \in c + 1 .. c + n
      BY <1>2
    <3>2. \A k \in c + 1 .. c + n : k - c \in 1 .. n /\ k = c + (k - c)
      BY <1>2
    <3>3. QED
      BY <2>2, <3>1, <3>2, SMTT(30)
  <2>5. DOMAIN storedBlockHashes' = 0 .. c + n
    <3>1. 0 .. c + n = (0 .. c) \cup (c + 1 .. c + n)
      BY <1>2
    <3>2. QED
      BY <1>6, <2>3, <2>4, <3>1
  <2>6. \A k \in 0 .. c + n : storedBlockHashes'[k] = commits'[k]
    <3> SUFFICES ASSUME NEW k \in 0 .. c + n
                 PROVE  storedBlockHashes'[k] = commits'[k]
      OBVIOUS
    <3>1. CASE k \in DOMAIN storedBlockHashes /\ storedBlockHashes'[k] = storedBlockHashes[k]
      BY <1>1, <2>1, <2>3, <3>1
    <3>2. CASE \E i \in 1 .. n :
                  blocks[i].blockNumber = k /\ storedBlockHashes'[k] = blocks[i]
      BY <1>1, <1>3, <2>2, <3>2
    <3>3. QED
      BY <1>6, <2>5, <3>1, <3>2
  <2>7. commits' = [k \in 0 .. c + n |-> commits'[k]]
    BY <1>1
  <2>8. storedBlockHashes' = [k \in 0 .. c + n |-> storedBlockHashes'[k]]
    BY <1>6, <2>5
  <2>9. QED
    BY <2>6, <2>7, <2>8
<1>11. QED
  BY <1>7, <1>8, <1>9, <1>10

\* A batch is within the requests pending and the block numbers left.
LEMMA CommitType ==
    ASSUME TypeInv, NEW last, NEW n \in Nat, NEW newBlocks \in [1 .. n -> CommitBlocks],
           commitBlocks(last, newBlocks)
    PROVE  TypeInv'
<1> DEFINE c == committedBlockNum
<1>1. /\ committedBlockNum' = c + n
      /\ committedBlockNum' \in 0 .. MaxBlockNum
      /\ commits' \in [0 .. c + n -> StoredBlocks]
      /\ committedL1RequestNum' =
           committedL1RequestNum
           + Total([i \in 1 .. n |-> L1RequestNum(Collected(newBlocks[i].data))])
      /\ \A i \in 1 .. n : Collected(newBlocks[i].data) \in Seq(Requests)
      /\ UNCHANGED <<accountVars, tokenVars, l1RequestQueue, firstL1RequestId,
                     pendingL1RequestNum, provedBlockNum, executedBlockNum, moneyVars,
                     executions, credited>>
  <2>1. CommitStored(last, n, newBlocks)
    BY CommitStores
  <2>2. QED
    BY <2>1 DEF CommitStored
<1>2. committedL1RequestNum' \in Nat
  <2> DEFINE num == [i \in 1 .. n |-> L1RequestNum(Collected(newBlocks[i].data))]
  <2>1. num \in Seq(Nat)
    BY <1>1, L1RequestNumType
  <2>2. Total(num) \in Nat
    BY <2>1, TotalType
  <2> HIDE DEF num
  <2>3. committedL1RequestNum' = committedL1RequestNum + Total(num)
    BY <1>1 DEF num
  <2>4. QED
    BY <2>2, <2>3 DEF TypeInv, TypeOK
<1>3. /\ DOMAIN storedBlockHashes' \subseteq 0 .. MaxBlockNum
      /\ storedBlockHashes' \in [DOMAIN storedBlockHashes' -> StoredBlocks]
      /\ \A k \in DOMAIN storedBlockHashes' : storedBlockHashes'[k].blockNumber = k
      /\ BlocksInTurn'
  BY CommitSlots
<1>4. TypeOK'
  <2>1. commits' \in [0 .. committedBlockNum' -> StoredBlocks]
    BY <1>1
  <2>2. QED
    BY <1>1, <1>2, <1>3, <2>1 DEF TypeInv, TypeOK, accountVars, tokenVars, moneyVars
<1>5. QED
  BY <1>3, <1>4 DEF TypeInv

\* Proving only moves the counter of proved blocks.
LEMMA ProveType ==
    ASSUME TypeInv, NEW run, Len(run) \in Nat, NEW proofs, proveBlocks(run, proofs)
    PROVE  TypeInv'
BY SMTT(30) DEF TypeInv, TypeOK, BlocksInTurn, Numbered, proveBlocks,
       accountVars, tokenVars, queueVars, moneyVars, historyVars

\* A run of known blocks is a sequence of them.
LEMMA RunType ==
    ASSUME TypeInv, NEW run \in Runs
    PROVE  run \in Seq(StoredBlocks)
<1>1. PICK from \in DOMAIN storedBlockHashes, len \in 1 .. MaxBatch :
           /\ from .. from + len - 1 \subseteq DOMAIN storedBlockHashes
           /\ run = [i \in 1 .. len |-> storedBlockHashes[from + i - 1]]
  BY DEF Runs, Run
<1>2. DOMAIN storedBlockHashes \subseteq Nat
  BY DEF TypeInv, TypeOK
<1>3. len \in Nat /\ from \in Nat
  BY <1>2, ConstantAssumption
<1>4. \A i \in 1 .. len : storedBlockHashes[from + i - 1] \in StoredBlocks
  <2> SUFFICES ASSUME NEW i \in 1 .. len
               PROVE  storedBlockHashes[from + i - 1] \in StoredBlocks
    OBVIOUS
  <2>1. from + i - 1 \in from .. from + len - 1
    BY <1>3
  <2>2. QED
    BY <1>1, <2>1 DEF TypeInv, TypeOK
<1>5. QED
  BY <1>1, <1>3, <1>4

\* What a call of executeBlocks passes.
Passed(run, pubdata) ==
    [i \in DOMAIN run |->
        [storedBlock |-> run[i], pendingRollupTxPubdata |-> pubdata[i]]]

LEMMA PassedType ==
    ASSUME TypeInv, NEW run \in Runs, NEW pubdata \in [DOMAIN run -> RollupPubdatas]
    PROVE  Passed(run, pubdata) \in Seq(ExecuteBlocks)
<1>1. run \in Seq(StoredBlocks)
  BY RunType
<1>2. DOMAIN run = 1 .. Len(run) /\ Len(run) \in Nat
  BY <1>1
<1>3. \A i \in 1 .. Len(run) : run[i] \in StoredBlocks
  BY <1>1
<1>4. \A i \in 1 .. Len(run) : pubdata[i] \in Seq(Requests)
  BY <1>2, PublicDataAssumption
<1>5. QED
  BY <1>2, <1>3, <1>4 DEF Passed, ExecuteBlocks

\* The L1 requests of the blocks a call executes, and what it credits.
RequestsOf(call) == Total([i \in 1 .. Len(call) |-> call[i].storedBlock.l1RequestNum])
CreditOf(call, addr, t) ==
    Total([i \in 1 .. Len(call) |-> Credit(call[i].pendingRollupTxPubdata, addr, t)])

\* The blocks of a call and what was passed with them.
LEMMA CallTypes ==
    ASSUME NEW call \in Seq(ExecuteBlocks)
    PROVE  /\ Len(call) \in Nat
           /\ \A i \in 1 .. Len(call) :
                /\ call[i] \in ExecuteBlocks
                /\ call[i].storedBlock \in StoredBlocks
                /\ call[i].storedBlock.l1RequestNum \in Nat
                /\ call[i].pendingRollupTxPubdata \in Seq(Requests)
           /\ RequestsOf(call) \in Nat
           /\ \A addr, t : CreditOf(call, addr, t) \in Nat
<1>1. Len(call) \in Nat /\ \A i \in 1 .. Len(call) : call[i] \in ExecuteBlocks
  OBVIOUS
<1>2. \A b \in ExecuteBlocks : /\ b.storedBlock \in StoredBlocks
                               /\ b.pendingRollupTxPubdata \in Seq(Requests)
  BY DEF ExecuteBlocks
<1>3. \A b \in StoredBlocks : b.l1RequestNum \in Nat
  BY DEF StoredBlocks
<1>4. \A i \in 1 .. Len(call) :
        /\ call[i].storedBlock \in StoredBlocks
        /\ call[i].storedBlock.l1RequestNum \in Nat
        /\ call[i].pendingRollupTxPubdata \in Seq(Requests)
  BY <1>1, <1>2, <1>3
<1>5. RequestsOf(call) \in Nat
  <2>1. [i \in 1 .. Len(call) |-> call[i].storedBlock.l1RequestNum] \in Seq(Nat)
    BY <1>1, <1>4
  <2>2. QED
    BY <2>1, TotalType DEF RequestsOf
<1>6. ASSUME NEW addr, NEW t PROVE CreditOf(call, addr, t) \in Nat
  <2>1. \A i \in 1 .. Len(call) : Credit(call[i].pendingRollupTxPubdata, addr, t) \in Nat
    BY <1>4, CreditType
  <2>2. [i \in 1 .. Len(call) |-> Credit(call[i].pendingRollupTxPubdata, addr, t)] \in Seq(Nat)
    BY <1>1, <2>1
  <2>3. QED
    BY <2>2, TotalType DEF CreditOf
<1>7. QED
  BY <1>1, <1>4, <1>5, <1>6

\* What executeBlocks leaves behind.
Executes(call) ==
    /\ firstL1RequestId' = firstL1RequestId + RequestsOf(call)
    /\ committedL1RequestNum' = committedL1RequestNum - RequestsOf(call)
    /\ pendingL1RequestNum' = pendingL1RequestNum - RequestsOf(call)
    /\ committedL1RequestNum >= RequestsOf(call)
    /\ pendingL1RequestNum >= RequestsOf(call)
    /\ executedBlockNum' = executedBlockNum + Len(call)
    /\ executedBlockNum' <= provedBlockNum
    /\ executions' \in [1 .. executedBlockNum + Len(call) -> ExecuteBlocks]
    /\ \A k \in 1 .. executedBlockNum : executions'[k] = executions[k]
    /\ \A i \in 1 .. Len(call) :
         /\ executions'[executedBlockNum + i] = call[i]
         /\ executedBlockNum + i \in DOMAIN storedBlockHashes
         /\ storedBlockHashes[executedBlockNum + i] = call[i].storedBlock
    /\ \A addr \in Addresses, t \in TokenIds :
         pendingBalances[<<addr, t>>] + CreditOf(call, addr, t) <= MaxAmount
    /\ pendingBalances' = [k \in Addresses \X TokenIds |->
                             pendingBalances[k] + CreditOf(call, k[1], k[2])]
    /\ credited' = [k \in Addresses \X TokenIds |->
                      credited[k] + CreditOf(call, k[1], k[2])]
    /\ UNCHANGED <<accountVars, tokenVars, l1RequestQueue, storedBlockHashes,
                   committedBlockNum, provedBlockNum, vault, commits>>

LEMMA ExecuteEffect ==
    ASSUME TypeInv, NEW call \in Seq(ExecuteBlocks), executeBlocks(call)
    PROVE  Executes(call)
<1> DEFINE e == executedBlockNum
<1>1. Len(call) \in Nat /\ e \in Nat /\ DOMAIN executions = 1 .. e
  BY CallTypes DEF TypeInv, TypeOK
<1>2. executions' = Written(executions, e + 1, call)
  BY DEF executeBlocks
<1>3. NextWritten(executions', executions, e, call)
  BY <1>1, <1>2, WrittenNext
<1>4. /\ executions' = [k \in 1 .. e + Len(call) |-> executions'[k]]
      /\ \A k \in 1 .. e : executions'[k] = executions[k]
      /\ \A i \in 1 .. Len(call) : executions'[e + i] = call[i]
  BY <1>3 DEF NextWritten
<1>5. executions' \in [1 .. e + Len(call) -> ExecuteBlocks]
  <2>1. \A k \in 1 .. e : executions'[k] \in ExecuteBlocks
    BY <1>4 DEF TypeInv, TypeOK
  <2>2. \A k \in e + 1 .. e + Len(call) : executions'[k] \in ExecuteBlocks
    <3> SUFFICES ASSUME NEW k \in e + 1 .. e + Len(call)
                 PROVE  executions'[k] \in ExecuteBlocks
      OBVIOUS
    <3>1. k - e \in 1 .. Len(call) /\ k = e + (k - e)
      BY <1>1
    <3>2. QED
      BY <3>1, <1>4
  <2>3. \A k \in 1 .. e + Len(call) : k \in 1 .. e \/ k \in e + 1 .. e + Len(call)
    BY <1>1
  <2> HIDE DEF e
  <2>4. QED
    BY <1>4, <2>1, <2>2, <2>3
<1>6. \A i \in 1 .. Len(call) :
        /\ e + i \in DOMAIN storedBlockHashes
        /\ storedBlockHashes[e + i] = call[i].storedBlock
  BY DEF executeBlocks, Executable
<1>7. QED
  BY <1>4, <1>5, <1>6 DEF executeBlocks, RequestsOf, CreditOf, Executes

\* Executing credits what was passed with the blocks and takes their requests
\* off the queue.
LEMMA ExecuteType ==
    ASSUME TypeInv, NEW call \in Seq(ExecuteBlocks), executeBlocks(call)
    PROVE  TypeInv'
<1> USE DEF TypeInv
<1>1. /\ firstL1RequestId' = firstL1RequestId + RequestsOf(call)
      /\ committedL1RequestNum' = committedL1RequestNum - RequestsOf(call)
      /\ pendingL1RequestNum' = pendingL1RequestNum - RequestsOf(call)
      /\ committedL1RequestNum >= RequestsOf(call)
      /\ pendingL1RequestNum >= RequestsOf(call)
      /\ executedBlockNum' = executedBlockNum + Len(call)
      /\ executions' \in [1 .. executedBlockNum + Len(call) -> ExecuteBlocks]
      /\ \A addr \in Addresses, t \in TokenIds :
            pendingBalances[<<addr, t>>] + CreditOf(call, addr, t) <= MaxAmount
      /\ pendingBalances' = [k \in Addresses \X TokenIds |->
                               pendingBalances[k] + CreditOf(call, k[1], k[2])]
      /\ credited' = [k \in Addresses \X TokenIds |->
                        credited[k] + CreditOf(call, k[1], k[2])]
      /\ UNCHANGED <<accountVars, tokenVars, l1RequestQueue, storedBlockHashes,
                     committedBlockNum, provedBlockNum, vault, commits>>
  <2>1. Executes(call)
    BY ExecuteEffect
  <2>2. QED
    BY <2>1 DEF Executes
<1>2. RequestsOf(call) \in Nat /\ Len(call) \in Nat
  BY CallTypes
<1>3. \A addr, t : CreditOf(call, addr, t) \in Nat
  BY CallTypes
<1>5. QueueTypeOK'
  <2>1. /\ firstL1RequestId' \in Nat
        /\ committedL1RequestNum' \in Nat
        /\ pendingL1RequestNum' \in Nat
        /\ firstL1RequestId' + pendingL1RequestNum' = firstL1RequestId + pendingL1RequestNum
    BY <1>1, <1>2, SMTT(30) DEF TypeOK
  <2>2. l1RequestQueue' \in [0 .. (firstL1RequestId' + pendingL1RequestNum') - 1 -> Requests]
    <3>1. l1RequestQueue' \in [0 .. (firstL1RequestId + pendingL1RequestNum) - 1 -> Requests]
      BY <1>1 DEF TypeOK
    <3>2. (firstL1RequestId' + pendingL1RequestNum') - 1
            = (firstL1RequestId + pendingL1RequestNum) - 1
      BY <2>1
    <3>3. QED
      BY <3>1, <3>2
  <2>3. QED
    BY <2>1, <2>2 DEF QueueTypeOK
<1>6. pendingBalances' \in [Addresses \X TokenIds -> 0 .. MaxAmount]
  <2>1. \A k \in Addresses \X TokenIds :
           pendingBalances[k] + CreditOf(call, k[1], k[2]) \in 0 .. MaxAmount
    <3> SUFFICES ASSUME NEW addr \in Addresses, NEW t \in TokenIds
                 PROVE  pendingBalances[<<addr, t>>] + CreditOf(call, addr, t) \in 0 .. MaxAmount
      OBVIOUS
    <3>1. pendingBalances[<<addr, t>>] \in 0 .. MaxAmount
      BY DEF TypeOK
    <3>2. QED
      BY <3>1, <1>1, <1>3, ConstantAssumption
  <2>2. QED
    BY <1>1, <2>1
<1>7. credited' \in [Addresses \X TokenIds -> Nat]
  <2>1. \A k \in Addresses \X TokenIds : credited[k] \in Nat
    BY DEF TypeOK
  <2>2. \A k \in Addresses \X TokenIds : credited[k] + CreditOf(call, k[1], k[2]) \in Nat
    BY <1>3, <2>1
  <2>3. QED
    BY <1>1, <2>2
<1>8. executedBlockNum' \in Nat /\ executions' \in [1 .. executedBlockNum' -> ExecuteBlocks]
  BY <1>1, <1>2 DEF TypeOK
<1>9. TypeOK'
  BY <1>1, <1>5, <1>6, <1>7, <1>8 DEF TypeOK, QueueTypeOK, accountVars, tokenVars
<1>10. BlocksInTurn'
  BY <1>1 DEF BlocksInTurn, Numbered
<1>11. QED
  BY <1>9, <1>10

(***************************************************************************)
(* The calls of a step, by what they are: the two forms of each user call  *)
(* taken together.                                                         *)
(***************************************************************************)
TokenCall == \E t \in Tokens : addToken(t)
UserCall ==
    \E u \in Users, t \in Tokens, a \in Amounts :
        RegisterWithDeposit(u, t, a) \/ DepositToken(u, t, a) \/ WithdrawToken(u, t, a)
CommitCall ==
    \E last : \E n \in Nat :
        \E newBlocks \in [1 .. n -> CommitBlocks] : commitBlocks(last, newBlocks)
ProveCall == \E run, proofs : Len(run) \in Nat /\ proveBlocks(run, proofs)
ExecuteCall == \E call \in Seq(ExecuteBlocks) : executeBlocks(call)

LEMMA CallsOfNext ==
    ASSUME TypeInv, [Next]_vars
    PROVE  TokenCall \/ UserCall \/ CommitCall \/ ProveCall \/ ExecuteCall \/ UNCHANGED vars
<1>1. WETH \in Tokens
  BY ConstantAssumption
<1>2. CASE \E t \in Tokens : addToken(t)
  BY <1>2 DEF TokenCall
<1>3. CASE \E u \in Users, a \in Amounts :
              registerETH(u, a) \/ depositETH(u, a) \/ withdrawETH(u, a)
  BY <1>1, <1>3 DEF registerETH, depositETH, withdrawETH, UserCall
<1>4. CASE \E u \in Users, t \in Tokens, a \in Amounts :
              registerERC20(u, t, a) \/ depositERC20(u, t, a) \/ withdrawERC20(u, t, a)
  BY <1>4 DEF registerERC20, depositERC20, withdrawERC20, UserCall
<1>5. CASE \E last \in KnownBlocks, n \in 1 .. MaxBatch :
              \E newBlocks \in [1 .. n -> CommitBlocks] : commitBlocks(last, newBlocks)
  <2>1. PICK last \in KnownBlocks, n \in 1 .. MaxBatch :
           \E newBlocks \in [1 .. n -> CommitBlocks] : commitBlocks(last, newBlocks)
    BY <1>5
  <2>2. n \in Nat
    BY ConstantAssumption
  <2>3. CommitCall
    BY <2>1, <2>2 DEF CommitCall
  <2>4. QED
    BY <2>3
<1>6. CASE \E run \in Runs :
              \E proofs \in [DOMAIN run -> {b.commitment : b \in KnownBlocks}] :
                 proveBlocks(run, proofs)
  <2>1. PICK run \in Runs : \E proofs : proveBlocks(run, proofs)
    BY <1>6
  <2>2. Len(run) \in Nat
    BY RunType
  <2>3. ProveCall
    BY <2>1, <2>2 DEF ProveCall
  <2>4. QED
    BY <2>3
<1>7. CASE \E run \in Runs :
              \E pubdata \in [DOMAIN run -> RollupPubdatas] :
                 executeBlocks(Passed(run, pubdata))
  <2>1. PICK run \in Runs : \E pubdata \in [DOMAIN run -> RollupPubdatas] :
                                executeBlocks(Passed(run, pubdata))
    BY <1>7
  <2> PICK pubdata \in [DOMAIN run -> RollupPubdatas] : executeBlocks(Passed(run, pubdata))
    BY <2>1
  <2>2. Passed(run, pubdata) \in Seq(ExecuteBlocks)
    BY PassedType
  <2>3. ExecuteCall
    BY <2>2 DEF ExecuteCall
  <2>4. QED
    BY <2>3
<1>8. QED
  BY <1>2, <1>3, <1>4, <1>5, <1>6, <1>7 DEF Next, Passed

\* Every call keeps the types.
LEMMA TypeInvStep == TypeInv /\ [Next]_vars => TypeInv'
<1> SUFFICES ASSUME TypeInv, [Next]_vars PROVE TypeInv'
  OBVIOUS
<1>1. CASE TokenCall
  BY <1>1, AddTokenType DEF TokenCall
<1>2. CASE UserCall
  BY <1>2, RegisterType, DepositType, WithdrawType DEF UserCall
<1>3. CASE CommitCall
  BY <1>3, CommitType DEF CommitCall
<1>4. CASE ProveCall
  BY <1>4, ProveType DEF ProveCall
<1>5. CASE ExecuteCall
  BY <1>5, ExecuteType DEF ExecuteCall
<1>6. CASE UNCHANGED vars
  <2>1. BlockTypeOK'
    BY <1>6, BlockTypeKept DEF vars
  <2>2. QED
    BY <1>6, <2>1 DEF vars, TypeInv, TypeOK, BlockTypeOK, accountVars, tokenVars,
                      queueVars, moneyVars
<1>7. QED
  BY <1>1, <1>2, <1>3, <1>4, <1>5, <1>6, CallsOfNext

(***************************************************************************)
(* Type correctness: in every reachable state each variable has its type,  *)
(* the queue's slots 0 .. (firstL1RequestId + pendingL1RequestNum) - 1 are *)
(* the ones written, every slot of storedBlockHashes holds a block of that *)
(* number, and no balance leaves its integer type.                         *)
(***************************************************************************)
THEOREM TypeCorrect == Spec => []TypeOK
<1>1. TypeInv => TypeOK
  BY DEF TypeInv
<1>2. QED
  BY <1>1, InitTypeInv, TypeInvStep, PTL DEF Spec

-----------------------------------------------------------------------------
(***************************************************************************)
(* The counters.  CountersAgree is inductive together with TypeInv: a call *)
(* of commitBlocks or executeBlocks adds the total of its blocks, and the  *)
(* total over the chain is the total over the chain before plus that       *)
(* (TotalConcat).  Its last part needs that the blocks executed are those  *)
(* committed, as long as these were numbered in turn.                      *)
(***************************************************************************)
Counted ==
    /\ executedBlockNum <= provedBlockNum
    /\ provedBlockNum <= committedBlockNum
    /\ committedL1RequestNum <= pendingL1RequestNum
    /\ firstL1RequestId = L1RequestsExecuted
    /\ firstL1RequestId + committedL1RequestNum = L1RequestsThrough(committedBlockNum)

\* The blocks executed are the ones committed, if those were numbered in turn.
ExecutedInTurn ==
    Numbered => \A n \in 1 .. executedBlockNum : executions[n].storedBlock = commits[n]

CountersInv == TypeInv /\ Counted /\ ExecutedInTurn

\* What blocks 1 .. k consume, as a sequence.
Consumption(k) == [m \in 1 .. k |-> commits[m].l1RequestNum]

\* What the blocks up to k took is a list of k natural numbers.
LEMMA ConsumptionType ==
    ASSUME TypeInv, NEW k \in 0 .. committedBlockNum
    PROVE  /\ Consumption(k) \in Seq(Nat)
           /\ Len(Consumption(k)) = k
           /\ L1RequestsThrough(k) = Total(Consumption(k))
           /\ L1RequestsThrough(k) \in Nat
<1>1. k \in Nat /\ committedBlockNum \in Nat
  BY DEF TypeInv, TypeOK
<1>2. \A m \in 1 .. k : commits[m].l1RequestNum \in Nat
  <2>1. \A m \in 1 .. k : commits[m] \in StoredBlocks
    BY <1>1 DEF TypeInv, TypeOK
  <2>2. \A b \in StoredBlocks : b.l1RequestNum \in Nat
    BY DEF StoredBlocks
  <2>3. QED
    BY <2>1, <2>2
<1>3. Consumption(k) \in Seq(Nat) /\ Len(Consumption(k)) = k
  BY <1>1, <1>2 DEF Consumption
<1>4. Total(Consumption(k)) \in Nat
  BY <1>3, TotalType
<1>5. QED
  BY <1>3, <1>4 DEF L1RequestsThrough, Consumption

\* What the executed blocks consumed, as a sequence.
Executed(k) == [n \in 1 .. k |-> executions[n].storedBlock.l1RequestNum]

LEMMA ExecutedType ==
    ASSUME TypeInv
    PROVE  /\ Executed(executedBlockNum) \in Seq(Nat)
           /\ Len(Executed(executedBlockNum)) = executedBlockNum
           /\ L1RequestsExecuted = Total(Executed(executedBlockNum))
<1>1. executedBlockNum \in Nat
  BY DEF TypeInv, TypeOK
<1>2. \A n \in 1 .. executedBlockNum : executions[n].storedBlock.l1RequestNum \in Nat
  <2>1. \A n \in 1 .. executedBlockNum : executions[n] \in ExecuteBlocks
    BY <1>1 DEF TypeInv, TypeOK
  <2>2. \A x \in ExecuteBlocks : x.storedBlock \in StoredBlocks
    BY DEF ExecuteBlocks
  <2>3. \A b \in StoredBlocks : b.l1RequestNum \in Nat
    BY DEF StoredBlocks
  <2>4. QED
    BY <2>1, <2>2, <2>3
<1>3. QED
  BY <1>1, <1>2 DEF Executed, L1RequestsExecuted

\* The invariant implies the property.
LEMMA CountersMeet == CountersInv => CountersAgree
<1> SUFFICES ASSUME CountersInv PROVE CountersAgree
  OBVIOUS
<1>1. ASSUME Numbered PROVE firstL1RequestId = L1RequestsThrough(executedBlockNum)
  <2>1. \A n \in 1 .. executedBlockNum : executions[n].storedBlock = commits[n]
    BY <1>1 DEF CountersInv, ExecutedInTurn
  <2>2. [n \in 1 .. executedBlockNum |-> executions[n].storedBlock.l1RequestNum]
          = [m \in 1 .. executedBlockNum |-> commits[m].l1RequestNum]
    BY <2>1
  <2>3. firstL1RequestId = L1RequestsExecuted
    BY DEF CountersInv, Counted
  <2>4. QED
    BY <2>2, <2>3 DEF L1RequestsExecuted, L1RequestsThrough
<1>2. QED
  BY <1>1 DEF CountersInv, Counted, CountersAgree

LEMMA InitCounters == Init => Counted /\ ExecutedInTurn
<1> SUFFICES ASSUME Init PROVE Counted /\ ExecutedInTurn
  OBVIOUS
<1>1. /\ firstL1RequestId = 0 /\ pendingL1RequestNum = 0 /\ committedL1RequestNum = 0
      /\ committedBlockNum = 0 /\ provedBlockNum = 0 /\ executedBlockNum = 0
  BY DEF Init
<1>2. L1RequestsThrough(0) = 0
  <2>1. Consumption(0) \in Seq(Nat) /\ Len(Consumption(0)) = 0
    BY DEF Consumption
  <2>2. Total(Consumption(0)) = 0
    BY <2>1, PrefixSumStep DEF Total
  <2>3. QED
    BY <2>2 DEF L1RequestsThrough, Consumption
<1>3. L1RequestsExecuted = 0
  <2>1. Executed(0) \in Seq(Nat) /\ Len(Executed(0)) = 0
    BY DEF Executed
  <2>2. Total(Executed(0)) = 0
    BY <2>1, PrefixSumStep DEF Total
  <2>3. QED
    BY <1>1, <2>2 DEF L1RequestsExecuted, Executed
<1>4. Counted
  BY <1>1, <1>2, <1>3 DEF Counted
<1>5. ExecutedInTurn
  BY <1>1 DEF ExecutedInTurn
<1>6. QED
  BY <1>4, <1>5

\* A call that leaves blocks and counters alone, and queues at most.
LEMMA CountersKept ==
    ASSUME CountersInv, TypeInv', UNCHANGED <<blockVars, historyVars>>,
           UNCHANGED <<firstL1RequestId, committedL1RequestNum>>,
           pendingL1RequestNum' >= pendingL1RequestNum
    PROVE  CountersInv'
<1>1. /\ \A k : L1RequestsThrough(k)' = L1RequestsThrough(k)
      /\ L1RequestsExecuted' = L1RequestsExecuted
  BY DEF L1RequestsThrough, L1RequestsExecuted, blockVars, historyVars
<1>2. Counted'
  BY <1>1 DEF CountersInv, Counted, blockVars, TypeInv, TypeOK
<1>3. ExecutedInTurn'
  BY DEF CountersInv, ExecutedInTurn, Numbered, blockVars, historyVars
<1>4. QED
  BY <1>2, <1>3 DEF CountersInv

\* The batch's requests move from pending to committed.
LEMMA CommitCounters ==
    ASSUME CountersInv, NEW last, NEW n \in Nat, NEW newBlocks \in [1 .. n -> CommitBlocks],
           commitBlocks(last, newBlocks)
    PROVE  CountersInv'
<1> DEFINE c == committedBlockNum
           num == [i \in 1 .. n |-> L1RequestNum(Collected(newBlocks[i].data))]
<1>1. /\ committedBlockNum' = c + n
      /\ \A k \in 0 .. c : commits'[k] = commits[k]
      /\ \A i \in 1 .. n : commits'[c + i].l1RequestNum =
                             L1RequestNum(Collected(newBlocks[i].data))
      /\ committedL1RequestNum' = committedL1RequestNum + Total(num)
      /\ committedL1RequestNum' <= pendingL1RequestNum
      /\ UNCHANGED <<firstL1RequestId, pendingL1RequestNum, provedBlockNum, executedBlockNum,
                     executions>>
      /\ \A i \in 1 .. n : Collected(newBlocks[i].data) \in Seq(Requests)
  <2>1. CommitStored(last, n, newBlocks)
    BY CommitStores DEF CountersInv
  <2>2. QED
    BY <2>1 DEF CommitStored
<1>2. TypeInv /\ TypeInv'
  BY CommitType DEF CountersInv
<1>3. /\ c \in Nat /\ provedBlockNum \in Nat /\ executedBlockNum \in Nat
      /\ executedBlockNum <= provedBlockNum /\ provedBlockNum <= c
  BY <1>2 DEF TypeInv, TypeOK, CountersInv, Counted
<1>4. num \in Seq(Nat) /\ Len(num) = n /\ \A i \in 1 .. n : num[i] \in Nat
  <2>1. \A i \in 1 .. n : L1RequestNum(Collected(newBlocks[i].data)) \in Nat
    BY <1>1, L1RequestNumType
  <2>2. QED
    BY <2>1
<1>5. \A i \in 1 .. n : commits'[c + i].l1RequestNum = num[i]
  BY <1>1
<1> HIDE DEF num
<1>6. L1RequestsExecuted' = L1RequestsExecuted
  BY <1>1 DEF L1RequestsExecuted
<1>7. L1RequestsThrough(committedBlockNum)' = L1RequestsThrough(c) + Total(num)
  <2> DEFINE a == Consumption(c)
             s == Consumption(committedBlockNum)'
  <2>1. a \in Seq(Nat) /\ Len(a) = c /\ L1RequestsThrough(c) = Total(a)
    BY <1>2, <1>3, ConsumptionType
  <2>2. s = [m \in 1 .. c + n |-> commits'[m].l1RequestNum]
    BY <1>1 DEF Consumption
  <2>3. /\ s \in Seq(Nat) /\ Len(s) = c + n
        /\ L1RequestsThrough(committedBlockNum)' = Total(s)
    <3>1. \A m \in 1 .. c + n : commits'[m].l1RequestNum \in Nat
      <4>1. \A m \in 1 .. c + n : commits'[m] \in StoredBlocks
        BY <1>1, <1>2, <1>3 DEF TypeInv, TypeOK
      <4>2. \A b \in StoredBlocks : b.l1RequestNum \in Nat
        BY DEF StoredBlocks
      <4>3. QED
        BY <4>1, <4>2
    <3>2. c + n \in Nat
      BY <1>3
    <3>3. s \in Seq(Nat) /\ Len(s) = c + n
      BY <2>2, <3>1, <3>2
    <3>4. QED
      BY <3>3 DEF L1RequestsThrough, Consumption
  <2>4. \A m \in 1 .. c : s[m] = a[m]
    <3>1. \A m \in 1 .. c : m \in 1 .. c + n /\ commits'[m] = commits[m]
      BY <1>1, <1>3
    <3>2. QED
      BY <2>2, <3>1 DEF Consumption
  <2>5. \A i \in 1 .. n : s[c + i] = num[i]
    <3>1. \A i \in 1 .. n : c + i \in 1 .. c + n
      BY <1>3
    <3>2. QED
      BY <1>5, <2>2, <3>1
  <2> HIDE DEF a, s
  <2>6. Total(s) = Total(a) + Total(num)
    BY <1>4, <2>1, <2>3, <2>4, <2>5, TotalConcat
  <2>7. QED
    BY <2>1, <2>3, <2>6
<1>8. Total(num) \in Nat
  BY <1>4, TotalType
<1>9. firstL1RequestId' + committedL1RequestNum' = L1RequestsThrough(committedBlockNum)'
  <2>1. firstL1RequestId \in Nat /\ committedL1RequestNum \in Nat
    BY <1>2 DEF TypeInv, TypeOK
  <2>2. firstL1RequestId + committedL1RequestNum = L1RequestsThrough(c)
    BY DEF CountersInv, Counted
  <2>3. firstL1RequestId' = firstL1RequestId
    BY <1>1
  <2>4. committedL1RequestNum' = committedL1RequestNum + Total(num)
    BY <1>1
  <2> HIDE DEF c
  <2>5. QED
    BY <1>7, <1>8, <2>1, <2>2, <2>3, <2>4
<1>10. Counted'
  BY <1>1, <1>3, <1>6, <1>9 DEF CountersInv, Counted
<1>11. ExecutedInTurn'
  <2> SUFFICES ASSUME Numbered', NEW k \in 1 .. executedBlockNum
               PROVE  executions[k].storedBlock = commits'[k]
    BY <1>1 DEF ExecutedInTurn
  <2>1. Numbered
    BY <1>2, NumberedBefore
  <2>2. k \in 0 .. c
    BY <1>3
  <2>3. QED
    BY <1>1, <2>1, <2>2 DEF CountersInv, ExecutedInTurn
<1>12. QED
  BY <1>2, <1>10, <1>11 DEF CountersInv

\* The proved blocks stay between the executed and the committed.
LEMMA ProveCounters ==
    ASSUME CountersInv, NEW run, Len(run) \in Nat, NEW proofs, proveBlocks(run, proofs)
    PROVE  CountersInv'
<1>1. /\ provedBlockNum' = provedBlockNum + Len(run)
      /\ provedBlockNum' <= committedBlockNum'
      /\ UNCHANGED <<queueVars, commits, executions, committedBlockNum, executedBlockNum>>
  BY DEF proveBlocks, historyVars
<1>2. executedBlockNum' <= provedBlockNum'
  <2>1. executedBlockNum \in Nat /\ provedBlockNum \in Nat
    BY DEF CountersInv, TypeInv, TypeOK
  <2>2. QED
    BY <1>1, <2>1 DEF CountersInv, Counted
<1>3. /\ \A k : L1RequestsThrough(k)' = L1RequestsThrough(k)
      /\ L1RequestsExecuted' = L1RequestsExecuted
  BY <1>1 DEF L1RequestsThrough, L1RequestsExecuted
<1>4. Counted'
  BY <1>1, <1>2, <1>3 DEF CountersInv, Counted, queueVars
<1>5. ExecutedInTurn'
  BY <1>1 DEF CountersInv, ExecutedInTurn, Numbered
<1>6. QED
  BY <1>4, <1>5, ProveType DEF CountersInv

\* The requests of the blocks executed are added to those of the ones before.
LEMMA ExecuteCounters ==
    ASSUME CountersInv, NEW call \in Seq(ExecuteBlocks), executeBlocks(call)
    PROVE  CountersInv'
<1> DEFINE e == executedBlockNum
           n == Len(call)
           num == [i \in 1 .. n |-> call[i].storedBlock.l1RequestNum]
<1>1. TypeInv /\ TypeInv'
  BY ExecuteType DEF CountersInv
<1>2. /\ firstL1RequestId' = firstL1RequestId + Total(num)
      /\ committedL1RequestNum' = committedL1RequestNum - Total(num)
      /\ pendingL1RequestNum' = pendingL1RequestNum - Total(num)
      /\ executedBlockNum' = e + n
      /\ executedBlockNum' <= provedBlockNum
      /\ \A k \in 1 .. e : executions'[k] = executions[k]
      /\ \A i \in 1 .. n : /\ executions'[e + i] = call[i]
                           /\ storedBlockHashes[e + i] = call[i].storedBlock
      /\ UNCHANGED <<commits, committedBlockNum, provedBlockNum>>
  <2>1. Executes(call)
    BY <1>1, ExecuteEffect DEF RequestsOf
  <2>2. QED
    BY <2>1 DEF Executes, RequestsOf
<1>3. /\ n \in Nat /\ e \in Nat /\ provedBlockNum \in Nat /\ committedBlockNum \in Nat
      /\ num \in Seq(Nat) /\ Len(num) = n
  BY <1>1, CallTypes, SMTT(30) DEF TypeInv, TypeOK
<1>4. \A i \in 1 .. n : num[i] = executions'[e + i].storedBlock.l1RequestNum
  BY <1>2
<1> HIDE DEF num, n, e
<1>5. L1RequestsExecuted' = L1RequestsExecuted + Total(num)
  <2> DEFINE a == Executed(executedBlockNum)
             s == Executed(executedBlockNum)'
  <2>1. a \in Seq(Nat) /\ Len(a) = e /\ L1RequestsExecuted = Total(a)
    BY <1>1, ExecutedType DEF e
  <2>2. s \in Seq(Nat) /\ Len(s) = e + n /\ L1RequestsExecuted' = Total(s)
    <3>1. s = [k \in 1 .. e + n |-> executions'[k].storedBlock.l1RequestNum]
      BY <1>2 DEF Executed, e
    <3>2. \A k \in 1 .. e + n : executions'[k].storedBlock.l1RequestNum \in Nat
      <4>1. \A k \in 1 .. e + n : executions'[k] \in ExecuteBlocks
        BY <1>1, <1>2 DEF TypeInv, TypeOK
      <4>2. \A x \in ExecuteBlocks : x.storedBlock \in StoredBlocks
        BY DEF ExecuteBlocks
      <4>3. \A b \in StoredBlocks : b.l1RequestNum \in Nat
        BY DEF StoredBlocks
      <4>4. QED
        BY <4>1, <4>2, <4>3
    <3>3. e + n \in Nat
      BY <1>3
    <3>4. s \in Seq(Nat) /\ Len(s) = e + n
      BY <3>1, <3>2, <3>3
    <3>5. QED
      BY <3>4 DEF L1RequestsExecuted, Executed
  <2>3. \A i \in 1 .. e : s[i] = a[i]
    <3>1. \A i \in 1 .. e : i \in 1 .. e + n
      BY <1>3
    <3>2. QED
      BY <1>2, <3>1 DEF Executed, e
  <2>4. \A i \in 1 .. n : s[e + i] = num[i]
    <3>1. \A i \in 1 .. n : e + i \in 1 .. e + n
      BY <1>3
    <3>2. QED
      BY <1>2, <1>4, <3>1 DEF Executed
  <2> HIDE DEF a, s
  <2>5. Total(s) = Total(a) + Total(num)
    BY <1>3, <2>1, <2>2, <2>3, <2>4, TotalConcat, ZenonT(30)
  <2>6. QED
    BY <2>1, <2>2, <2>5
<1>6. Total(num) \in Nat
  BY <1>3, TotalType
<1>7. /\ firstL1RequestId' = L1RequestsExecuted'
      /\ firstL1RequestId' + committedL1RequestNum'
           = firstL1RequestId + committedL1RequestNum
      /\ committedL1RequestNum' <= pendingL1RequestNum'
  <2>1. /\ firstL1RequestId \in Nat /\ committedL1RequestNum \in Nat
        /\ pendingL1RequestNum \in Nat /\ committedL1RequestNum <= pendingL1RequestNum
        /\ firstL1RequestId = L1RequestsExecuted
    BY DEF CountersInv, Counted, TypeInv, TypeOK
  <2>2. QED
    BY <1>2, <1>5, <1>6, <2>1
<1>8. firstL1RequestId' + committedL1RequestNum' = L1RequestsThrough(committedBlockNum)'
  <2>1. firstL1RequestId + committedL1RequestNum = L1RequestsThrough(committedBlockNum)
    BY DEF CountersInv, Counted
  <2>2. L1RequestsThrough(committedBlockNum)' = L1RequestsThrough(committedBlockNum)
    BY <1>2 DEF L1RequestsThrough
  <2>3. QED
    BY <1>7, <2>1, <2>2
<1>9. executedBlockNum' <= provedBlockNum' /\ provedBlockNum' <= committedBlockNum'
  BY <1>2 DEF CountersInv, Counted
<1>10. ExecutedInTurn'
  <2> SUFFICES ASSUME Numbered, NEW k \in 1 .. e + n
               PROVE  executions'[k].storedBlock = commits[k]
    BY <1>2 DEF ExecutedInTurn, Numbered
  <2>1. CASE k \in 1 .. e
    BY <1>2, <2>1 DEF CountersInv, ExecutedInTurn, e
  <2>2. CASE k \notin 1 .. e
    <3>1. k - e \in 1 .. n /\ k = e + (k - e)
      BY <1>3, <2>2
    <3>2. storedBlockHashes = commits
      BY <1>1 DEF TypeInv, BlocksInTurn
    <3>3. QED
      BY <1>2, <3>1, <3>2
  <2>3. QED
    BY <2>1, <2>2
<1>11. QED
  BY <1>1, <1>7, <1>8, <1>9, <1>10 DEF CountersInv, Counted

\* Every call keeps the invariant.
LEMMA CountersStep == CountersInv /\ [Next]_vars => CountersInv'
<1> SUFFICES ASSUME CountersInv, [Next]_vars PROVE CountersInv'
  OBVIOUS
<1>1. TypeInv /\ TypeInv'
  BY TypeInvStep DEF CountersInv
<1>2. CASE TokenCall \/ UNCHANGED vars
  <2>1. /\ UNCHANGED <<blockVars, historyVars>>
        /\ UNCHANGED <<firstL1RequestId, committedL1RequestNum, pendingL1RequestNum>>
    BY <1>2 DEF TokenCall, addToken, queueVars, vars
  <2>2. QED
    BY <1>1, <2>1, CountersKept, SMTT(30) DEF TypeInv, TypeOK
<1>3. CASE UserCall
  <2>1. PICK u \in Users, t \in Tokens, a \in Amounts :
           RegisterWithDeposit(u, t, a) \/ DepositToken(u, t, a) \/ WithdrawToken(u, t, a)
    BY <1>3 DEF UserCall
  <2>2. /\ UNCHANGED <<blockVars, historyVars>>
        /\ UNCHANGED <<firstL1RequestId, committedL1RequestNum>>
    BY <2>1 DEF RegisterWithDeposit, DepositToken, WithdrawToken, AddL1Requests, queueVars
  <2>3. \/ UNCHANGED pendingL1RequestNum
        \/ \E requests \in {1, 2} : pendingL1RequestNum' = pendingL1RequestNum + requests
    BY <2>1 DEF RegisterWithDeposit, DepositToken, WithdrawToken, AddL1Requests, queueVars
  <2>4. pendingL1RequestNum' >= pendingL1RequestNum
    <3>1. pendingL1RequestNum \in Nat
      BY <1>1 DEF TypeInv, TypeOK
    <3>2. QED
      BY <2>3, <3>1
  <2>5. QED
    BY <1>1, <2>2, <2>4, CountersKept
<1>4. CASE CommitCall
  BY <1>4, CommitCounters DEF CommitCall
<1>5. CASE ProveCall
  BY <1>5, ProveCounters DEF ProveCall
<1>6. CASE ExecuteCall
  BY <1>6, ExecuteCounters DEF ExecuteCall
<1>7. QED
  BY <1>1, <1>2, <1>3, <1>4, <1>5, <1>6, CallsOfNext

(***************************************************************************)
(* The counters of the contract agree with its blocks, for any number of   *)
(* users, tokens and blocks, any batches and whatever numbers the callers  *)
(* chose: executed <= proved <= committed, and the queue's counters are    *)
(* the totals of the blocks executed and committed.  If the blocks were    *)
(* numbered in turn, the executed are the first ones committed.            *)
(***************************************************************************)
THEOREM CountersCorrect == Spec => []CountersAgree
<1>1. Init => CountersInv
  BY InitTypeInv, InitCounters DEF CountersInv
<1>2. QED
  BY <1>1, CountersMeet, CountersStep, PTL DEF Spec

-----------------------------------------------------------------------------
(***************************************************************************)
(* The queue.  A new entry goes to the slot after the last one written,    *)
(* which TypeInv says is firstL1RequestId + pendingL1RequestNum - 1; so no *)
(* entry is ever rewritten.                                                *)
(***************************************************************************)
AppendsOnly ==
    /\ DOMAIN l1RequestQueue \subseteq DOMAIN l1RequestQueue'
    /\ \A id \in DOMAIN l1RequestQueue : l1RequestQueue'[id] = l1RequestQueue[id]

\* A call that adds one or two requests appends them.
LEMMA AddAppends ==
    ASSUME TypeInv, NEW n \in {1, 2}, NEW requests, Len(requests) = n,
           AddL1Requests(requests)
    PROVE  AppendsOnly
<1> DEFINE from == firstL1RequestId + pendingL1RequestNum
<1>1. DOMAIN l1RequestQueue = 0 .. from - 1 /\ from \in Nat
  BY DEF TypeInv, TypeOK
<1>2. l1RequestQueue' = Written(l1RequestQueue, from, requests)
  BY DEF AddL1Requests, NextL1RequestId
<1> HIDE DEF from
<1>3. l1RequestQueue' =
        [k \in 0 .. (from - 1) \cup from .. from + n - 1 |->
            IF k \in from .. from + n - 1 THEN requests[k - from + 1]
            ELSE l1RequestQueue[k]]
  BY <1>1, <1>2 DEF Written
<1>4. \A k \in 0 .. (from - 1) : k \notin from .. from + n - 1
  BY <1>1
<1>5. QED
  BY <1>1, <1>3, <1>4 DEF AppendsOnly

(***************************************************************************)
(* No call rewrites an entry of the L1 request queue.                      *)
(***************************************************************************)
THEOREM QueueNeverRewritten == Spec => QueueAppendOnly
<1>1. TypeInv /\ [Next]_vars => [AppendsOnly]_vars
  <2> SUFFICES ASSUME TypeInv, Next PROVE AppendsOnly
    BY DEF AppendsOnly
  <2>1. ASSUME UNCHANGED l1RequestQueue PROVE AppendsOnly
    BY <2>1 DEF AppendsOnly
  <2>2. ASSUME NEW u \in Users, NEW t \in Tokens, NEW a \in Amounts,
               \/ RegisterWithDeposit(u, t, a) \/ DepositToken(u, t, a)
        PROVE  AppendsOnly
    <3>1. \E n \in {1, 2} : \E requests : Len(requests) = n /\ AddL1Requests(requests)
      BY <2>2 DEF RegisterWithDeposit, DepositToken
    <3>2. QED
      BY <3>1, AddAppends
  <2>3. ASSUME NEW u \in Users, NEW t \in Tokens, NEW a \in Amounts,
               WithdrawToken(u, t, a)
        PROVE  AppendsOnly
    BY <2>1, <2>3 DEF WithdrawToken, queueVars
  <2>4. CASE TokenCall
    BY <2>1, <2>4 DEF TokenCall, addToken, queueVars
  <2>7. CASE UserCall
    BY <2>2, <2>3, <2>7 DEF UserCall
  <2>5. CASE CommitCall \/ ProveCall \/ ExecuteCall \/ UNCHANGED vars
    BY <2>1, <2>5 DEF CommitCall, ProveCall, ExecuteCall, commitBlocks, proveBlocks,
                      executeBlocks, queueVars, vars
  <2>6. QED
    BY <2>4, <2>5, <2>7, CallsOfNext
<1>2. Spec => [][AppendsOnly]_vars
  BY <1>1, InitTypeInv, TypeInvStep, PTL DEF Spec
<1>3. QED
  BY <1>2 DEF QueueAppendOnly, AppendsOnly

-----------------------------------------------------------------------------
(***************************************************************************)
(* The history.  A call that numbers its blocks in turn writes behind the  *)
(* committed ones, and a user that has an account id does not get another. *)
(***************************************************************************)
StoredKept ==
    \/ \A n \in DOMAIN storedBlockHashes \cap (0 .. committedBlockNum) :
          /\ n \in DOMAIN storedBlockHashes'
          /\ storedBlockHashes'[n] = storedBlockHashes[n]
    \/ \E m \in committedBlockNum + 1 .. committedBlockNum' :
          commits'[m].blockNumber # m

KeepsHistory ==
    /\ committedBlockNum' >= committedBlockNum
    /\ provedBlockNum' >= provedBlockNum
    /\ executedBlockNum' >= executedBlockNum
    /\ \A u \in Users : accountIdOf[u] # 0 => accountIdOf'[u] = accountIdOf[u]
    /\ StoredKept

\* Blocks numbered in turn get slots of their own.
LEMMA CommitKeepsStored ==
    ASSUME TypeInv, NEW last, NEW n \in Nat, NEW newBlocks \in [1 .. n -> CommitBlocks],
           commitBlocks(last, newBlocks)
    PROVE  StoredKept
<1> DEFINE c == committedBlockNum
           blocks == CallBlocks(last, newBlocks)
<1> SUFFICES ASSUME \A m \in c + 1 .. c + n : commits'[m].blockNumber = m,
                    NEW k \in DOMAIN storedBlockHashes, k \in 0 .. c
             PROVE  /\ k \in DOMAIN storedBlockHashes'
                    /\ storedBlockHashes'[k] = storedBlockHashes[k]
  <2>1. CommitStored(last, n, newBlocks)
    BY CommitStores DEF StoredKept
  <2>2. QED
    BY <2>1 DEF CommitStored, StoredKept
<1>1. /\ \A i \in 1 .. n : commits'[c + i] = NewBlock(last, newBlocks, i)
      /\ storedBlockHashes' = Stored(storedBlockHashes, blocks)
  <2>1. CommitStored(last, n, newBlocks)
    BY CommitStores
  <2>2. QED
    BY <2>1 DEF CommitStored
<1>2. c \in Nat
  BY DEF TypeInv, TypeOK
<1>3. DOMAIN blocks = 1 .. n /\ \A i \in 1 .. n : blocks[i] = NewBlock(last, newBlocks, i)
  BY DEF CallBlocks
<1> HIDE DEF blocks
<1>4. SlotsStored(storedBlockHashes', storedBlockHashes, blocks, n)
  BY <1>1, <1>3, StoredSlots
<1>5. \A i \in 1 .. n : blocks[i].blockNumber # k
  <2> SUFFICES ASSUME NEW i \in 1 .. n PROVE blocks[i].blockNumber # k
    OBVIOUS
  <2>1. c + i \in c + 1 .. c + n /\ c + i # k
    BY <1>2
  <2>2. blocks[i] = commits'[c + i]
    BY <1>1, <1>3
  <2>3. QED
    BY <2>1, <2>2
<1>6. k \in DOMAIN storedBlockHashes'
  BY <1>4 DEF SlotsStored
<1>7. QED
  BY <1>4, <1>5, <1>6 DEF SlotsStored

\* No call changes history.
LEMMA HistoryStep == TypeInv /\ [Next]_vars => [KeepsHistory]_vars
<1> SUFFICES ASSUME TypeInv, Next PROVE KeepsHistory
  BY DEF KeepsHistory
<1>1. /\ committedBlockNum \in Nat /\ provedBlockNum \in Nat /\ executedBlockNum \in Nat
      /\ accountIdOf \in [Users -> AccountIds]
  BY DEF TypeInv, TypeOK
<1>2. ASSUME UNCHANGED blockVars, UNCHANGED accountIdOf PROVE KeepsHistory
  BY <1>1, <1>2 DEF KeepsHistory, StoredKept, blockVars
<1>3. ASSUME NEW u \in Users, NEW t \in Tokens, NEW a \in Amounts,
             RegisterWithDeposit(u, t, a)
      PROVE  KeepsHistory
  <2>1. UNCHANGED blockVars
    BY <1>3 DEF RegisterWithDeposit
  <2>2. accountIdOf[u] = 0 /\ accountIdOf' = [accountIdOf EXCEPT ![u] = accountNum]
    BY <1>3 DEF RegisterWithDeposit, NotRegistered
  <2>3. \A v \in Users : accountIdOf[v] # 0 => accountIdOf'[v] = accountIdOf[v]
    BY <1>1, <2>2
  <2>4. QED
    BY <1>1, <2>1, <2>3 DEF KeepsHistory, StoredKept, blockVars
<1>4. CASE TokenCall
  BY <1>2, <1>4 DEF TokenCall, addToken, accountVars
<1>5. CASE UserCall
  BY <1>2, <1>3, <1>5 DEF UserCall, DepositToken, WithdrawToken, accountVars
<1>6. CASE CommitCall
  <2> PICK last : \E n \in Nat : \E newBlocks \in [1 .. n -> CommitBlocks] :
                      commitBlocks(last, newBlocks)
    BY <1>6 DEF CommitCall
  <2>1. PICK n \in Nat : \E newBlocks \in [1 .. n -> CommitBlocks] :
                             commitBlocks(last, newBlocks)
    OBVIOUS
  <2>2. PICK newBlocks \in [1 .. n -> CommitBlocks] : commitBlocks(last, newBlocks)
    BY <2>1
  <2>3. CommitStored(last, n, newBlocks)
    BY <2>2, CommitStores
  <2>4. /\ committedBlockNum' = committedBlockNum + n
        /\ UNCHANGED <<accountVars, provedBlockNum, executedBlockNum>>
    BY <2>3 DEF CommitStored
  <2>5. StoredKept
    BY <2>2, CommitKeepsStored
  <2>6. QED
    BY <1>1, <2>4, <2>5 DEF KeepsHistory, accountVars
<1>7. CASE ProveCall
  <2>1. PICK run, proofs : Len(run) \in Nat /\ proveBlocks(run, proofs)
    BY <1>7 DEF ProveCall
  <2>2. /\ provedBlockNum' = provedBlockNum + Len(run)
        /\ UNCHANGED <<accountVars, storedBlockHashes, committedBlockNum, executedBlockNum>>
    BY <2>1 DEF proveBlocks
  <2>3. QED
    BY <1>1, <2>1, <2>2 DEF KeepsHistory, StoredKept, accountVars
<1>8. CASE ExecuteCall
  <2>1. PICK call \in Seq(ExecuteBlocks) : executeBlocks(call)
    BY <1>8 DEF ExecuteCall
  <2>2. Executes(call) /\ Len(call) \in Nat
    BY <2>1, ExecuteEffect
  <2>3. /\ executedBlockNum' = executedBlockNum + Len(call)
        /\ UNCHANGED <<accountVars, storedBlockHashes, committedBlockNum, provedBlockNum>>
    BY <2>2 DEF Executes
  <2>4. QED
    BY <1>1, <2>2, <2>3 DEF KeepsHistory, StoredKept, accountVars
<1>9. CASE UNCHANGED vars
  BY <1>2, <1>9 DEF vars, accountVars
<1>10. QED
  BY <1>4, <1>5, <1>6, <1>7, <1>8, <1>9, CallsOfNext

(***************************************************************************)
(* No call moves a block counter back or changes an account id that was    *)
(* given out; and only blocks numbered out of turn replace stored ones.    *)
(***************************************************************************)
THEOREM HistoryNeverRewritten == Spec => HistoryPermanent
<1>1. Spec => [][KeepsHistory]_vars
  BY HistoryStep, InitTypeInv, TypeInvStep, PTL DEF Spec
<1>2. QED
  BY <1>1 DEF HistoryPermanent, KeepsHistory, StoredKept

(***************************************************************************)
(* What accounts, blocks and queue say of each other, on top of the types  *)
(* and counters.                                                           *)
(***************************************************************************)

\* The calls that change blocks or take requests from the queue.
LEMMA BlockCallsOfNext ==
    ASSUME TypeInv, [Next]_vars
    PROVE  \/ UNCHANGED <<blockVars, historyVars, firstL1RequestId, committedL1RequestNum>>
           \/ CommitCall
           \/ ProveCall
           \/ ExecuteCall
<1>1. ASSUME TokenCall \/ UserCall \/ UNCHANGED vars
      PROVE  UNCHANGED <<blockVars, historyVars, firstL1RequestId, committedL1RequestNum>>
  <2>1. CASE TokenCall
    BY <2>1 DEF TokenCall, addToken, queueVars
  <2>2. CASE UserCall
    <3>1. CASE \E user \in Users, token \in Tokens, amount \in Amounts :
                  RegisterWithDeposit(user, token, amount)
      BY <3>1 DEF RegisterWithDeposit, AddL1Requests
    <3>2. CASE \E user \in Users, token \in Tokens, amount \in Amounts :
                  DepositToken(user, token, amount)
      BY <3>2 DEF DepositToken, AddL1Requests
    <3>3. CASE \E user \in Users, token \in Tokens, amount \in Amounts :
                  WithdrawToken(user, token, amount)
      BY <3>3 DEF WithdrawToken, queueVars
    <3>4. QED
      BY <2>2, <3>1, <3>2, <3>3, Zenon DEF UserCall
  <2>3. CASE UNCHANGED vars
    BY <2>3 DEF vars, queueVars
  <2>4. QED
    BY <1>1, <2>1, <2>2, <2>3
<1>2. QED
  BY <1>1, CallsOfNext

(***************************************************************************)
(* Accounts.  addressOf is empty where no id was given out; that is what   *)
(* AccountsOneToOne lacks to be inductive, as a registration writes        *)
(* addressOf[accountNum] without looking at it.                            *)
(***************************************************************************)
IdsGivenInOrder ==
    \A a \in AccountIds :
        addressOf[a] # NoAddress => FirstAccountId <= a /\ a < accountNum

AccountsInv == TypeInv /\ AccountsOneToOne /\ IdsGivenInOrder

LEMMA InitAccounts == Init => AccountsOneToOne /\ IdsGivenInOrder
BY DEF Init, AccountsOneToOne, IdsGivenInOrder

\* A call that leaves the accounts and the queue's entries alone.
LEMMA AccountsKept ==
    ASSUME AccountsInv, UNCHANGED accountVars, UNCHANGED l1RequestQueue
    PROVE  (AccountsOneToOne /\ IdsGivenInOrder)'
BY DEF AccountsInv, AccountsOneToOne, IdsGivenInOrder, accountVars

\* What adding requests leaves in the queue, entry by entry.
LEMMA AddedEntries ==
    ASSUME TypeInv, NEW requests \in Seq(Requests), AddL1Requests(requests)
    PROVE  LET from == firstL1RequestId + pendingL1RequestNum
           IN  /\ from \in Nat
               /\ DOMAIN l1RequestQueue = 0 .. from - 1
               /\ DOMAIN l1RequestQueue' = 0 .. from + Len(requests) - 1
               /\ \A k \in 0 .. from - 1 : l1RequestQueue'[k] = l1RequestQueue[k]
               /\ \A k \in from .. from + Len(requests) - 1 :
                    /\ k - from + 1 \in 1 .. Len(requests)
                    /\ l1RequestQueue'[k] = requests[k - from + 1]
<1> DEFINE from == firstL1RequestId + pendingL1RequestNum
<1>1. from \in Nat /\ DOMAIN l1RequestQueue = 0 .. from - 1 /\ Len(requests) \in Nat
  BY DEF TypeInv, TypeOK
<1>2. l1RequestQueue' = Written(l1RequestQueue, from, requests)
  BY DEF AddL1Requests, NextL1RequestId
<1> HIDE DEF from
<1>3. /\ l1RequestQueue' = [k \in 0 .. from + Len(requests) - 1 |-> l1RequestQueue'[k]]
      /\ \A k \in 0 .. from - 1 : l1RequestQueue'[k] = l1RequestQueue[k]
      /\ \A k \in from .. from + Len(requests) - 1 :
           k - from + 1 \in 1 .. Len(requests) /\ l1RequestQueue'[k] = requests[k - from + 1]
  <2>1. SlotsWritten(l1RequestQueue', l1RequestQueue, from, requests)
    BY <1>1, <1>2, WrittenSlots
  <2>2. QED
    BY <2>1 DEF SlotsWritten
<1>4. DOMAIN l1RequestQueue' = 0 .. from + Len(requests) - 1
  BY <1>3
<1>5. QED
  BY <1>1, <1>3, <1>4 DEF from

\* A registration writes both registers, at an id that was given to nobody.
LEMMA RegisterAccounts ==
    ASSUME AccountsInv, NEW user \in Users, NEW token \in Tokens, NEW amount \in Amounts,
           RegisterWithDeposit(user, token, amount)
    PROVE  (AccountsOneToOne /\ IdsGivenInOrder)'
<1> DEFINE id == accountNum
           requests == <<Register(id), Deposit(id, tokenIdOf[token], amount)>>
<1>1. /\ id \in AccountIds /\ id \in Nat /\ id >= FirstAccountId /\ id # 0
      /\ accountNum' = id + 1
      /\ accountIdOf[user] = 0
      /\ accountIdOf' = [accountIdOf EXCEPT ![user] = id]
      /\ addressOf' = [addressOf EXCEPT ![id] = user]
  BY ConstantAssumption, SMTT(30)
     DEF AccountsInv, TypeInv, TypeOK, RegisterWithDeposit, NotRegistered, AccountIds,
         FirstAccountId
<1>2. /\ accountIdOf \in [Users -> AccountIds] /\ addressOf \in [AccountIds -> Addresses]
      /\ accountNum \in Nat
      /\ user # NoAddress
  BY <1>1, ConstantAssumption DEF AccountsInv, TypeInv, TypeOK
<1>3. addressOf[id] = NoAddress
  BY <1>1, <1>2 DEF AccountsInv, IdsGivenInOrder
<1>4. /\ \A u \in Users : accountIdOf[u] # 0 => addressOf[accountIdOf[u]] = u
      /\ \A a \in AccountIds : addressOf[a] # NoAddress => accountIdOf[addressOf[a]] = a
      /\ \A a \in AccountIds : addressOf[a] # NoAddress => FirstAccountId <= a /\ a < id
  BY DEF AccountsInv, AccountsOneToOne, IdsGivenInOrder
<1>5. \A u \in Users : accountIdOf'[u] # 0 => addressOf'[accountIdOf'[u]] = u
  <2> SUFFICES ASSUME NEW u \in Users, accountIdOf'[u] # 0
               PROVE  addressOf'[accountIdOf'[u]] = u
    OBVIOUS
  <2>1. CASE u = user
    BY <1>1, <1>2, <2>1
  <2>2. CASE u # user
    <3>1. accountIdOf'[u] = accountIdOf[u] /\ addressOf[accountIdOf[u]] = u
      BY <1>1, <1>2, <1>4, <2>2
    <3>2. accountIdOf[u] # id
      BY <1>2, <1>3, <3>1, ConstantAssumption
    <3>3. QED
      BY <1>1, <1>2, <3>1, <3>2
  <2>3. QED
    BY <2>1, <2>2
<1>6. \A a \in AccountIds :
         addressOf'[a] # NoAddress =>
             accountIdOf'[addressOf'[a]] = a /\ FirstAccountId <= a /\ a < accountNum'
  <2> SUFFICES ASSUME NEW a \in AccountIds, addressOf'[a] # NoAddress
               PROVE  accountIdOf'[addressOf'[a]] = a /\ FirstAccountId <= a /\ a < accountNum'
    OBVIOUS
  <2>1. CASE a = id
    BY <1>1, <1>2, <2>1
  <2>2. CASE a # id
    <3>1. addressOf'[a] = addressOf[a] /\ accountIdOf[addressOf[a]] = a
      BY <1>1, <1>2, <1>4, <2>2
    <3>2. FirstAccountId <= a /\ a < id /\ a \in Nat
      BY <1>1, <1>2, <1>4, <3>1 DEF AccountIds
    <3>3. addressOf[a] \in Users
      BY <1>2, <3>1 DEF Addresses
    <3>4. addressOf[a] # user
      BY <1>1, <3>1, <3>2 DEF FirstAccountId
    <3>5. QED
      BY <1>1, <1>2, <3>1, <3>2, <3>3, <3>4
  <2>3. QED
    BY <2>1, <2>2
<1>7. requests \in Seq(Requests) /\ AddL1Requests(requests) /\ Len(requests) = 2
  <2>1. tokenIdOf[token] \in TokenIds
    BY DEF AccountsInv, TypeInv, TypeOK
  <2>2. QED
    BY <1>1, <2>1, RequestTypes DEF RegisterWithDeposit
<1>8. \A k \in DOMAIN l1RequestQueue' :
         \/ k \in DOMAIN l1RequestQueue /\ l1RequestQueue'[k] = l1RequestQueue[k]
         \/ l1RequestQueue'[k].accountId = id
  <2>1. requests[1].accountId = id /\ requests[2].accountId = id
    BY DEF Register, Deposit
  <2> HIDE DEF requests
  <2> DEFINE from == firstL1RequestId + pendingL1RequestNum
  <2>2. /\ from \in Nat
        /\ DOMAIN l1RequestQueue = 0 .. from - 1
        /\ DOMAIN l1RequestQueue' = 0 .. from + 2 - 1
        /\ \A k \in 0 .. from - 1 : l1RequestQueue'[k] = l1RequestQueue[k]
        /\ \A k \in from .. from + 2 - 1 :
             k - from + 1 \in 1 .. 2 /\ l1RequestQueue'[k] = requests[k - from + 1]
    BY <1>7, AddedEntries DEF AccountsInv
  <2> HIDE DEF from
  <2>3. QED
    BY <2>1, <2>2
<1>9. \A k \in DOMAIN l1RequestQueue :
         l1RequestQueue[k].accountId \in AccountIds /\ addressOf[l1RequestQueue[k].accountId] # NoAddress
  <2>1. \A k \in DOMAIN l1RequestQueue : l1RequestQueue[k] \in Requests
    BY DEF AccountsInv, TypeInv, TypeOK
  <2>2. \A r \in Requests : r.accountId \in AccountIds
    BY DEF Requests
  <2>3. QED
    BY <2>1, <2>2 DEF AccountsInv, AccountsOneToOne
<1>10. \A k \in DOMAIN l1RequestQueue' : addressOf'[l1RequestQueue'[k].accountId] # NoAddress
  BY <1>1, <1>2, <1>8, <1>9
<1>11. QED
  BY <1>5, <1>6, <1>10 DEF AccountsOneToOne, IdsGivenInOrder

\* A deposit is queued for a registered account.
LEMMA DepositAccounts ==
    ASSUME AccountsInv, NEW user \in Users, NEW token \in Tokens, NEW amount \in Amounts,
           DepositToken(user, token, amount)
    PROVE  (AccountsOneToOne /\ IdsGivenInOrder)'
<1> DEFINE id == accountIdOf[user]
           requests == <<Deposit(id, tokenIdOf[token], amount)>>
<1>1. /\ id \in AccountIds /\ id # 0
      /\ UNCHANGED accountVars
      /\ user # NoAddress
  BY ConstantAssumption DEF AccountsInv, TypeInv, TypeOK, DepositToken
<1>2. requests \in Seq(Requests) /\ AddL1Requests(requests) /\ Len(requests) = 1
  <2>1. tokenIdOf[token] \in TokenIds
    BY DEF AccountsInv, TypeInv, TypeOK
  <2>2. QED
    BY <1>1, <2>1, RequestTypes DEF DepositToken
<1>3. addressOf[id] # NoAddress
  BY <1>1 DEF AccountsInv, AccountsOneToOne
<1>4. \A k \in DOMAIN l1RequestQueue' :
         \/ k \in DOMAIN l1RequestQueue /\ l1RequestQueue'[k] = l1RequestQueue[k]
         \/ l1RequestQueue'[k].accountId = id
  <2>1. requests[1].accountId = id
    BY DEF Deposit
  <2> HIDE DEF requests, id
  <2> DEFINE from == firstL1RequestId + pendingL1RequestNum
  <2>2. /\ from \in Nat
        /\ DOMAIN l1RequestQueue = 0 .. from - 1
        /\ DOMAIN l1RequestQueue' = 0 .. from + 1 - 1
        /\ \A k \in 0 .. from - 1 : l1RequestQueue'[k] = l1RequestQueue[k]
        /\ \A k \in from .. from + 1 - 1 :
             k - from + 1 \in 1 .. 1 /\ l1RequestQueue'[k] = requests[k - from + 1]
    BY <1>2, AddedEntries DEF AccountsInv
  <2> HIDE DEF from
  <2>3. QED
    BY <2>1, <2>2
<1>5. \A k \in DOMAIN l1RequestQueue' : addressOf[l1RequestQueue'[k].accountId] # NoAddress
  BY <1>3, <1>4 DEF AccountsInv, AccountsOneToOne
<1>6. QED
  BY <1>1, <1>5 DEF AccountsInv, AccountsOneToOne, IdsGivenInOrder, accountVars

\* Every call keeps AccountsInv.
LEMMA AccountsStep == AccountsInv /\ [Next]_vars => AccountsInv'
<1> SUFFICES ASSUME AccountsInv, [Next]_vars PROVE AccountsInv'
  OBVIOUS
<1>1. TypeInv'
  BY TypeInvStep DEF AccountsInv
<1>2. ASSUME NEW u \in Users, NEW t \in Tokens, NEW a \in Amounts,
             \/ RegisterWithDeposit(u, t, a) \/ DepositToken(u, t, a)
             \/ WithdrawToken(u, t, a)
      PROVE  (AccountsOneToOne /\ IdsGivenInOrder)'
  <2>1. WithdrawToken(u, t, a) => UNCHANGED <<accountVars, l1RequestQueue>>
    BY DEF WithdrawToken, queueVars
  <2>2. QED
    BY <1>2, <2>1, AccountsKept, RegisterAccounts, DepositAccounts
<1>3. CASE TokenCall \/ CommitCall \/ ProveCall \/ ExecuteCall \/ UNCHANGED vars
  <2>1. UNCHANGED <<accountVars, l1RequestQueue>>
    BY <1>3 DEF TokenCall, CommitCall, ProveCall, ExecuteCall, addToken, commitBlocks,
                proveBlocks, executeBlocks, queueVars, vars
  <2>2. QED
    BY <1>1, <2>1, AccountsKept DEF AccountsInv
<1>4. CASE UserCall
  BY <1>1, <1>2, <1>4 DEF UserCall, AccountsInv
<1>5. QED
  BY <1>3, <1>4, CallsOfNext DEF AccountsInv

(***************************************************************************)
(* The account register is one to one for any users and any order of       *)
(* registrations, and every queued request is of a registered account.     *)
(***************************************************************************)
THEOREM AccountsCorrect == Spec => []AccountsOneToOne
<1>1. Init => AccountsInv
  BY InitTypeInv, InitAccounts DEF AccountsInv
<1>2. AccountsInv => AccountsOneToOne
  BY DEF AccountsInv
<1>3. QED
  BY <1>1, <1>2, AccountsStep, PTL DEF Spec

-----------------------------------------------------------------------------
(***************************************************************************)
(* The chain of blocks.  While callers number blocks in turn, the slots    *)
(* hold the blocks committed (BlocksInTurn) and the blocks executed are    *)
(* theirs (ExecutedInTurn), so that the chain is one of the history.       *)
(***************************************************************************)
Linked ==
    \A n \in 1 .. committedBlockNum :
        /\ commits[n].commitment.from = commits[n - 1].stateRoot
        /\ commits[n].commitment.to = commits[n].stateRoot
        /\ commits[n].timestamp >= commits[n - 1].timestamp
        /\ n <= provedBlockNum => commits[n].stateRoot \notin BadRoots

ChainInv == CountersInv /\ (Numbered => Linked)

\* The links of the history are the property's.
LEMMA ChainMeets == ChainInv => BlocksFormProvedChain
<1> SUFFICES ASSUME ChainInv, Numbered PROVE BlocksFormProvedChain
  BY DEF BlocksFormProvedChain
<1>1. /\ storedBlockHashes = commits /\ DOMAIN commits = 0 .. committedBlockNum
      /\ committedBlockNum \in Nat /\ executedBlockNum \in Nat
  BY DEF ChainInv, CountersInv, TypeInv, TypeOK, BlocksInTurn
<1>2. \A n \in 1 .. executedBlockNum : executions[n].storedBlock = commits[n]
  BY DEF ChainInv, CountersInv, ExecutedInTurn
<1>3. Linked
  BY DEF ChainInv
<1> SUFFICES ASSUME NEW n \in 1 .. committedBlockNum
             PROVE  LET block == storedBlockHashes[n]
                        previous == storedBlockHashes[n - 1]
                    IN  /\ n - 1 \in DOMAIN storedBlockHashes /\ n \in DOMAIN storedBlockHashes
                        /\ block = commits[n]
                        /\ block.commitment.from = previous.stateRoot
                        /\ block.commitment.to = block.stateRoot
                        /\ block.timestamp >= previous.timestamp
                        /\ n <= provedBlockNum => block.stateRoot \notin BadRoots
                        /\ n <= executedBlockNum => block = executions[n].storedBlock
  BY DEF BlocksFormProvedChain
<1>4. n - 1 \in 0 .. committedBlockNum /\ n \in 0 .. committedBlockNum
  BY <1>1
<1>5. n <= executedBlockNum => commits[n] = executions[n].storedBlock
  BY <1>1, <1>2
<1>6. QED
  BY <1>1, <1>3, <1>4, <1>5 DEF Linked

LEMMA InitChain == Init => (Numbered => Linked)
BY DEF Init, Linked

\* A call that leaves the blocks alone.
LEMMA ChainKept ==
    ASSUME ChainInv, UNCHANGED <<commits, committedBlockNum, provedBlockNum>>
    PROVE  (Numbered => Linked)'
BY DEF ChainInv, Linked, Numbered

\* A batch goes on from the last committed block.
LEMMA CommitChain ==
    ASSUME ChainInv, NEW last, NEW n \in Nat, NEW newBlocks \in [1 .. n -> CommitBlocks],
           commitBlocks(last, newBlocks), Numbered'
    PROVE  Linked'
<1> DEFINE c == committedBlockNum
<1>1. TypeInv /\ c \in Nat /\ provedBlockNum \in Nat /\ provedBlockNum <= c
  BY SMTT(30) DEF ChainInv, CountersInv, Counted, TypeInv, TypeOK
<1>2. /\ committedBlockNum' = c + n
      /\ \A k \in 0 .. c : commits'[k] = commits[k]
      /\ last = storedBlockHashes[c]
      /\ \A i \in 1 .. n : commits'[c + i] = NewBlock(last, newBlocks, i)
      /\ UNCHANGED provedBlockNum
  <2>1. CommitStored(last, n, newBlocks)
    BY <1>1, CommitStores
  <2>2. QED
    BY <2>1 DEF CommitStored
<1>3. last = commits[c] /\ Linked
  BY <1>1, <1>2, NumberedBefore DEF ChainInv
<1>4. \A i \in 1 .. n :
        newBlocks[i].timestamp >=
            (IF i = 1 THEN last.timestamp ELSE newBlocks[i - 1].timestamp)
  BY DEF commitBlocks
<1> SUFFICES ASSUME NEW k \in 1 .. c + n
             PROVE  /\ commits'[k].commitment.from = commits'[k - 1].stateRoot
                    /\ commits'[k].commitment.to = commits'[k].stateRoot
                    /\ commits'[k].timestamp >= commits'[k - 1].timestamp
                    /\ k <= provedBlockNum' => commits'[k].stateRoot \notin BadRoots
  BY <1>2 DEF Linked
<1>5. CASE k <= c
  <2>1. k \in 1 .. c /\ k \in 0 .. c /\ k - 1 \in 0 .. c
    BY <1>1, <1>5
  <2>2. /\ commits'[k] = commits[k]
        /\ commits'[k - 1] = commits[k - 1]
    BY <1>2, <2>1
  <2>3. QED
    BY <1>2, <1>3, <2>1, <2>2 DEF Linked
<1>6. CASE k > c
  <2> DEFINE i == k - c
  <2>1. i \in 1 .. n /\ c + i = k /\ i \in Nat
    BY <1>1, <1>6
  <2>2. commits'[k] = NewBlock(last, newBlocks, i)
    BY <1>2, <2>1
  <2>3. /\ commits'[k - 1].stateRoot =
             (IF i = 1 THEN last.stateRoot ELSE newBlocks[i - 1].newStateRoot)
        /\ commits'[k - 1].timestamp =
             (IF i = 1 THEN last.timestamp ELSE newBlocks[i - 1].timestamp)
    <3>1. CASE i = 1
      <4>1. k - 1 = c /\ c \in 0 .. c
        BY <1>1, <2>1, <3>1
      <4>2. commits'[k - 1] = last
        BY <1>2, <1>3, <4>1
      <4>3. QED
        BY <3>1, <4>2
    <3>2. CASE i # 1
      <4>1. i - 1 \in 1 .. n /\ c + (i - 1) = k - 1
        BY <1>1, <2>1, <3>2
      <4>2. commits'[k - 1] = NewBlock(last, newBlocks, i - 1)
        BY <1>2, <4>1
      <4>3. QED
        BY <3>2, <4>2 DEF NewBlock
    <3>3. QED
      BY <3>1, <3>2
  <2>4. ~ (k <= provedBlockNum')
    BY <1>1, <1>2, <1>6
  <2> HIDE DEF i
  <2>5. QED
    BY <1>4, <2>1, <2>2, <2>3, <2>4 DEF NewBlock
<1>7. QED
  BY <1>1, <1>5, <1>6

\* Only blocks with a proof are counted as proved.
LEMMA ProveChain ==
    ASSUME ChainInv, NEW run, Len(run) \in Nat, NEW proofs, proveBlocks(run, proofs), Numbered
    PROVE  Linked'
<1>1. /\ provedBlockNum' = provedBlockNum + Len(run)
      /\ \A i \in 1 .. Len(run) :
            storedBlockHashes[provedBlockNum + i].commitment.to \notin BadRoots
      /\ UNCHANGED <<commits, committedBlockNum>>
  BY DEF proveBlocks, Proves, VerifyProof, historyVars
<1>2. /\ provedBlockNum \in Nat /\ committedBlockNum \in Nat
      /\ storedBlockHashes = commits /\ Linked
  BY DEF ChainInv, CountersInv, TypeInv, TypeOK, BlocksInTurn
<1>3. \A k \in 1 .. committedBlockNum :
         k <= provedBlockNum' => commits[k].stateRoot \notin BadRoots
  <2> SUFFICES ASSUME NEW k \in 1 .. committedBlockNum, k <= provedBlockNum'
               PROVE  commits[k].stateRoot \notin BadRoots
    OBVIOUS
  <2>1. CASE k <= provedBlockNum
    BY <1>2, <2>1 DEF Linked
  <2>2. CASE k > provedBlockNum
    <3>1. k - provedBlockNum \in 1 .. Len(run) /\ provedBlockNum + (k - provedBlockNum) = k
      BY <1>1, <1>2, <2>2
    <3>2. commits[k].commitment.to \notin BadRoots
      BY <1>1, <1>2, <3>1
    <3>3. QED
      BY <1>2, <3>2 DEF Linked
  <2>3. QED
    BY <1>2, <2>1, <2>2
<1>4. QED
  BY <1>1, <1>2, <1>3 DEF Linked

\* Every call keeps ChainInv.
LEMMA ChainStep == ChainInv /\ [Next]_vars => ChainInv'
<1> SUFFICES ASSUME ChainInv, [Next]_vars PROVE ChainInv'
  OBVIOUS
<1>1. CountersInv'
  BY CountersStep DEF ChainInv
<1>2. CASE UNCHANGED <<commits, committedBlockNum, provedBlockNum>>
  BY <1>1, <1>2, ChainKept DEF ChainInv
<1>3. CASE CommitCall
  BY <1>1, <1>3, CommitChain DEF CommitCall, ChainInv
<1>4. CASE ProveCall
  <2>1. Numbered' => Numbered
    BY <1>4 DEF ProveCall, proveBlocks, historyVars, Numbered
  <2>2. (Numbered => Linked)'
    BY <1>4, <2>1, ProveChain DEF ProveCall
  <2>3. QED
    BY <1>1, <2>2 DEF ChainInv
<1>5. CASE ExecuteCall
  <2>1. UNCHANGED <<commits, committedBlockNum, provedBlockNum>>
    BY <1>5 DEF ExecuteCall, executeBlocks
  <2>2. QED
    BY <1>2, <2>1
<1>6. CASE UNCHANGED <<blockVars, historyVars, firstL1RequestId, committedL1RequestNum>>
  BY <1>2, <1>6 DEF blockVars, historyVars
<1>7. QED
  BY <1>3, <1>4, <1>5, <1>6, BlockCallsOfNext DEF ChainInv, CountersInv

(***************************************************************************)
(* While callers number the blocks in turn, the stored blocks are the      *)
(* committed ones and form one chain from the genesis block, in whatever   *)
(* batches they came; only provable state roots are proved, and only       *)
(* blocks of the chain executed.                                           *)
(***************************************************************************)
THEOREM ChainCorrect == Spec => []BlocksFormProvedChain
<1>1. Init => ChainInv
  BY InitTypeInv, InitCounters, InitChain DEF ChainInv, CountersInv
<1>2. QED
  BY <1>1, ChainMeets, ChainStep, PTL DEF Spec

-----------------------------------------------------------------------------
(***************************************************************************)
(* Where blocks begin and end in the queue.                                *)
(***************************************************************************)
Through(blocks, k) == Total([m \in 1 .. k |-> blocks[m].l1RequestNum])

\* Block k ends where block k - 1 ends and its own requests.
LEMMA ThroughStep ==
    ASSUME NEW c \in Nat, NEW blocks, \A m \in 1 .. c : blocks[m].l1RequestNum \in Nat
    PROVE  /\ Through(blocks, 0) = 0
           /\ \A k \in 0 .. c : Through(blocks, k) \in Nat
           /\ \A k \in 1 .. c :
                Through(blocks, k) = Through(blocks, k - 1) + blocks[k].l1RequestNum
<1> DEFINE s(k) == [m \in 1 .. k |-> blocks[m].l1RequestNum]
<1>1. \A k \in 0 .. c : s(k) \in Seq(Nat) /\ Len(s(k)) = k /\ \A m \in 1 .. k : s(k)[m] = blocks[m].l1RequestNum
  OBVIOUS
<1>2. \A k \in 0 .. c : Through(blocks, k) = PrefixSum(s(k))[k]
  BY <1>1 DEF Through, Total
<1> HIDE DEF s
<1>3. ASSUME NEW k \in 1 .. c
      PROVE  Through(blocks, k) = Through(blocks, k - 1) + blocks[k].l1RequestNum
  <2>1. k \in 0 .. c /\ k - 1 \in 0 .. c /\ k \in 1 .. k /\ k - 1 \in 0 .. k - 1
    OBVIOUS
  <2>2. s(k) \in Seq(Nat) /\ s(k - 1) \in Seq(Nat) /\ Len(s(k)) = k /\ Len(s(k - 1)) = k - 1
    BY <1>1, <2>1
  <2>3. \A m \in 1 .. k - 1 : s(k - 1)[m] = s(k)[m]
    <3>1. \A m \in 1 .. k - 1 : s(k - 1)[m] = blocks[m].l1RequestNum
      BY <1>1, <2>1
    <3>2. \A m \in 1 .. k : s(k)[m] = blocks[m].l1RequestNum
      BY <1>1, <2>1
    <3>3. \A m \in 1 .. k - 1 : m \in 1 .. k
      OBVIOUS
    <3>4. QED
      BY <3>1, <3>2, <3>3
  <2>4. PrefixSum(s(k))[k] = PrefixSum(s(k))[k - 1] + s(k)[k]
    BY <2>1, <2>2, PrefixSumStep
  <2>5. PrefixSum(s(k))[k - 1] = PrefixSum(s(k - 1))[k - 1]
    <3>1. Len(s(k - 1)) <= Len(s(k)) /\ k - 1 \in 0 .. Len(s(k - 1))
      BY <2>1, <2>2
    <3>2. QED
      BY <2>2, <2>3, <3>1, PrefixAgree
  <2>6. s(k)[k] = blocks[k].l1RequestNum
    BY <1>1, <2>1
  <2>7. QED
    BY <1>2, <2>1, <2>4, <2>5, <2>6
<1>4. Through(blocks, 0) = 0
  <2>1. s(0) \in Seq(Nat) /\ 0 \in 0 .. c
    BY <1>1
  <2>2. QED
    BY <1>2, <2>1, PrefixSumStep
<1>5. \A k \in 0 .. c : Through(blocks, k) \in Nat
  <2>1. \A k \in 0 .. c : PrefixSum(s(k)) \in [0 .. k -> Nat]
    BY <1>1, PrefixSumStep
  <2>2. QED
    BY <1>2, <2>1
<1>6. QED
  BY <1>3, <1>4, <1>5

\* A later block ends no earlier in the queue.
LEMMA ThroughMono ==
    ASSUME NEW c \in Nat, NEW blocks, \A m \in 1 .. c : blocks[m].l1RequestNum \in Nat,
           NEW k \in 0 .. c
    PROVE  Through(blocks, k) <= Through(blocks, c)
<1> DEFINE T(i) == Through(blocks, i)
           Good == {i \in 0 .. c - k : T(k) <= T(k + i)}
<1>1. \A i \in 0 .. c : T(i) \in Nat
  BY ThroughStep
<1>2. \A i \in 1 .. c : T(i) = T(i - 1) + blocks[i].l1RequestNum
  BY ThroughStep
<1> HIDE DEF T
<1>3. c - k \in Nat /\ 0 \in Good
  BY <1>1
<1>4. \A i \in 1 .. c - k : i - 1 \in Good => i \in Good
  <2> SUFFICES ASSUME NEW i \in 1 .. c - k, i - 1 \in Good PROVE i \in Good
    OBVIOUS
  <2>1. k + i \in 1 .. c /\ k + (i - 1) = (k + i) - 1 /\ (k + i) - 1 \in 0 .. c /\ i \in 0 .. c - k
    OBVIOUS
  <2>2. T(k) <= T((k + i) - 1)
    BY <2>1
  <2>3. T(k + i) = T((k + i) - 1) + blocks[k + i].l1RequestNum
    BY <1>2, <2>1
  <2>4. T(k) <= T(k + i)
    BY <1>1, <2>1, <2>2, <2>3
  <2>5. QED
    BY <2>1, <2>4
<1> HIDE DEF Good
<1>5. c - k \in Good
  BY <1>3, <1>4, UpTo
<1>6. QED
  BY <1>5 DEF Good, T

\* The blocks written have numbers of requests, and they end within the queue.
LEMMA EndsInQueue ==
    ASSUME CountersInv
    PROVE  /\ committedBlockNum \in Nat
           /\ \A m \in 1 .. committedBlockNum : commits[m].l1RequestNum \in Nat
           /\ \A k \in 0 .. committedBlockNum :
                /\ L1RequestsThrough(k) \in Nat
                /\ L1RequestsThrough(k) <= firstL1RequestId + committedL1RequestNum
                /\ L1RequestsThrough(k) <= firstL1RequestId + pendingL1RequestNum
<1>1. TypeInv /\ committedBlockNum \in Nat
  BY DEF CountersInv, TypeInv, TypeOK
<1>2. \A m \in 1 .. committedBlockNum : commits[m].l1RequestNum \in Nat
  <2>1. \A m \in 1 .. committedBlockNum : commits[m] \in StoredBlocks
    BY <1>1 DEF TypeInv, TypeOK
  <2>2. \A b \in StoredBlocks : b.l1RequestNum \in Nat
    BY DEF StoredBlocks
  <2>3. QED
    BY <2>1, <2>2
<1>3. \A k : L1RequestsThrough(k) = Through(commits, k)
  BY DEF L1RequestsThrough, Through
<1>4. \A k \in 0 .. committedBlockNum :
         L1RequestsThrough(k) \in Nat
         /\ L1RequestsThrough(k) <= L1RequestsThrough(committedBlockNum)
  BY <1>1, <1>2, <1>3, ThroughStep, ThroughMono
<1>5. /\ L1RequestsThrough(committedBlockNum) = firstL1RequestId + committedL1RequestNum
      /\ committedL1RequestNum <= pendingL1RequestNum
      /\ firstL1RequestId \in Nat /\ committedL1RequestNum \in Nat /\ pendingL1RequestNum \in Nat
  BY <1>1 DEF CountersInv, Counted, TypeInv, TypeOK
<1>6. QED
  BY <1>1, <1>2, <1>4, <1>5

\* After commitBlocks: the old blocks end where they did, the new ones where
\* the loop of the call left its counter.
LEMMA CommitEnds ==
    ASSUME CountersInv, NEW last, NEW n \in Nat, NEW newBlocks \in [1 .. n -> CommitBlocks],
           commitBlocks(last, newBlocks)
    PROVE  LET c == committedBlockNum
               num == [i \in 1 .. n |-> L1RequestNum(Collected(newBlocks[i].data))]
           IN  /\ \A k \in 0 .. c : Through(commits', k) = L1RequestsThrough(k)
               /\ num \in Seq(Nat) /\ Len(num) = n
               /\ \A i \in 0 .. n :
                     Through(commits', c + i) =
                         firstL1RequestId + committedL1RequestNum + PrefixSum(num)[i]
<1> DEFINE c == committedBlockNum
           num == [i \in 1 .. n |-> L1RequestNum(Collected(newBlocks[i].data))]
           B == commits
           T(k) == Through(B, k)
           U(k) == Through(B', k)
           base == firstL1RequestId + committedL1RequestNum
<1>1. num \in Seq(Nat) /\ Len(num) = n /\ \A i \in 1 .. n : num[i] \in Nat
  <2>1. \A i \in 1 .. n : Collected(newBlocks[i].data) \in Seq(Requests)
    <3>1. CommitStored(last, n, newBlocks)
      BY CommitStores DEF CountersInv
    <3>2. QED
      BY <3>1 DEF CommitStored
  <2>2. \A i \in 1 .. n : L1RequestNum(Collected(newBlocks[i].data)) \in Nat
    BY <2>1, L1RequestNumType
  <2>3. QED
    BY <2>2
<1>2. /\ \A k \in 0 .. c : B'[k] = B[k]
      /\ \A i \in 1 .. n : B'[c + i].l1RequestNum = num[i]
  <2>1. CommitStored(last, n, newBlocks)
    BY CommitStores DEF CountersInv
  <2>2. QED
    BY <2>1 DEF CommitStored
<1>3. c \in Nat /\ \A m \in 1 .. c : B[m].l1RequestNum \in Nat
  BY EndsInQueue
<1>4. \A k : L1RequestsThrough(k) = T(k)
  BY DEF L1RequestsThrough, Through
<1>5. T(c) = base /\ base \in Nat
  BY <1>4 DEF CountersInv, Counted, TypeInv, TypeOK
<1> HIDE DEF num, base
<1>6. \A m \in 1 .. c + n : B'[m].l1RequestNum \in Nat
  <2> SUFFICES ASSUME NEW m \in 1 .. c + n PROVE B'[m].l1RequestNum \in Nat
    OBVIOUS
  <2>1. CASE m <= c
    BY <1>2, <1>3, <2>1
  <2>2. CASE m > c
    <3>1. m - c \in 1 .. n /\ c + (m - c) = m
      BY <1>3, <2>2
    <3>2. QED
      BY <1>1, <1>2, <3>1
  <2>3. QED
    BY <1>3, <2>1, <2>2
<1>7. ASSUME NEW k \in 0 .. c PROVE U(k) = T(k)
  <2>1. \A m \in 1 .. k : B'[m] = B[m]
    BY <1>2, <1>3
  <2>2. [m \in 1 .. k |-> B'[m].l1RequestNum] = [m \in 1 .. k |-> B[m].l1RequestNum]
    BY <2>1
  <2>3. QED
    BY <2>2 DEF Through
<1>8. c + n \in Nat /\ c \in 0 .. c
  BY <1>3
<1>9. \A k \in 1 .. c + n : U(k) = U(k - 1) + B'[k].l1RequestNum
  BY <1>6, <1>8, ThroughStep
<1> HIDE DEF T, U
<1> DEFINE A == PrefixSum(num)
           Good == {i \in 0 .. n : U(c + i) = base + A[i]}
<1>10. A \in [0 .. n -> Nat] /\ A[0] = 0 /\ \A i \in 1 .. n : A[i] = A[i - 1] + num[i]
  BY <1>1, PrefixSumStep
<1> HIDE DEF A
<1>11. 0 \in Good
  <2>1. c + 0 = c /\ base + 0 = base
    BY <1>3, <1>5
  <2>2. U(c + 0) = base + A[0]
    BY <1>5, <1>7, <1>8, <1>10, <2>1
  <2>3. QED
    BY <2>2
<1>12. \A i \in 1 .. n : i - 1 \in Good => i \in Good
  <2> SUFFICES ASSUME NEW i \in 1 .. n, i - 1 \in Good PROVE i \in Good
    OBVIOUS
  <2>1. c + i \in 1 .. c + n /\ (c + i) - 1 = c + (i - 1) /\ i \in 0 .. n /\ i - 1 \in 0 .. n
    BY <1>3
  <2>2. U(c + i) = U(c + (i - 1)) + num[i]
    BY <1>2, <1>9, <2>1
  <2>3. U(c + (i - 1)) = base + A[i - 1]
    OBVIOUS
  <2>4. A[i - 1] \in Nat /\ num[i] \in Nat /\ A[i] = A[i - 1] + num[i]
    BY <1>1, <1>10, <2>1
  <2>5. base + A[i - 1] + num[i] = base + (A[i - 1] + num[i])
    BY <1>5, <2>4
  <2>6. U(c + i) = base + A[i]
    BY <2>2, <2>3, <2>4, <2>5
  <2>7. QED
    BY <2>1, <2>6
<1> HIDE DEF Good
<1>13. \A i \in 0 .. n : i \in Good
  BY <1>11, <1>12, UpTo
<1>14. \A i \in 0 .. n : U(c + i) = base + A[i]
  BY <1>13 DEF Good
<1>15. \A k \in 0 .. c : Through(B', k) = L1RequestsThrough(k)
  BY <1>4, <1>7 DEF U
<1>16. \A i \in 0 .. n : Through(B', c + i) = base + PrefixSum(num)[i]
  BY <1>14 DEF U, A
<1>17. QED
  BY <1>1, <1>15, <1>16 DEF num, base

-----------------------------------------------------------------------------
(***************************************************************************)
(* The queue against the blocks.  An entry position is clean when no       *)
(* registration is just before it: blocks begin and end at such positions. *)
(***************************************************************************)
Clean(position) == position > 0 => l1RequestQueue[position - 1].opType # "REGISTER"

DepositsFollow ==
    \A id \in DOMAIN l1RequestQueue :
        l1RequestQueue[id].opType = "REGISTER" =>
            /\ id + 1 \in DOMAIN l1RequestQueue
            /\ l1RequestQueue[id + 1].opType = "DEPOSIT"
            /\ l1RequestQueue[id + 1].accountId = l1RequestQueue[id].accountId

OrderInv == CountersInv /\ CommittedInQueueOrder /\ RegisterSkipsItsDeposit

\* A block collected from a clean position ends at one: what it takes after a
\* registration is that registration's deposit.
LEMMA BlockEndsClean ==
    ASSUME DepositsFollow, NEW publicData \in Seq(Requests), NEW from \in Nat,
           CollectsFromQueue(publicData, from), Clean(from)
    PROVE  Clean(from + L1RequestNum(publicData))
<1> DEFINE n == Len(publicData)
           num == [j \in 1 .. n |-> Consumed(publicData[j])]
           A == PrefixSum(num)
           Good == {j \in 0 .. n : Clean(from + A[j])}
<1>1. n \in Nat /\ DOMAIN publicData = 1 .. n
  OBVIOUS
<1>2. \A r : Consumed(r) \in Nat
  BY DEF Consumed
<1>3. num \in Seq(Nat) /\ Len(num) = n /\ \A j \in 1 .. n : num[j] = Consumed(publicData[j])
  BY <1>1, <1>2
<1>4. ConsumedBefore(publicData) = A /\ L1RequestNum(publicData) = A[n]
  BY DEF ConsumedBefore, L1RequestNum
<1>5. \A j \in 1 .. n :
        publicData[j].opType \in {"REGISTER", "DEPOSIT"} =>
            /\ from + A[j - 1] \in DOMAIN l1RequestQueue
            /\ l1RequestQueue[from + A[j - 1]] = publicData[j]
  BY <1>1, <1>4 DEF CollectsFromQueue
<1> HIDE DEF num
<1>6. A \in [0 .. n -> Nat] /\ A[0] = 0 /\ \A j \in 1 .. n : A[j] = A[j - 1] + num[j]
  BY <1>3, PrefixSumStep
<1> HIDE DEF A, n
<1>7. 0 \in Good
  <2>1. from + 0 = from
    OBVIOUS
  <2>2. QED
    BY <1>1, <1>6, <2>1
<1>8. \A j \in 1 .. n : j - 1 \in Good => j \in Good
  <2> SUFFICES ASSUME NEW j \in 1 .. n, j - 1 \in Good PROVE j \in Good
    OBVIOUS
  <2> DEFINE p == from + A[j - 1]
             q == from + A[j]
  <2>1. j \in 0 .. n /\ j - 1 \in 0 .. n
    BY <1>1
  <2>2. A[j - 1] \in Nat /\ A[j] = A[j - 1] + Consumed(publicData[j])
    BY <1>3, <1>6, <2>1
  <2>3. p \in Nat /\ q = p + Consumed(publicData[j]) /\ Clean(p)
    BY <1>2, <2>2
  <2> HIDE DEF p
  <2>4. CASE publicData[j].opType = "REGISTER"
    <3>1. p \in DOMAIN l1RequestQueue /\ l1RequestQueue[p].opType = "REGISTER"
      BY <1>5, <2>4 DEF p
    <3>2. l1RequestQueue[p + 1].opType = "DEPOSIT"
      BY <3>1 DEF DepositsFollow
    <3>3. q = p + 2 /\ q - 1 = p + 1
      BY <2>3, <2>4 DEF Consumed
    <3>4. QED
      BY <2>1, <3>2, <3>3 DEF Clean
  <2>5. CASE publicData[j].opType = "DEPOSIT"
    <3>1. l1RequestQueue[p].opType = "DEPOSIT"
      BY <1>5, <2>5 DEF p
    <3>2. q = p + 1 /\ q - 1 = p
      BY <2>3, <2>5 DEF Consumed
    <3>3. QED
      BY <2>1, <3>1, <3>2 DEF Clean
  <2>6. CASE publicData[j].opType \notin {"REGISTER", "DEPOSIT"}
    <3>1. q = p
      BY <2>3, <2>6 DEF Consumed
    <3>2. QED
      BY <2>1, <2>3, <3>1
  <2>7. QED
    BY <2>4, <2>5, <2>6
<1> HIDE DEF Good
<1>9. n \in Good
  BY <1>1, <1>7, <1>8, UpTo
<1>10. QED
  BY <1>4, <1>9 DEF Good

LEMMA InitOrder == Init => CommittedInQueueOrder /\ RegisterSkipsItsDeposit
BY DEF Init, CommittedInQueueOrder, RegisterSkipsItsDeposit

\* What OrderInv says of positions.
LEMMA OrderFacts ==
    ASSUME OrderInv
    PROVE  /\ DepositsFollow
           /\ Clean(firstL1RequestId + committedL1RequestNum)
           /\ \A k \in 1 .. committedBlockNum : Clean(L1RequestsThrough(k))
<1>1. DepositsFollow
  BY DEF OrderInv, RegisterSkipsItsDeposit, DepositsFollow
<1>2. \A k \in 1 .. committedBlockNum : Clean(L1RequestsThrough(k))
  BY DEF OrderInv, RegisterSkipsItsDeposit, Clean
<1>3. Clean(firstL1RequestId + committedL1RequestNum)
  <2>1. L1RequestsThrough(committedBlockNum) = firstL1RequestId + committedL1RequestNum
    BY DEF OrderInv, CountersInv, Counted
  <2>2. committedBlockNum \in Nat
    BY DEF OrderInv, CountersInv, TypeInv, TypeOK
  <2>3. CASE committedBlockNum = 0
    <3>1. Through(commits, 0) = 0
      <4>1. 0 \in Nat /\ \A m \in 1 .. 0 : commits[m].l1RequestNum \in Nat
        OBVIOUS
      <4>2. QED
        BY <4>1, ThroughStep
    <3>2. firstL1RequestId + committedL1RequestNum = 0
      BY <2>1, <2>3, <3>1 DEF L1RequestsThrough, Through
    <3>3. QED
      BY <3>2 DEF Clean
  <2>4. CASE committedBlockNum # 0
    BY <1>2, <2>1, <2>2, <2>4
  <2>5. QED
    BY <2>3, <2>4
<1>4. QED
  BY <1>1, <1>2, <1>3

\* A batch that commitBlocks accepts is the queue's next entries and ends
\* cleanly.
LEMMA CommitOrder ==
    ASSUME OrderInv, NEW last, NEW n \in Nat, NEW newBlocks \in [1 .. n -> CommitBlocks],
           commitBlocks(last, newBlocks)
    PROVE  (CommittedInQueueOrder /\ RegisterSkipsItsDeposit)'
<1> DEFINE c == committedBlockNum
           num == [i \in 1 .. n |-> L1RequestNum(Collected(newBlocks[i].data))]
           base == firstL1RequestId + committedL1RequestNum
           A == PrefixSum(num)
           T(k) == Through(commits', k)
           end(i) == base + A[i]
           pd(i) == Collected(newBlocks[i].data)
<1>1. CountersInv /\ TypeInv /\ c \in Nat /\ base \in Nat
  <2>1. CountersInv /\ TypeInv
    BY DEF OrderInv, CountersInv
  <2>2. c \in Nat /\ firstL1RequestId \in Nat /\ committedL1RequestNum \in Nat
    BY <2>1 DEF TypeInv, TypeOK
  <2>3. QED
    BY <2>1, <2>2
<1>2. /\ \A k \in 0 .. c : T(k) = L1RequestsThrough(k)
      /\ num \in Seq(Nat) /\ Len(num) = n
      /\ \A i \in 0 .. n : T(c + i) = end(i)
  BY <1>1, CommitEnds
<1>3. /\ committedBlockNum' = c + n
      /\ \A k \in 0 .. c : commits'[k] = commits[k]
      /\ \A i \in 1 .. n : commits'[c + i] = NewBlock(last, newBlocks, i)
      /\ UNCHANGED l1RequestQueue
  <2>1. CommitStored(last, n, newBlocks)
    BY <1>1, CommitStores
  <2>2. QED
    BY <2>1 DEF CommitStored
<1>4. \A i \in 1 .. n : pd(i) \in Seq(Requests)
  <2>1. CommitStored(last, n, newBlocks)
    BY <1>1, CommitStores
  <2>2. QED
    BY <2>1 DEF CommitStored
<1>5. \A i \in 1 .. n : commits'[c + i].requests = pd(i)
  <2>1. \A i : NewBlock(last, newBlocks, i).requests = pd(i)
    BY DEF NewBlock
  <2> HIDE DEF pd
  <2>2. QED
    BY <1>3, <2>1
<1>6. \A i \in 1 .. n : num[i] = L1RequestNum(pd(i))
  OBVIOUS
<1>7. \A i \in 1 .. n : CollectsFromQueue(pd(i), end(i - 1))
  <2>1. Len(newBlocks) = n
    OBVIOUS
  <2>2. QED
    BY <2>1 DEF commitBlocks
<1> HIDE DEF num, pd
<1>8. A \in [0 .. n -> Nat] /\ A[0] = 0 /\ \A i \in 1 .. n : A[i] = A[i - 1] + num[i]
  BY <1>2, PrefixSumStep
<1>9. \A i \in 0 .. n : end(i) \in Nat
  BY <1>1, <1>8
<1>10. \A i \in 1 .. n : end(i) = end(i - 1) + L1RequestNum(pd(i))
  <2> SUFFICES ASSUME NEW i \in 1 .. n PROVE end(i) = end(i - 1) + L1RequestNum(pd(i))
    OBVIOUS
  <2>1. i - 1 \in 0 .. n /\ i \in 0 .. n
    OBVIOUS
  <2>2. A[i - 1] \in Nat /\ A[i] \in Nat /\ A[i] = A[i - 1] + num[i]
    BY <1>8, <2>1
  <2>3. num[i] \in Nat
    BY <1>2
  <2> HIDE DEF A, base
  <2>4. base + A[i] = (base + A[i - 1]) + num[i]
    BY <1>1, <2>2, <2>3
  <2>5. QED
    BY <1>6, <2>4
<1>11. end(0) = base
  BY <1>1, <1>8
<1> HIDE DEF T, end, A, base
<1>12. \A i \in 0 .. n : Clean(end(i))
  <2> DEFINE Good == {i \in 0 .. n : Clean(end(i))}
  <2>1. 0 \in Good
    BY <1>11, OrderFacts DEF base
  <2>2. \A i \in 1 .. n : i - 1 \in Good => i \in Good
    <3> SUFFICES ASSUME NEW i \in 1 .. n, Clean(end(i - 1)) PROVE Clean(end(i))
      OBVIOUS
    <3>1. end(i - 1) \in Nat
      BY <1>9
    <3>2. Clean(end(i - 1) + L1RequestNum(pd(i)))
      BY <1>4, <1>7, <3>1, OrderFacts, BlockEndsClean
    <3>3. QED
      BY <1>10, <3>2
  <2> HIDE DEF Good
  <2>3. \A i \in 0 .. n : i \in Good
    BY <2>1, <2>2, UpTo
  <2>4. QED
    BY <2>3 DEF Good
<1>13. ASSUME NEW k \in 1 .. c + n
       PROVE  /\ CollectsFromQueue(commits'[k].requests, T(k - 1))
              /\ Clean(T(k))
  <2>1. CASE k <= c
    <3>1. k \in 1 .. c /\ k \in 0 .. c /\ k - 1 \in 0 .. c
      BY <1>1, <2>1
    <3>2. /\ commits'[k] = commits[k]
          /\ T(k - 1) = L1RequestsThrough(k - 1)
          /\ T(k) = L1RequestsThrough(k)
      BY <1>2, <1>3, <3>1
    <3>3. Clean(L1RequestsThrough(k))
      BY <3>1, OrderFacts
    <3>4. QED
      BY <3>1, <3>2, <3>3 DEF OrderInv, CommittedInQueueOrder
  <2>2. CASE k > c
    <3> DEFINE i == k - c
    <3>1. i \in 1 .. n /\ i \in 0 .. n /\ i - 1 \in 0 .. n /\ c + i = k /\ c + (i - 1) = k - 1
      BY <1>1, <2>2
    <3> HIDE DEF i
    <3>2. T(k) = end(i) /\ T(k - 1) = end(i - 1)
      BY <1>2, <3>1
    <3>3. commits'[k].requests = pd(i)
      BY <1>5, <3>1
    <3>4. QED
      BY <1>7, <1>12, <3>1, <3>2, <3>3
  <2>3. QED
    BY <1>1, <2>1, <2>2
<1>14. CommittedInQueueOrder'
  <2> SUFFICES ASSUME NEW k \in 1 .. c + n
               PROVE  CollectsFromQueue(commits[k].requests,
                                        L1RequestsThrough(k - 1))'
    BY <1>3 DEF CommittedInQueueOrder
  <2>1. L1RequestsThrough(k - 1)' = T(k - 1)
    BY DEF L1RequestsThrough, Through, T
  <2>2. QED
    BY <1>3, <1>13, <2>1 DEF CollectsFromQueue
<1>15. RegisterSkipsItsDeposit'
  <2>1. ASSUME NEW k \in 1 .. c + n, L1RequestsThrough(k)' > 0
        PROVE  l1RequestQueue[L1RequestsThrough(k)' - 1].opType # "REGISTER"
    <3>1. L1RequestsThrough(k)' = T(k)
      BY DEF L1RequestsThrough, Through, T
    <3>2. QED
      BY <1>13, <2>1, <3>1 DEF Clean
  <2>2. QED
    BY <1>3, <2>1 DEF OrderInv, RegisterSkipsItsDeposit
<1>16. QED
  BY <1>14, <1>15

\* A call that leaves the blocks and the queue's entries alone.
LEMMA OrderKept ==
    ASSUME OrderInv, UNCHANGED <<commits, committedBlockNum, l1RequestQueue>>
    PROVE  (CommittedInQueueOrder /\ RegisterSkipsItsDeposit)'
BY DEF OrderInv, CommittedInQueueOrder, RegisterSkipsItsDeposit, L1RequestsThrough,
       CollectsFromQueue

\* Requests added together, each registration with its deposit, keep the order:
\* every block ends before them.
LEMMA AppendOrder ==
    ASSUME OrderInv, NEW requests \in Seq(Requests), AddL1Requests(requests),
           UNCHANGED <<blockVars, historyVars>>,
           \A j \in 1 .. Len(requests) :
              requests[j].opType = "REGISTER" =>
                 /\ j + 1 \in 1 .. Len(requests)
                 /\ requests[j + 1].opType = "DEPOSIT"
                 /\ requests[j + 1].accountId = requests[j].accountId
    PROVE  (CommittedInQueueOrder /\ RegisterSkipsItsDeposit)'
<1> DEFINE from == firstL1RequestId + pendingL1RequestNum
           len == Len(requests)
           T(k) == L1RequestsThrough(k)
<1>1. /\ from \in Nat /\ len \in Nat
      /\ DOMAIN l1RequestQueue = 0 .. from - 1
      /\ DOMAIN l1RequestQueue' = 0 .. from + len - 1
      /\ \A k \in 0 .. from - 1 : l1RequestQueue'[k] = l1RequestQueue[k]
      /\ \A k \in from .. from + len - 1 :
            /\ k - from + 1 \in 1 .. len
            /\ l1RequestQueue'[k] = requests[k - from + 1]
  <2>1. len \in Nat
    OBVIOUS
  <2>2. QED
    BY <2>1, AddedEntries DEF OrderInv, CountersInv
<1>2. \A k \in 0 .. committedBlockNum : T(k) \in Nat /\ T(k) <= from
  BY EndsInQueue DEF OrderInv
<1>3. \A k : L1RequestsThrough(k)' = T(k)
  BY DEF L1RequestsThrough, historyVars
<1>4. committedBlockNum' = committedBlockNum /\ commits' = commits
  BY DEF blockVars, historyVars
<1>5. committedBlockNum \in Nat
  BY DEF OrderInv, CountersInv, TypeInv, TypeOK
<1> HIDE DEF from, T, len
<1>6. CommittedInQueueOrder'
  <2>1. \A n : (commits[n].requests)' =
                  commits[n].requests
    BY <1>4
  <2>2. \A pd, at : CollectsFromQueue(pd, at) => CollectsFromQueue(pd, at)'
    <3> SUFFICES ASSUME NEW pd, NEW at, CollectsFromQueue(pd, at), NEW j \in DOMAIN pd,
                        pd[j].opType \in {"REGISTER", "DEPOSIT"}
                 PROVE  /\ at + ConsumedBefore(pd)[j - 1] \in DOMAIN l1RequestQueue'
                        /\ l1RequestQueue'[at + ConsumedBefore(pd)[j - 1]] = pd[j]
      BY DEF CollectsFromQueue
    <3>1. /\ at + ConsumedBefore(pd)[j - 1] \in DOMAIN l1RequestQueue
          /\ l1RequestQueue[at + ConsumedBefore(pd)[j - 1]] = pd[j]
      BY DEF CollectsFromQueue
    <3>2. DOMAIN l1RequestQueue \subseteq DOMAIN l1RequestQueue'
      BY <1>1
    <3>3. QED
      BY <1>1, <3>1, <3>2
  <2>3. ASSUME NEW n \in 1 .. committedBlockNum
        PROVE  CollectsFromQueue(commits[n].requests, T(n - 1))'
    <3>1. CollectsFromQueue(commits[n].requests, T(n - 1))
      BY DEF OrderInv, CommittedInQueueOrder, T
    <3>2. T(n - 1)' = T(n - 1)
      BY <1>3 DEF T
    <3>3. QED
      BY <1>4, <2>2, <3>1, <3>2
  <2>4. QED
    BY <1>4, <2>3 DEF CommittedInQueueOrder, T
<1>7. ASSUME NEW id \in DOMAIN l1RequestQueue', l1RequestQueue'[id].opType = "REGISTER"
      PROVE  /\ id + 1 \in DOMAIN l1RequestQueue'
             /\ l1RequestQueue'[id + 1].opType = "DEPOSIT"
             /\ l1RequestQueue'[id + 1].accountId = l1RequestQueue'[id].accountId
  <2>1. CASE id < from
    <3>1. id \in 0 .. from - 1 /\ id \in DOMAIN l1RequestQueue
      BY <1>1, <2>1
    <3>2. /\ id + 1 \in DOMAIN l1RequestQueue
          /\ l1RequestQueue[id + 1].opType = "DEPOSIT"
          /\ l1RequestQueue[id + 1].accountId = l1RequestQueue[id].accountId
      BY <1>1, <1>7, <3>1 DEF OrderInv, RegisterSkipsItsDeposit
    <3>3. id + 1 \in 0 .. from - 1 /\ id + 1 \in 0 .. from + len - 1
      BY <1>1, <3>2
    <3>4. QED
      BY <1>1, <3>1, <3>2, <3>3
  <2>2. CASE id >= from
    <3> DEFINE j == id - from + 1
    <3>1. id \in from .. from + len - 1
      BY <1>1, <2>2
    <3>2. j \in 1 .. len /\ l1RequestQueue'[id] = requests[j]
      BY <1>1, <3>1
    <3>3. /\ j + 1 \in 1 .. len
          /\ requests[j + 1].opType = "DEPOSIT"
          /\ requests[j + 1].accountId = requests[j].accountId
      BY <1>7, <3>2 DEF len
    <3>4. /\ id + 1 \in from .. from + len - 1
          /\ id + 1 \in 0 .. from + len - 1
          /\ (id + 1) - from + 1 = j + 1
      <4>1. from \in Nat /\ len \in Nat /\ id \in Nat /\ from <= id
        BY <1>1, <3>1
      <4>2. id - from + 1 + 1 <= len
        BY <3>3, <4>1
      <4> HIDE DEF from, len
      <4>3. QED
        BY <4>1, <4>2
    <3>5. l1RequestQueue'[id + 1] = requests[j + 1]
      BY <1>1, <3>4
    <3> HIDE DEF j
    <3>6. QED
      BY <1>1, <3>2, <3>3, <3>4, <3>5
  <2>3. QED
    BY <1>1, <2>1, <2>2
<1>8. ASSUME NEW n \in 1 .. committedBlockNum, T(n) > 0
      PROVE  l1RequestQueue'[T(n) - 1].opType # "REGISTER"
  <2>1. n \in 0 .. committedBlockNum
    BY <1>5
  <2>2. T(n) - 1 \in 0 .. from - 1
    BY <1>1, <1>2, <1>8, <2>1
  <2>3. l1RequestQueue[T(n) - 1].opType # "REGISTER"
    BY <1>8 DEF OrderInv, RegisterSkipsItsDeposit, T
  <2>4. QED
    BY <1>1, <2>2, <2>3
<1>9. RegisterSkipsItsDeposit'
  BY <1>3, <1>4, <1>7, <1>8 DEF RegisterSkipsItsDeposit
<1>10. QED
  BY <1>6, <1>9

\* Every call keeps OrderInv.
LEMMA OrderStep == OrderInv /\ [Next]_vars => OrderInv'
<1> SUFFICES ASSUME OrderInv, [Next]_vars PROVE OrderInv'
  OBVIOUS
<1>1. CountersInv'
  BY CountersStep DEF OrderInv
<1>2. ASSUME NEW u \in Users, NEW t \in Tokens, NEW a \in Amounts,
             \/ RegisterWithDeposit(u, t, a) \/ DepositToken(u, t, a)
      PROVE  (CommittedInQueueOrder /\ RegisterSkipsItsDeposit)'
  <2>1. /\ accountNum \in AccountIds /\ accountIdOf[u] \in AccountIds
        /\ tokenIdOf[t] \in TokenIds
    BY ConstantAssumption
       DEF OrderInv, CountersInv, TypeInv, TypeOK, AccountIds, FirstAccountId
  <2> DEFINE register == <<Register(accountNum), Deposit(accountNum, tokenIdOf[t], a)>>
             deposit == <<Deposit(accountIdOf[u], tokenIdOf[t], a)>>
  <2>2. register \in Seq(Requests) /\ deposit \in Seq(Requests)
    BY <2>1, RequestTypes
  <2>3. \A j \in 1 .. Len(register) :
           register[j].opType = "REGISTER" =>
              /\ j + 1 \in 1 .. Len(register)
              /\ register[j + 1].opType = "DEPOSIT"
              /\ register[j + 1].accountId = register[j].accountId
    <3>1. /\ Len(register) = 2
          /\ register[1] = Register(accountNum)
          /\ register[2] = Deposit(accountNum, tokenIdOf[t], a)
      OBVIOUS
    <3> HIDE DEF register
    <3>2. \A j \in 1 .. Len(register) : j = 1 \/ j = 2
      BY <3>1
    <3>3. QED
      BY <3>1, <3>2 DEF Register, Deposit
  <2>4. Len(deposit) = 1 /\ deposit[1].opType = "DEPOSIT"
    BY DEF Deposit
  <2>5. \/ AddL1Requests(register) /\ UNCHANGED <<blockVars, historyVars>>
        \/ AddL1Requests(deposit) /\ UNCHANGED <<blockVars, historyVars>>
    BY <1>2 DEF RegisterWithDeposit, DepositToken
  <2> HIDE DEF register, deposit
  <2>6. \A j \in 1 .. Len(deposit) : deposit[j].opType # "REGISTER"
    BY <2>4
  <2>7. AddL1Requests(register) /\ UNCHANGED <<blockVars, historyVars>> =>
           (CommittedInQueueOrder /\ RegisterSkipsItsDeposit)'
    BY <2>2, <2>3, AppendOrder
  <2>8. AddL1Requests(deposit) /\ UNCHANGED <<blockVars, historyVars>> =>
           (CommittedInQueueOrder /\ RegisterSkipsItsDeposit)'
    BY <2>2, <2>6, AppendOrder
  <2>9. QED
    BY <2>5, <2>7, <2>8
<1>3. ASSUME NEW u, NEW t, NEW a, WithdrawToken(u, t, a)
      PROVE  UNCHANGED <<commits, committedBlockNum, l1RequestQueue>>
  BY <1>3 DEF WithdrawToken, queueVars, blockVars, historyVars
<1>4. CASE UserCall
  BY <1>1, <1>2, <1>3, <1>4, OrderKept DEF UserCall, OrderInv
<1>5. CASE TokenCall \/ ProveCall \/ ExecuteCall \/ UNCHANGED vars
  <2>1. UNCHANGED <<commits, committedBlockNum, l1RequestQueue>>
    BY <1>5 DEF TokenCall, ProveCall, ExecuteCall, addToken, proveBlocks, executeBlocks,
                queueVars, blockVars, historyVars, vars
  <2>2. QED
    BY <1>1, <2>1, OrderKept DEF OrderInv
<1>6. CASE CommitCall
  BY <1>1, <1>6, CommitOrder DEF CommitCall, OrderInv
<1>7. QED
  BY <1>4, <1>5, <1>6, CallsOfNext DEF OrderInv, CountersInv

(***************************************************************************)
(* Every request of every committed block is the queue's entry at the      *)
(* block's place, whatever calls came in between: commitBlocks checked it  *)
(* against the queue as it was, and no later call moves the block's place  *)
(* or rewrites an entry.                                                   *)
(***************************************************************************)
THEOREM QueueOrderCorrect == Spec => []CommittedInQueueOrder
<1>1. Init => OrderInv
  BY InitTypeInv, InitCounters, InitOrder DEF OrderInv, CountersInv
<1>2. OrderInv => CommittedInQueueOrder
  BY DEF OrderInv
<1>3. QED
  BY <1>1, <1>2, OrderStep, PTL DEF Spec

(***************************************************************************)
(* The second entry that a block's REGISTER takes from the queue unchecked *)
(* is always the deposit made with that registration: no call, and no      *)
(* block, ever comes between the two.                                      *)
(***************************************************************************)
THEOREM RegisterSkipCorrect == Spec => []RegisterSkipsItsDeposit
<1>1. Init => OrderInv
  BY InitTypeInv, InitCounters, InitOrder DEF OrderInv, CountersInv
<1>2. OrderInv => RegisterSkipsItsDeposit
  BY DEF OrderInv
<1>3. QED
  BY <1>1, <1>2, OrderStep, PTL DEF Spec

-----------------------------------------------------------------------------
(***************************************************************************)
(* Money.  The sums of VaultAccountsForWithdrawals, with the state they    *)
(* are taken of as parameters: a step is then a fact about two arguments.  *)
(***************************************************************************)

\* What a request adds to the deposits of a token id.
DepositOf(request, tokenId) ==
    IF request.opType = "DEPOSIT" /\ request.tokenId = tokenId THEN request.amount ELSE 0

\* By token id, the deposits among the first n entries of a queue.
DepositsIn(queue, n) ==
    [tokenId \in TokenIds |-> Total([i \in 1 .. n |-> DepositOf(queue[i - 1], tokenId)])]

\* What public data credits to key <<address, token id>> when the accounts
\* belong to owners, and what the first n calls of executeBlocks passed.
WithdrawalOf(owners, op, key) ==
    IF IsWithdraw(op) /\ owners[op.accountId] = key[1] /\ op.tokenId = key[2]
    THEN op.amount ELSE 0
CreditIn(owners, pubdata, key) ==
    Total([j \in 1 .. Len(pubdata) |-> WithdrawalOf(owners, pubdata[j], key)])
PassedIn(owners, calls, n, key) ==
    Total([k \in 1 .. n |-> CreditIn(owners, calls[k].pendingRollupTxPubdata, key)])

\* By user and token id, what was credited and is no longer pending.
LeftTable == [key \in Users \X TokenIds |-> credited[key] - pendingBalances[key]]

\* What left in a token id, over the accounts below num.
LeftAmounts(left, owners, num, tokenId) ==
    [i \in 1 .. num - FirstAccountId |-> left[<<owners[FirstAccountId + i - 1], tokenId>>]]
LeftOfAll(left, owners, num, tokenId) == Total(LeftAmounts(left, owners, num, tokenId))

Deposits == DepositsIn(l1RequestQueue, firstL1RequestId + pendingL1RequestNum)

\* Every id below accountNum belongs to a user.
AllIdsGiven == \A a \in FirstAccountId .. accountNum - 1 : addressOf[a] \in Users

\* Nothing was credited to a user that is not registered.
NoneCredited ==
    \A key \in Users \X TokenIds : accountIdOf[key[1]] = 0 => credited[key] = 0

\* Token ids are given out in order, each to one token, and no request in the
\* queue names one before it is given out.
TokensNumbered ==
    /\ \A t \in Tokens : tokenIdOf[t] < tokenNum
    /\ \A t, v \in Tokens : tokenIdOf[t] # 0 /\ tokenIdOf[t] = tokenIdOf[v] => t = v
    /\ tokenIdOf[WETH] # 0
    /\ \A k \in DOMAIN l1RequestQueue : l1RequestQueue[k].tokenId < tokenNum

\* VaultAccountsForWithdrawals over the tables.
Covered(left, deposits, owners, num, ids, held) ==
    /\ \A key \in Users \X TokenIds : left[key] >= 0
    /\ \A t \in Tokens :
          ids[t] # 0 => held[t] >= deposits[ids[t]] - LeftOfAll(left, owners, num, ids[t])
    /\ held[WETH] = deposits[ids[WETH]] - LeftOfAll(left, owners, num, ids[WETH])

MoneyCovered == Covered(LeftTable, Deposits, addressOf, accountNum, tokenIdOf, vault)

\* Nothing was credited that no call passed.  A registration can only add to what
\* passed public data credits to its user.
CreditedWasPassed ==
    \A key \in Users \X TokenIds :
        credited[key] <= PassedIn(addressOf, executions, executedBlockNum, key)

RegisteredInv == AccountsInv /\ AllIdsGiven /\ TokensNumbered /\ NoneCredited
VaultInv == RegisteredInv /\ CreditedWasPassed /\ MoneyCovered

\* What public data credits is a natural number, request by request.
LEMMA CreditInType ==
    ASSUME NEW pd \in Seq(Requests), NEW owners, NEW key
    PROVE  /\ [j \in 1 .. Len(pd) |-> WithdrawalOf(owners, pd[j], key)] \in Seq(Nat)
           /\ \A j \in 1 .. Len(pd) : WithdrawalOf(owners, pd[j], key) \in Nat
           /\ CreditIn(owners, pd, key) \in Nat
<1> DEFINE num == [j \in 1 .. Len(pd) |-> WithdrawalOf(owners, pd[j], key)]
<1>1. \A r \in Requests : WithdrawalOf(owners, r, key) \in Nat
  <2>1. \A r \in Requests : r.amount \in Nat
    BY DEF Requests
  <2>2. QED
    BY <2>1 DEF WithdrawalOf
<1>2. \A j \in 1 .. Len(pd) : WithdrawalOf(owners, pd[j], key) \in Nat
  BY <1>1
<1>3. num \in Seq(Nat)
  BY <1>2
<1>4. QED
  BY <1>2, <1>3, TotalType DEF CreditIn

\* So are those of many calls, and their sum.
LEMMA PassedCredits ==
    ASSUME NEW n \in Nat, NEW calls,
           \A k \in 1 .. n : calls[k].pendingRollupTxPubdata \in Seq(Requests),
           NEW owners, NEW key
    PROVE  /\ [k \in 1 .. n |-> CreditIn(owners, calls[k].pendingRollupTxPubdata, key)]
                \in Seq(Nat)
           /\ PassedIn(owners, calls, n, key) \in Nat
<1>1. \A k \in 1 .. n : CreditIn(owners, calls[k].pendingRollupTxPubdata, key) \in Nat
  BY CreditInType
<1>2. [k \in 1 .. n |-> CreditIn(owners, calls[k].pendingRollupTxPubdata, key)] \in Seq(Nat)
  BY <1>1
<1>3. QED
  BY <1>2, TotalType DEF PassedIn

\* The withdrawals of a block credit what the block does.
LEMMA WithdrawalsCredit ==
    ASSUME NEW requests \in Seq(Requests), NEW owners, NEW key
    PROVE  CreditIn(owners, Withdrawals(requests), key) = CreditIn(owners, requests, key)
<1> DEFINE n == Len(requests)
           part(j) == IF IsWithdraw(requests[j]) THEN <<requests[j]>> ELSE << >>
           parts == [j \in 1 .. n |-> part(j)]
           num == [j \in 1 .. n |-> WithdrawalOf(owners, requests[j], key)]
           J == PrefixJoin(parts)
           S == PrefixSum(num)
           Good == {i \in 0 .. n : CreditIn(owners, J[i], key) = S[i]}
<1>1. n \in Nat /\ \A j \in 1 .. n : requests[j] \in Requests
  OBVIOUS
<1>2. parts \in Seq(Seq(Requests)) /\ Len(parts) = n
  <2>1. \A j \in 1 .. n : part(j) \in Seq(Requests)
    BY <1>1
  <2> HIDE DEF part, n
  <2>2. QED
    BY <1>1, <2>1
<1>3. num \in Seq(Nat) /\ Len(num) = n
  <2>1. num \in Seq(Nat)
    BY CreditInType
  <2>2. Len(num) = n
    OBVIOUS
  <2>3. QED
    BY <2>1, <2>2
<1>4. /\ \A i \in 0 .. n : J[i] \in Seq(Requests)
      /\ J[0] = << >>
      /\ \A i \in 1 .. n : J[i] = J[i - 1] \o part(i)
  <2>1. /\ J \in [0 .. n -> Seq(Requests)]
        /\ J[0] = << >>
        /\ \A i \in 1 .. n : J[i] = J[i - 1] \o parts[i]
    BY <1>2, PrefixJoinStep
  <2>2. \A i \in 1 .. n : parts[i] = part(i)
    OBVIOUS
  <2> HIDE DEF J, parts, part, n
  <2>3. QED
    BY <2>1, <2>2
<1>5. /\ \A i \in 0 .. n : S[i] \in Nat
      /\ S[0] = 0
      /\ \A i \in 1 .. n : S[i] = S[i - 1] + WithdrawalOf(owners, requests[i], key)
  <2>1. /\ S \in [0 .. n -> Nat]
        /\ S[0] = 0
        /\ \A i \in 1 .. n : S[i] = S[i - 1] + num[i]
    BY <1>3, PrefixSumStep
  <2>2. \A i \in 1 .. n : num[i] = WithdrawalOf(owners, requests[i], key)
    OBVIOUS
  <2> HIDE DEF S, num, n
  <2>3. QED
    BY <2>1, <2>2
<1>6. Withdrawals(requests) = J[n] /\ CreditIn(owners, requests, key) = S[n]
  BY <1>2, <1>3 DEF Withdrawals, CreditIn, Joined, Total
<1>7. 0 \in Good
  <2>1. CreditIn(owners, << >>, key) = 0
    <3> DEFINE none == [j \in 1 .. 0 |-> WithdrawalOf(owners, << >>[j], key)]
    <3>1. none \in Seq(Nat) /\ Len(none) = 0
      OBVIOUS
    <3>2. CreditIn(owners, << >>, key) = Total(none)
      BY DEF CreditIn
    <3> HIDE DEF none
    <3>3. QED
      BY <3>1, <3>2, TotalShort
  <2> HIDE DEF J, S, n
  <2>2. QED
    BY <1>1, <1>4, <1>5, <2>1
<1>8. ASSUME NEW i \in 1 .. n, i - 1 \in Good PROVE i \in Good
  <2> DEFINE before == J[i - 1]
             op == requests[i]
  <2>1. i \in Nat /\ i - 1 \in 0 .. n /\ i \in 0 .. n
    BY <1>1
  <2>2. /\ before \in Seq(Requests) /\ op \in Requests
        /\ CreditIn(owners, before, key) = S[i - 1]
        /\ J[i] = before \o part(i)
        /\ S[i] = S[i - 1] + WithdrawalOf(owners, op, key)
        /\ S[i - 1] \in Nat
    <3> HIDE DEF J, S, n, part
    <3>1. QED
      BY <1>1, <1>4, <1>5, <1>8, <2>1
  <2>3. CASE ~ IsWithdraw(op)
    <3>1. part(i) = << >> /\ WithdrawalOf(owners, op, key) = 0
      BY <2>3 DEF WithdrawalOf
    <3> HIDE DEF J, S, n, part, before
    <3>2. J[i] = before /\ S[i] = S[i - 1]
      BY <2>2, <3>1
    <3>3. QED
      BY <2>1, <2>2, <3>2
  <2>4. CASE IsWithdraw(op)
    <3> DEFINE after == before \o <<op>>
               a == [j \in 1 .. Len(before) |-> WithdrawalOf(owners, before[j], key)]
               b == [j \in 1 .. Len(after) |-> WithdrawalOf(owners, after[j], key)]
    <3>1. J[i] = after
      BY <2>2, <2>4
    <3> HIDE DEF J, S, n, part, before, op
    <3>2. /\ after \in Seq(Requests) /\ Len(after) = Len(before) + 1
          /\ \A j \in 1 .. Len(before) : after[j] = before[j]
          /\ after[Len(after)] = op
          /\ Len(before) \in Nat
      BY <2>2
    <3> HIDE DEF after
    <3>3. a \in Seq(Nat) /\ Len(a) = Len(before)
      <4>1. a \in Seq(Nat)
        BY <2>2, CreditInType
      <4>2. Len(a) = Len(before)
        BY <3>2
      <4>3. QED
        BY <4>1, <4>2
    <3>4. b \in Seq(Nat) /\ Len(b) = Len(a) + 1
      <4>1. b \in Seq(Nat)
        BY <3>2, CreditInType
      <4>2. Len(b) = Len(before) + 1
        BY <3>2
      <4>3. QED
        BY <3>3, <4>1, <4>2
    <3>5. /\ \A j \in 1 .. Len(a) : b[j] = a[j]
          /\ b[Len(b)] = WithdrawalOf(owners, op, key)
      BY <3>2, <3>3, <3>4
    <3>6. Total(a) = CreditIn(owners, before, key) /\ Total(b) = CreditIn(owners, after, key)
      BY DEF CreditIn
    <3> HIDE DEF a, b
    <3>7. Total(b) = Total(a) + b[Len(b)]
      BY <3>3, <3>4, <3>5, TotalAppend
    <3>8. CreditIn(owners, J[i], key) = S[i]
      BY <2>2, <3>1, <3>5, <3>6, <3>7
    <3>9. QED
      BY <2>1, <3>8
  <2>5. QED
    BY <2>3, <2>4
<1>9. \A i \in 0 .. n : i \in Good
  <2> HIDE DEF Good, n
  <2>1. QED
    BY <1>1, <1>7, <1>8, UpTo
<1>10. n \in Good
  <2> HIDE DEF Good, n
  <2>1. QED
    BY <1>1, <1>9
<1>11. QED
  BY <1>6, <1>10

\* What the calls passed, for what Credit adds up.
LEMMA CreditIs ==
    ASSUME NEW key
    PROVE  \A pd : Credit(pd, key[1], key[2]) = CreditIn(addressOf, pd, key)
BY Zenon DEF Credit, CreditIn, WithdrawalOf

\* The calls of executeBlocks, and what the tables are made of.
LEMMA LeftTypes ==
    ASSUME RegisteredInv
    PROVE  /\ executedBlockNum \in Nat
           /\ \A k \in 1 .. executedBlockNum :
                /\ executions[k].pendingRollupTxPubdata \in Seq(Requests)
                /\ executions[k].storedBlock.requests \in Seq(Requests)
           /\ \A key \in Users \X TokenIds :
                /\ credited[key] \in Nat
                /\ pendingBalances[key] \in 0 .. MaxAmount
                /\ pendingBalances[key] \in Nat
                /\ LeftTable[key] = credited[key] - pendingBalances[key]
<1>1. /\ executedBlockNum \in Nat
      /\ executions \in [1 .. executedBlockNum -> ExecuteBlocks]
      /\ pendingBalances \in [Addresses \X TokenIds -> 0 .. MaxAmount]
      /\ credited \in [Addresses \X TokenIds -> Nat]
  BY DEF RegisteredInv, AccountsInv, TypeInv, TypeOK
<1>2. \A b \in ExecuteBlocks : /\ b.pendingRollupTxPubdata \in Seq(Requests)
                               /\ b.storedBlock.requests \in Seq(Requests)
  <2>1. \A b \in ExecuteBlocks : /\ b.pendingRollupTxPubdata \in Seq(Requests)
                                 /\ b.storedBlock \in StoredBlocks
    BY DEF ExecuteBlocks
  <2>2. \A b \in StoredBlocks : b.requests \in Seq(Requests)
    BY DEF StoredBlocks
  <2>3. QED
    BY <2>1, <2>2
<1>3. Users \X TokenIds \subseteq Addresses \X TokenIds
  BY DEF Addresses
<1>4. \A key \in Users \X TokenIds :
         /\ credited[key] \in Nat
         /\ pendingBalances[key] \in 0 .. MaxAmount /\ pendingBalances[key] \in Nat
  BY <1>1, <1>3
<1>5. \A key \in Users \X TokenIds : LeftTable[key] = credited[key] - pendingBalances[key]
  BY DEF LeftTable
<1>6. QED
  BY <1>1, <1>2, <1>4, <1>5

\* If each call passed the withdrawals of its block, what was passed is what the
\* blocks release.
LEMMA PassedIsReleased ==
    ASSUME RegisteredInv, OwnWithdrawalsPassed, NEW u, NEW id
    PROVE  ReleasedTo(u, id) = PassedIn(addressOf, executions, executedBlockNum, <<u, id>>)
<1> DEFINE key == <<u, id>>
           own(n) == executions[n].storedBlock.requests
           passed(n) == executions[n].pendingRollupTxPubdata
<1>1. \A pd : Credit(pd, u, id) = CreditIn(addressOf, pd, key)
  <2>1. \A pd : Credit(pd, key[1], key[2]) = CreditIn(addressOf, pd, key)
    BY CreditIs
  <2>2. QED
    BY <2>1
<1> HIDE DEF key
<1>2. \A n \in 1 .. executedBlockNum :
         CreditIn(addressOf, passed(n), key) = Credit(own(n), u, id)
  <2> SUFFICES ASSUME NEW n \in 1 .. executedBlockNum
               PROVE  CreditIn(addressOf, passed(n), key) = Credit(own(n), u, id)
    OBVIOUS
  <2>1. own(n) \in Seq(Requests)
    BY LeftTypes
  <2>2. passed(n) = Withdrawals(own(n))
    BY DEF OwnWithdrawalsPassed
  <2> HIDE DEF own, passed
  <2>3. CreditIn(addressOf, Withdrawals(own(n)), key) = CreditIn(addressOf, own(n), key)
    BY <2>1, WithdrawalsCredit
  <2>4. QED
    BY <1>1, <2>2, <2>3
<1>3. QED
  BY <1>2 DEF ReleasedTo, PassedIn, key

\* The tables are the sums of the property.
LEMMA VaultTables == VaultInv => VaultAccountsForWithdrawals
<1> SUFFICES ASSUME VaultInv PROVE VaultAccountsForWithdrawals
  OBVIOUS
<1>0. RegisteredInv
  BY DEF VaultInv
<1>1. TypeOK
  BY <1>0 DEF RegisteredInv, AccountsInv, TypeInv
<1>2. ASSUME NEW id \in TokenIds PROVE Deposited(id) = Deposits[id]
  BY DEF Deposited, Deposits, DepositsIn, DepositOf
<1>3. ASSUME NEW u \in Users, NEW id \in TokenIds PROVE Left(u, id) = LeftTable[<<u, id>>]
  <2>1. <<u, id>> \in Users \X TokenIds
    OBVIOUS
  <2>2. QED
    BY <2>1 DEF Left, LeftTable
<1>4. ASSUME NEW id \in TokenIds
      PROVE  LeftToAll(id) = LeftOfAll(LeftTable, addressOf, accountNum, id)
  <2>1. accountNum \in Nat /\ FirstAccountId \in Nat
    BY <1>1, ConstantAssumption DEF TypeOK, FirstAccountId
  <2>2. \A i \in 1 .. accountNum - FirstAccountId :
           addressOf[FirstAccountId + i - 1] \in Users
    BY <1>0, <2>1 DEF RegisteredInv, AllIdsGiven
  <2>3. \A i \in 1 .. accountNum - FirstAccountId :
           Left(addressOf[FirstAccountId + i - 1], id)
             = LeftTable[<<addressOf[FirstAccountId + i - 1], id>>]
    BY <1>3, <2>2
  <2>4. QED
    BY <2>3 DEF LeftToAll, LeftOfAll, LeftAmounts
<1>5. \A t \in Tokens : tokenIdOf[t] \in TokenIds
  BY <1>1 DEF TypeOK
<1>6. WETH \in Tokens
  BY ConstantAssumption
<1>7. \A t \in Tokens : Owed(tokenIdOf[t]) =
         Deposits[tokenIdOf[t]] - LeftOfAll(LeftTable, addressOf, accountNum, tokenIdOf[t])
  BY <1>2, <1>4, <1>5 DEF Owed
<1>8. (\A u \in Users, id \in TokenIds : Left(u, id) >= 0)
         <=> \A key \in Users \X TokenIds : LeftTable[key] >= 0
  <2>1. ASSUME \A u \in Users, id \in TokenIds : Left(u, id) >= 0, NEW key \in Users \X TokenIds
        PROVE  LeftTable[key] >= 0
    <3>1. PICK u \in Users, id \in TokenIds : key = <<u, id>>
      OBVIOUS
    <3>2. Left(u, id) >= 0
      BY <2>1
    <3>3. QED
      BY <1>3, <3>1, <3>2
  <2>2. ASSUME \A key \in Users \X TokenIds : LeftTable[key] >= 0, NEW u \in Users, NEW id \in TokenIds
        PROVE  Left(u, id) >= 0
    <3>1. <<u, id>> \in Users \X TokenIds
      OBVIOUS
    <3>2. LeftTable[<<u, id>>] >= 0
      BY <2>2, <3>1
    <3>3. QED
      BY <1>3, <3>2
  <2>3. QED
    BY <2>1, <2>2
<1>9. ASSUME NEW u \in Users, NEW id \in TokenIds, OwnWithdrawalsPassed
      PROVE  credited[<<u, id>>] <= ReleasedTo(u, id)
  <2>1. <<u, id>> \in Users \X TokenIds
    OBVIOUS
  <2>2. credited[<<u, id>>] <= PassedIn(addressOf, executions, executedBlockNum, <<u, id>>)
    BY <2>1 DEF VaultInv, CreditedWasPassed
  <2>3. QED
    BY <1>0, <1>9, <2>2, PassedIsReleased
<1>10. Covered(LeftTable, Deposits, addressOf, accountNum, tokenIdOf, vault)
  BY DEF VaultInv, MoneyCovered
<1>11. \A u \in Users, id \in TokenIds : Left(u, id) >= 0
  BY <1>8, <1>10 DEF Covered
<1>12. QED
  BY <1>6, <1>7, <1>9, <1>10, <1>11 DEF VaultAccountsForWithdrawals, Covered

\* A request's deposit is a natural number.
LEMMA DepositOfType ==
    ASSUME NEW r \in Requests, NEW id
    PROVE  DepositOf(r, id) \in Nat
<1>1. r.amount \in Nat
  BY DEF Requests
<1>2. QED
  BY <1>1 DEF DepositOf

\* So are those of the queue, and their sum.
LEMMA DepositsType ==
    ASSUME NEW n \in Nat, NEW queue, \A k \in 0 .. n - 1 : queue[k] \in Requests,
           NEW id \in TokenIds
    PROVE  /\ [i \in 1 .. n |-> DepositOf(queue[i - 1], id)] \in Seq(Nat)
           /\ DepositsIn(queue, n)[id] = Total([i \in 1 .. n |-> DepositOf(queue[i - 1], id)])
           /\ DepositsIn(queue, n)[id] \in Nat
<1> DEFINE num == [i \in 1 .. n |-> DepositOf(queue[i - 1], id)]
<1>1. \A i \in 1 .. n : queue[i - 1] \in Requests
  <2>1. \A i \in 1 .. n : i - 1 \in 0 .. n - 1
    OBVIOUS
  <2>2. QED
    BY <2>1
<1>2. \A i \in 1 .. n : DepositOf(queue[i - 1], id) \in Nat
  BY <1>1, DepositOfType
<1>3. num \in Seq(Nat)
  BY <1>2
<1>4. DepositsIn(queue, n)[id] = Total(num)
  BY DEF DepositsIn
<1>5. QED
  BY <1>3, <1>4, TotalType

\* The first n entries of a queue, and more requests behind them.
RequestsAdded(longer, queue, n, more) ==
    /\ \A k \in 0 .. n - 1 : queue[k] \in Requests /\ longer[k] = queue[k]
    /\ \A i \in 1 .. Len(more) : longer[n + i - 1] = more[i]

\* The deposits among requests.
DepositsAmong(requests, tokenId) ==
    Total([i \in 1 .. Len(requests) |-> DepositOf(requests[i], tokenId)])

\* Requests written behind the first n add their own deposits.
LEMMA DepositsMore ==
    ASSUME NEW n \in Nat, NEW queue, NEW more \in Seq(Requests), NEW longer,
           RequestsAdded(longer, queue, n, more), NEW id \in TokenIds
    PROVE  DepositsIn(longer, n + Len(more))[id] =
             DepositsIn(queue, n)[id] + DepositsAmong(more, id)
<1> USE DEF RequestsAdded, DepositsAmong
<1> DEFINE m == Len(more)
           a == [i \in 1 .. n |-> DepositOf(queue[i - 1], id)]
           b == [i \in 1 .. m |-> DepositOf(more[i], id)]
           s == [i \in 1 .. n + m |-> DepositOf(longer[i - 1], id)]
<1>1. m \in Nat /\ n + m \in Nat /\ \A i \in 1 .. m : more[i] \in Requests
  OBVIOUS
<1>2. \A k \in 0 .. n + m - 1 : longer[k] \in Requests
  <2> SUFFICES ASSUME NEW k \in 0 .. n + m - 1 PROVE longer[k] \in Requests
    OBVIOUS
  <2>1. CASE k <= n - 1
    BY <2>1
  <2>2. CASE k >= n
    <3>1. k - n + 1 \in 1 .. m /\ n + (k - n + 1) - 1 = k
      BY <1>1, <2>2
    <3>2. QED
      BY <1>1, <3>1
  <2>3. QED
    BY <1>1, <2>1, <2>2
<1>3. a \in Seq(Nat) /\ DepositsIn(queue, n)[id] = Total(a) /\ Len(a) = n
  <2>1. a \in Seq(Nat) /\ DepositsIn(queue, n)[id] = Total(a)
    BY DepositsType
  <2>2. Len(a) = n
    OBVIOUS
  <2>3. QED
    BY <2>1, <2>2
<1> HIDE DEF m
<1>4. s \in Seq(Nat) /\ DepositsIn(longer, n + m)[id] = Total(s) /\ Len(s) = n + m
  <2> DEFINE l == n + m
  <2>8. l \in Nat /\ \A k \in 0 .. l - 1 : longer[k] \in Requests
    BY <1>1, <1>2
  <2> HIDE DEF l
  <2>9. /\ [i \in 1 .. l |-> DepositOf(longer[i - 1], id)] \in Seq(Nat)
        /\ DepositsIn(longer, l)[id] = Total([i \in 1 .. l |-> DepositOf(longer[i - 1], id)])
    BY <2>8, DepositsType
  <2>1. s \in Seq(Nat) /\ DepositsIn(longer, n + m)[id] = Total(s)
    BY <2>9 DEF l
  <2>2. Len(s) = n + m
    BY <1>1
  <2>3. QED
    BY <2>1, <2>2
<1>5. b \in Seq(Nat) /\ Len(b) = m
  <2>1. \A i \in 1 .. m : DepositOf(more[i], id) \in Nat
    BY <1>1, DepositOfType
  <2>2. b \in Seq(Nat)
    BY <1>1, <2>1
  <2>3. Len(b) = m
    BY <1>1
  <2>4. QED
    BY <2>2, <2>3
<1>6. \A i \in 1 .. n : s[i] = a[i]
  <2>1. \A i \in 1 .. n : i - 1 \in 0 .. n - 1 /\ i \in 1 .. n + m
    BY <1>1
  <2>2. QED
    BY <2>1
<1>7. \A i \in 1 .. m : s[n + i] = b[i]
  <2>1. \A i \in 1 .. m : n + i \in 1 .. n + m /\ (n + i) - 1 = n + i - 1
    BY <1>1
  <2>2. \A i \in 1 .. m : longer[n + i - 1] = more[i]
    BY DEF m
  <2>3. QED
    BY <2>1, <2>2
<1> HIDE DEF a, b, s
<1>8. Total(s) = Total(a) + Total(b)
  BY <1>3, <1>4, <1>5, <1>6, <1>7, TotalConcat
<1>9. QED
  BY <1>3, <1>4, <1>8 DEF b, m

\* New requests add their deposits.
LEMMA AddedDeposits ==
    ASSUME TypeInv, NEW requests \in Seq(Requests), AddL1Requests(requests),
           NEW id \in TokenIds
    PROVE  Deposits'[id] =
             Deposits[id] + Total([i \in 1 .. Len(requests) |-> DepositOf(requests[i], id)])
<1> DEFINE from == firstL1RequestId + pendingL1RequestNum
           m == Len(requests)
<1>1. /\ from \in Nat /\ m \in Nat
      /\ \A k \in 0 .. from - 1 : l1RequestQueue'[k] = l1RequestQueue[k]
      /\ \A k \in from .. from + m - 1 :
            k - from + 1 \in 1 .. m /\ l1RequestQueue'[k] = requests[k - from + 1]
  <2>1. m \in Nat
    OBVIOUS
  <2>2. QED
    BY <2>1, AddedEntries
<1>2. \A k \in 0 .. from - 1 : l1RequestQueue[k] \in Requests
  BY DEF TypeInv, TypeOK
<1>3. firstL1RequestId' + pendingL1RequestNum' = from + m
  BY <1>1 DEF AddL1Requests, TypeInv, TypeOK
<1> HIDE DEF from
<1>4. \A i \in 1 .. m : l1RequestQueue'[from + i - 1] = requests[i]
  <2> SUFFICES ASSUME NEW i \in 1 .. m PROVE l1RequestQueue'[from + i - 1] = requests[i]
    OBVIOUS
  <2>1. from + i - 1 \in from .. from + m - 1 /\ (from + i - 1) - from + 1 = i
    BY <1>1
  <2>2. QED
    BY <1>1, <2>1
<1>5. DepositsIn(l1RequestQueue', from + m)[id] =
        DepositsIn(l1RequestQueue, from)[id]
        + Total([i \in 1 .. m |-> DepositOf(requests[i], id)])
  <2>1. RequestsAdded(l1RequestQueue', l1RequestQueue, from, requests)
    BY <1>1, <1>2, <1>4 DEF RequestsAdded
  <2> HIDE DEF m
  <2>2. DepositsIn(l1RequestQueue', from + Len(requests))[id] =
          DepositsIn(l1RequestQueue, from)[id]
          + DepositsAmong(requests, id)
    <3>1. from \in Nat
      BY <1>1
    <3>2. QED
      BY <2>1, <3>1, DepositsMore
  <2>3. QED
    BY <2>2, Zenon DEF m, DepositsAmong
<1>6. QED
  BY <1>3, <1>5 DEF Deposits, from

\* What is left to the users is a natural number each.
LEMMA LeftOfAllType ==
    ASSUME NEW left, \A key \in Users \X TokenIds : left[key] \in Nat,
           NEW num \in Nat, num >= FirstAccountId, NEW owners,
           \A a \in FirstAccountId .. num - 1 : owners[a] \in Users,
           NEW id \in TokenIds
    PROVE  /\ LeftAmounts(left, owners, num, id) \in Seq(Nat)
           /\ Len(LeftAmounts(left, owners, num, id)) = num - FirstAccountId
           /\ LeftOfAll(left, owners, num, id) \in Nat
<1>1. num - FirstAccountId \in Nat /\ FirstAccountId \in Nat
  BY DEF FirstAccountId
<1>2. \A i \in 1 .. num - FirstAccountId :
         left[<<owners[FirstAccountId + i - 1], id>>] \in Nat
  <2> SUFFICES ASSUME NEW i \in 1 .. num - FirstAccountId
               PROVE  left[<<owners[FirstAccountId + i - 1], id>>] \in Nat
    OBVIOUS
  <2>1. FirstAccountId + i - 1 \in FirstAccountId .. num - 1
    BY <1>1
  <2>2. QED
    BY <2>1
<1>3. /\ LeftAmounts(left, owners, num, id) \in Seq(Nat)
      /\ Len(LeftAmounts(left, owners, num, id)) = num - FirstAccountId
  BY <1>1, <1>2 DEF LeftAmounts
<1>4. QED
  BY <1>3, TotalType DEF LeftOfAll

\* What one call credits.
CreditedBy(owners, call, key) ==
    Total([i \in 1 .. Len(call) |-> CreditIn(owners, call[i].pendingRollupTxPubdata, key)])

\* The first e calls, and more behind them.
CallsAdded(longer, calls, e, more) ==
    /\ \A k \in 1 .. e : longer[k] = calls[k]
    /\ \A k \in 1 .. e : calls[k].pendingRollupTxPubdata \in Seq(Requests)
    /\ \A i \in 1 .. Len(more) : longer[e + i] = more[i]

\* More calls pass what they credit.
LEMMA PassedMore ==
    ASSUME NEW e \in Nat, NEW more \in Seq(ExecuteBlocks), NEW calls, NEW longer,
           CallsAdded(longer, calls, e, more), NEW owners, NEW key
    PROVE  PassedIn(owners, longer, e + Len(more), key) =
             PassedIn(owners, calls, e, key)
             + CreditedBy(owners, more, key)
<1> DEFINE n == Len(more)
           l == e + n
           a == [k \in 1 .. e |-> CreditIn(owners, calls[k].pendingRollupTxPubdata, key)]
           b == [i \in 1 .. n |-> CreditIn(owners, more[i].pendingRollupTxPubdata, key)]
           s == [k \in 1 .. l |-> CreditIn(owners, longer[k].pendingRollupTxPubdata, key)]
<1>0. /\ \A k \in 1 .. e : longer[k] = calls[k]
      /\ \A k \in 1 .. e : calls[k].pendingRollupTxPubdata \in Seq(Requests)
      /\ \A i \in 1 .. n : longer[e + i] = more[i]
  BY DEF CallsAdded
<1>1. n \in Nat /\ l \in Nat /\ l = e + n
  OBVIOUS
<1>2. \A i \in 1 .. n : more[i].pendingRollupTxPubdata \in Seq(Requests)
  BY CallTypes
<1>3. \A k \in 1 .. l : longer[k].pendingRollupTxPubdata \in Seq(Requests)
  <2> SUFFICES ASSUME NEW k \in 1 .. l
               PROVE  longer[k].pendingRollupTxPubdata \in Seq(Requests)
    OBVIOUS
  <2>1. CASE k <= e
    <3>1. k \in 1 .. e
      BY <1>1, <2>1
    <3>2. QED
      BY <1>0, <3>1
  <2>2. CASE k > e
    <3>1. k - e \in 1 .. n /\ e + (k - e) = k
      BY <1>1, <2>2
    <3>2. QED
      BY <1>0, <1>2, <3>1
  <2>3. QED
    BY <1>1, <2>1, <2>2
<1>4. /\ Total(a) = PassedIn(owners, calls, e, key)
      /\ Total(s) = PassedIn(owners, longer, l, key)
  BY DEF PassedIn
<1>5. a \in Seq(Nat) /\ Len(a) = e
  <2>1. a \in Seq(Nat)
    BY <1>0, PassedCredits, ZenonT(30)
  <2>2. Len(a) = e
    OBVIOUS
  <2>3. QED
    BY <2>1, <2>2
<1>6. \A i \in 1 .. n : CreditIn(owners, more[i].pendingRollupTxPubdata, key) \in Nat
  BY <1>2, CreditInType
<1> HIDE DEF n, l
<1>7. b \in Seq(Nat) /\ Len(b) = n
  BY <1>1, <1>6
<1>8. s \in Seq(Nat) /\ Len(s) = l
  <2>1. \A k \in 1 .. l : CreditIn(owners, longer[k].pendingRollupTxPubdata, key) \in Nat
    BY <1>3, CreditInType
  <2>2. QED
    BY <1>1, <2>1
<1>9. \A i \in 1 .. e : s[i] = a[i]
  BY <1>0, <1>1
<1>10. \A i \in 1 .. n : s[e + i] = b[i]
  <2>1. \A i \in 1 .. n : e + i \in 1 .. l /\ longer[e + i] = more[i]
    BY <1>0, <1>1
  <2>2. QED
    BY <2>1
<1> HIDE DEF a, b, s
<1>11. Total(s) = Total(a) + Total(b)
  <2>1. Len(s) = Len(a) + Len(b)
    BY <1>1, <1>5, <1>7, <1>8
  <2>2. \A i \in 1 .. Len(a) : s[i] = a[i]
    BY <1>5, <1>9
  <2>3. \A i \in 1 .. Len(b) : s[Len(a) + i] = b[i]
    BY <1>5, <1>7, <1>10
  <2>4. QED
    BY <1>5, <1>7, <1>8, <2>1, <2>2, <2>3, TotalConcat
<1>12. QED
  BY <1>4, <1>11 DEF CreditedBy, b, n, l

\* A new account can only add to what was passed for its user.
LEMMA PassedGrows ==
    ASSUME NEW n \in Nat, NEW calls,
           \A k \in 1 .. n : calls[k].pendingRollupTxPubdata \in Seq(Requests),
           NEW key \in Users \X TokenIds, NEW owners, NEW others,
           \A a \in AccountIds : owners[a] # NoAddress => others[a] = owners[a]
    PROVE  PassedIn(owners, calls, n, key) <= PassedIn(others, calls, n, key)
<1> DEFINE pd(k) == calls[k].pendingRollupTxPubdata
           a == [k \in 1 .. n |-> CreditIn(owners, pd(k), key)]
           b == [k \in 1 .. n |-> CreditIn(others, pd(k), key)]
<1>1. key[1] # NoAddress
  BY ConstantAssumption
<1>2. \A r \in Requests : WithdrawalOf(owners, r, key) <= WithdrawalOf(others, r, key)
  <2>1. \A r \in Requests : r.amount \in Nat /\ r.accountId \in AccountIds
    BY DEF Requests
  <2>2. QED
    BY <1>1, <2>1 DEF WithdrawalOf
<1>3. ASSUME NEW k \in 1 .. n
      PROVE  CreditIn(owners, pd(k), key) <= CreditIn(others, pd(k), key)
  <2> DEFINE x == [j \in 1 .. Len(pd(k)) |-> WithdrawalOf(owners, pd(k)[j], key)]
             y == [j \in 1 .. Len(pd(k)) |-> WithdrawalOf(others, pd(k)[j], key)]
  <2>1. pd(k) \in Seq(Requests)
    OBVIOUS
  <2> HIDE DEF pd
  <2>2. x \in Seq(Nat) /\ y \in Seq(Nat)
    BY <2>1, CreditInType
  <2>3. Len(pd(k)) \in Nat /\ \A j \in 1 .. Len(pd(k)) : pd(k)[j] \in Requests
    BY <2>1
  <2>4. Len(x) = Len(pd(k)) /\ Len(y) = Len(pd(k))
    BY <2>3
  <2>5. \A j \in 1 .. Len(pd(k)) : x[j] <= y[j]
    BY <1>2, <2>3
  <2>6. CreditIn(owners, pd(k), key) = Total(x) /\ CreditIn(others, pd(k), key) = Total(y)
    BY DEF CreditIn
  <2> HIDE DEF x, y
  <2>7. QED
    BY <2>2, <2>4, <2>5, <2>6, TotalMono
<1>4. a \in Seq(Nat) /\ b \in Seq(Nat)
  <2>1. \A k \in 1 .. n : calls[k].pendingRollupTxPubdata \in Seq(Requests)
    OBVIOUS
  <2>2. a \in Seq(Nat)
    BY <2>1, PassedCredits, Zenon
  <2>3. b \in Seq(Nat)
    BY <2>1, PassedCredits, Zenon
  <2>4. QED
    BY <2>2, <2>3, Zenon
<1>5. Len(a) = n /\ Len(b) = n /\ \A k \in 1 .. n : a[k] <= b[k]
  BY <1>3
<1>6. Total(a) = PassedIn(owners, calls, n, key) /\ Total(b) = PassedIn(others, calls, n, key)
  BY DEF PassedIn
<1> HIDE DEF a, b
<1>7. QED
  BY <1>4, <1>5, <1>6, TotalMono

\* No call credits anything to a user that is not registered.
LEMMA CreditedNone ==
    ASSUME RegisteredInv, NEW call \in Seq(ExecuteBlocks),
           NEW u \in Users, NEW id, accountIdOf[u] = 0
    PROVE  CreditOf(call, u, id) = 0
<1> DEFINE key == <<u, id>>
           pd(i) == call[i].pendingRollupTxPubdata
<1>1. ASSUME NEW a \in AccountIds PROVE addressOf[a] # u
  <2>1. u # NoAddress
    BY ConstantAssumption
  <2>2. addressOf[a] # NoAddress => accountIdOf[addressOf[a]] = a /\ a >= FirstAccountId
    BY DEF RegisteredInv, AccountsInv, AccountsOneToOne, IdsGivenInOrder
  <2>3. a >= FirstAccountId => a # 0
    BY DEF FirstAccountId, AccountIds
  <2>4. QED
    BY <2>1, <2>2, <2>3
<1>2. Len(call) \in Nat /\ \A i \in 1 .. Len(call) : pd(i) \in Seq(Requests)
  BY CallTypes
<1>3. key[1] = u
  OBVIOUS
<1>4. \A p : Credit(p, u, id) = CreditIn(addressOf, p, key)
  <2>1. \A p : Credit(p, key[1], key[2]) = CreditIn(addressOf, p, key)
    BY CreditIs
  <2>2. QED
    BY <2>1
<1> HIDE DEF key
<1>5. ASSUME NEW i \in 1 .. Len(call) PROVE CreditIn(addressOf, pd(i), key) = 0
  <2> DEFINE num == [j \in 1 .. Len(pd(i)) |-> WithdrawalOf(addressOf, pd(i)[j], key)]
  <2>1. pd(i) \in Seq(Requests)
    BY <1>2
  <2> HIDE DEF pd
  <2>2. num \in Seq(Nat)
    BY <2>1, CreditInType
  <2>3. \A j \in 1 .. Len(pd(i)) : pd(i)[j].accountId \in AccountIds
    <3>1. \A r \in Requests : r.accountId \in AccountIds
      BY DEF Requests
    <3>2. \A j \in 1 .. Len(pd(i)) : pd(i)[j] \in Requests
      BY <2>1
    <3>3. QED
      BY <3>1, <3>2
  <2>4. \A j \in 1 .. Len(pd(i)) : WithdrawalOf(addressOf, pd(i)[j], key) = 0
    BY <1>1, <1>3, <2>3 DEF WithdrawalOf
  <2>5. Len(pd(i)) \in Nat
    BY <2>1
  <2>6. \A j \in 1 .. Len(num) : num[j] = 0
    BY <2>4, <2>5
  <2>7. CreditIn(addressOf, pd(i), key) = Total(num)
    BY DEF CreditIn
  <2> HIDE DEF num
  <2>8. QED
    BY <2>2, <2>6, <2>7, TotalZero
<1> DEFINE all == [i \in 1 .. Len(call) |-> Credit(pd(i), u, id)]
<1>6. \A i \in 1 .. Len(call) : all[i] = 0
  BY <1>4, <1>5
<1>7. all \in Seq(Nat) /\ Len(all) = Len(call)
  BY <1>2, <1>4, <1>5
<1>8. CreditOf(call, u, id) = Total(all)
  BY DEF CreditOf
<1> HIDE DEF all
<1>9. QED
  BY <1>6, <1>7, <1>8, TotalZero

\* A call that moves no balance.
LEMMA LeftKept ==
    ASSUME UNCHANGED <<credited, pendingBalances>>
    PROVE  LeftTable' = LeftTable
BY DEF LeftTable

\* A call that executes nothing and rewrites no account.
LEMMA PassedKept ==
    ASSUME VaultInv, UNCHANGED <<executions, executedBlockNum, credited>>,
           \A a \in AccountIds : addressOf[a] # NoAddress => addressOf'[a] = addressOf[a]
    PROVE  CreditedWasPassed'
<1>1. RegisteredInv
  BY DEF VaultInv
<1>2. ASSUME NEW key \in Users \X TokenIds
      PROVE  credited[key] <= PassedIn(addressOf', executions, executedBlockNum, key)
  <2> DEFINE before == PassedIn(addressOf, executions, executedBlockNum, key)
             after == PassedIn(addressOf', executions, executedBlockNum, key)
  <2>1. /\ executedBlockNum \in Nat
        /\ \A k \in 1 .. executedBlockNum :
              executions[k].pendingRollupTxPubdata \in Seq(Requests)
        /\ credited[key] \in Nat
    BY <1>1, LeftTypes
  <2>2. before \in Nat /\ after \in Nat
    BY <2>1, PassedCredits
  <2>3. before <= after
    BY <2>1, PassedGrows
  <2>4. credited[key] <= before
    BY DEF VaultInv, CreditedWasPassed
  <2> HIDE DEF before, after
  <2>5. credited[key] <= after
    BY <2>1, <2>2, <2>3, <2>4
  <2>6. QED
    BY <2>5 DEF after
<1>3. QED
  BY <1>2 DEF CreditedWasPassed

\* Executing credits what was passed and makes as much pending: nothing has left.
LEMMA ExecuteLeft ==
    ASSUME VaultInv, NEW call \in Seq(ExecuteBlocks), Executes(call)
    PROVE  LeftTable' = LeftTable /\ CreditedWasPassed' /\ NoneCredited'
<1> DEFINE credit(key) == CreditOf(call, key[1], key[2])
           calls == executions
           e == executedBlockNum
<1>1. /\ executedBlockNum' = e + Len(call)
      /\ \A k \in 1 .. e : executions'[k] = executions[k]
      /\ \A i \in 1 .. Len(call) : executions'[e + i] = call[i]
      /\ pendingBalances' =
            [k \in Addresses \X TokenIds |-> pendingBalances[k] + CreditOf(call, k[1], k[2])]
      /\ credited' =
            [k \in Addresses \X TokenIds |-> credited[k] + CreditOf(call, k[1], k[2])]
      /\ UNCHANGED accountVars
  BY DEF Executes
<1>2. \A key \in Users \X TokenIds :
         /\ pendingBalances'[key] = pendingBalances[key] + credit(key)
         /\ credited'[key] = credited[key] + credit(key)
  <2>1. Users \X TokenIds \subseteq Addresses \X TokenIds
    BY DEF Addresses
  <2>2. QED
    BY <1>1, <2>1
<1>3. RegisteredInv
  BY DEF VaultInv
<1>4. \A key \in Users \X TokenIds :
         credited[key] \in Nat /\ pendingBalances[key] \in Nat /\ credit(key) \in Nat
  BY <1>3, LeftTypes, CallTypes
<1>5. \A key \in Users \X TokenIds :
         credited'[key] - pendingBalances'[key] = credited[key] - pendingBalances[key]
  <2> HIDE DEF credit
  <2>1. QED
    BY <1>2, <1>4
<1>6. LeftTable' = LeftTable
  BY <1>5 DEF LeftTable
<1>7. ASSUME NEW key \in Users \X TokenIds
      PROVE  credited'[key] <= PassedIn(addressOf, executions', e + Len(call), key)
  <2> DEFINE before == PassedIn(addressOf, executions, e, key)
             after == PassedIn(addressOf, executions', e + Len(call), key)
             added == CreditedBy(addressOf, call, key)
  <2>1. /\ e \in Nat
        /\ \A k \in 1 .. e : executions[k].pendingRollupTxPubdata \in Seq(Requests)
    BY <1>3, LeftTypes
  <2>2. after = before + added
    <3>1. CallsAdded(executions', executions, e, call)
      BY <1>1, <2>1 DEF CallsAdded
    <3> HIDE DEF e
    <3>2. QED
      BY <2>1, <3>1, PassedMore
  <2>3. added = credit(key)
    <3>1. \A pd : CreditIn(addressOf, pd, key) = Credit(pd, key[1], key[2])
      BY CreditIs
    <3>2. QED
      BY <3>1, Zenon DEF CreditOf, CreditedBy
  <2>4. before \in Nat
    BY <2>1, PassedCredits
  <2>5. credited[key] <= before
    BY DEF VaultInv, CreditedWasPassed
  <2> HIDE DEF before, after, added, credit
  <2>6. credited'[key] <= after
    BY <1>2, <1>4, <2>2, <2>3, <2>4, <2>5
  <2>7. QED
    BY <2>6 DEF after
<1>8. CreditedWasPassed'
  <2>1. addressOf' = addressOf
    BY <1>1 DEF accountVars
  <2>2. QED
    BY <1>1, <1>7, <2>1 DEF CreditedWasPassed
<1>9. NoneCredited'
  <2>1. ASSUME NEW key \in Users \X TokenIds, accountIdOf[key[1]] = 0
        PROVE  credited'[key] = 0
    <3>1. key[1] \in Users
      OBVIOUS
    <3>2. credit(key) = 0
      BY <1>3, <2>1, <3>1, CreditedNone
    <3>3. credited[key] = 0
      BY <1>3, <2>1 DEF RegisteredInv, NoneCredited
    <3> HIDE DEF credit
    <3>4. QED
      BY <1>2, <3>2, <3>3
  <2>2. accountIdOf' = accountIdOf
    BY <1>1 DEF accountVars
  <2>3. QED
    BY <2>1, <2>2 DEF NoneCredited
<1>10. QED
  BY <1>6, <1>8, <1>9

\* A withdrawal takes what is pending for the caller, and nothing else.
LEMMA WithdrawLeft ==
    ASSUME RegisteredInv, NEW user \in Users, NEW token \in Tokens, NEW amount \in Amounts,
           WithdrawToken(user, token, amount)
    PROVE  LET key == <<user, tokenIdOf[token]>>
           IN  /\ key \in Users \X TokenIds
               /\ LeftTable'[key] = LeftTable[key] + amount
               /\ \A other \in Users \X TokenIds :
                    other # key => LeftTable'[other] = LeftTable[other]
               /\ amount \in Nat
<1> DEFINE key == <<user, tokenIdOf[token]>>
<1>1. addressOf[accountIdOf[user]] = user
  BY DEF RegisteredInv, AccountsInv, AccountsOneToOne, WithdrawToken
<1>2. key \in Users \X TokenIds /\ key \in Addresses \X TokenIds
  <2>1. tokenIdOf[token] \in TokenIds
    BY DEF RegisteredInv, AccountsInv, TypeInv, TypeOK
  <2>2. QED
    BY <2>1 DEF Addresses
<1>3. pendingBalances' = [pendingBalances EXCEPT ![key] = @ - amount]
  BY <1>1 DEF WithdrawToken, Debited
<1>4. UNCHANGED credited
  BY DEF WithdrawToken, historyVars
<1>5. amount \in Nat
  BY ConstantAssumption
<1> HIDE DEF key
<1>7. \A k \in Users \X TokenIds : LeftTable'[k] = credited[k] - pendingBalances'[k]
  BY <1>4 DEF LeftTable
<1>8. \A k \in Users \X TokenIds :
         /\ credited[k] \in Nat /\ pendingBalances[k] \in Nat
         /\ LeftTable[k] = credited[k] - pendingBalances[k]
  BY LeftTypes
<1>9. /\ pendingBalances'[key] = pendingBalances[key] - amount
      /\ \A k \in Users \X TokenIds : k # key => pendingBalances'[k] = pendingBalances[k]
  <2>1. pendingBalances \in [Addresses \X TokenIds -> 0 .. MaxAmount]
    BY DEF RegisteredInv, AccountsInv, TypeInv, TypeOK
  <2>2. Users \X TokenIds \subseteq Addresses \X TokenIds
    BY DEF Addresses
  <2>3. QED
    BY <1>2, <1>3, <2>1, <2>2
<1>10. LeftTable'[key] = LeftTable[key] + amount
  BY <1>2, <1>5, <1>7, <1>8, <1>9
<1>11. \A other \in Users \X TokenIds : other # key => LeftTable'[other] = LeftTable[other]
  BY <1>7, <1>8, <1>9
<1>12. QED
  BY <1>2, <1>5, <1>10, <1>11 DEF key

-----------------------------------------------------------------------------
(***************************************************************************)
(* The registers: accounts without gaps, token ids in order, nothing       *)
(* credited outside them.                                                  *)
(***************************************************************************)
Registers == AllIdsGiven /\ TokensNumbered /\ NoneCredited

LEMMA InitRegisters == Init => Registers
<1> SUFFICES ASSUME Init PROVE Registers
  OBVIOUS
<1> USE ConstantAssumption DEF Init
<1>1. RESERVED_TOKEN_NUM = 1 /\ FirstTokenNum = 2 /\ FirstAccountId = 100
  BY DEF RESERVED_TOKEN_NUM, FirstTokenNum, FirstAccountId
<1>2. AllIdsGiven
  BY <1>1 DEF AllIdsGiven
<1>3. NoneCredited
  <2>1. Users \X TokenIds \subseteq Addresses \X TokenIds
    BY DEF Addresses
  <2>2. QED
    BY <2>1 DEF NoneCredited
<1>4. TokensNumbered
  BY <1>1 DEF TokensNumbered
<1>5. QED
  BY <1>2, <1>3, <1>4 DEF Registers

\* A call that leaves accounts, tokens, the queue and what was credited alone.
LEMMA RegistersKept ==
    ASSUME Registers, UNCHANGED <<accountVars, tokenVars, l1RequestQueue, credited>>
    PROVE  Registers'
BY DEF Registers, AllIdsGiven, NoneCredited, TokensNumbered, accountVars, tokenVars

\* What requests that name known token ids leave in the queue.
LEMMA AddedTokens ==
    ASSUME RegisteredInv, NEW requests \in Seq(Requests), AddL1Requests(requests),
           \A j \in 1 .. Len(requests) : requests[j].tokenId < tokenNum
    PROVE  \A k \in DOMAIN l1RequestQueue' : l1RequestQueue'[k].tokenId < tokenNum
<1> DEFINE from == firstL1RequestId + pendingL1RequestNum
           len == Len(requests)
<1>1. len \in Nat
  OBVIOUS
<1>2. /\ from \in Nat
      /\ DOMAIN l1RequestQueue = 0 .. from - 1
      /\ DOMAIN l1RequestQueue' = 0 .. from + len - 1
      /\ \A k \in 0 .. from - 1 : l1RequestQueue'[k] = l1RequestQueue[k]
      /\ \A k \in from .. from + len - 1 :
            k - from + 1 \in 1 .. len /\ l1RequestQueue'[k] = requests[k - from + 1]
  BY AddedEntries DEF RegisteredInv, AccountsInv
<1>3. \A k \in DOMAIN l1RequestQueue : l1RequestQueue[k].tokenId < tokenNum
  BY DEF RegisteredInv, TokensNumbered
<1>4. \A j \in 1 .. len : requests[j].tokenId < tokenNum
  OBVIOUS
<1> HIDE DEF from, len
<1>5. \A k \in 0 .. from + len - 1 : k \in 0 .. from - 1 \/ k \in from .. from + len - 1
  BY <1>1, <1>2
<1>6. \A k \in 0 .. from - 1 : l1RequestQueue'[k].tokenId < tokenNum
  BY <1>2, <1>3
<1>7. \A k \in from .. from + len - 1 : l1RequestQueue'[k].tokenId < tokenNum
  BY <1>2, <1>4
<1>8. QED
  BY <1>2, <1>5, <1>6, <1>7

\* A new token's id is one that no request names.
LEMMA AddTokenRegisters ==
    ASSUME RegisteredInv, NEW token \in Tokens, addToken(token)
    PROVE  Registers'
<1>1. /\ tokenIdOf \in [Tokens -> TokenIds] /\ tokenNum \in TokenIds
      /\ tokenIdOf[token] = 0
      /\ tokenIdOf' = [tokenIdOf EXCEPT ![token] = tokenNum]
      /\ tokenNum' = tokenNum + 1
      /\ UNCHANGED <<accountVars, queueVars, credited>>
  BY DEF RegisteredInv, AccountsInv, TypeInv, TypeOK, addToken, historyVars
<1>2. /\ \A t \in Tokens : tokenIdOf[t] < tokenNum
      /\ \A t, v \in Tokens : tokenIdOf[t] # 0 /\ tokenIdOf[t] = tokenIdOf[v] => t = v
      /\ tokenIdOf[WETH] # 0
      /\ \A k \in DOMAIN l1RequestQueue : l1RequestQueue[k].tokenId < tokenNum
  BY DEF RegisteredInv, TokensNumbered
<1>3. tokenNum \in Nat /\ \A t \in Tokens : tokenIdOf[t] \in Nat
  BY <1>1 DEF TokenIds
<1>4. \A t \in Tokens : tokenIdOf'[t] = IF t = token THEN tokenNum ELSE tokenIdOf[t]
  BY <1>1
<1>5. \A t \in Tokens : tokenIdOf'[t] < tokenNum'
  BY <1>1, <1>2, <1>3, <1>4
<1>6. \A t, v \in Tokens : tokenIdOf'[t] # 0 /\ tokenIdOf'[t] = tokenIdOf'[v] => t = v
  BY <1>2, <1>3, <1>4
<1>7. tokenIdOf'[WETH] # 0
  BY <1>1, <1>2, <1>4, ConstantAssumption
<1>8. \A k \in DOMAIN l1RequestQueue' : l1RequestQueue'[k].tokenId < tokenNum'
  <2>1. \A k \in DOMAIN l1RequestQueue : l1RequestQueue[k].tokenId \in Nat
    <3>1. \A k \in DOMAIN l1RequestQueue : l1RequestQueue[k] \in Requests
      BY DEF RegisteredInv, AccountsInv, TypeInv, TypeOK
    <3>2. \A r \in Requests : r.tokenId \in Nat
      BY DEF Requests, TokenIds
    <3>3. QED
      BY <3>1, <3>2
  <2>2. l1RequestQueue' = l1RequestQueue
    BY <1>1 DEF queueVars
  <2>3. QED
    BY <1>1, <1>2, <1>3, <2>1, <2>2
<1>9. (AllIdsGiven /\ NoneCredited)'
  BY <1>1 DEF RegisteredInv, AllIdsGiven, NoneCredited, accountVars
<1>10. TokensNumbered'
  BY <1>5, <1>6, <1>7, <1>8 DEF TokensNumbered
<1>11. QED
  BY <1>9, <1>10 DEF Registers

\* What a registration does to the accounts.
LEMMA RegisterFacts ==
    ASSUME RegisteredInv, NEW user \in Users, NEW token \in Tokens, NEW amount \in Amounts,
           RegisterWithDeposit(user, token, amount)
    PROVE  /\ accountNum \in AccountIds /\ accountNum \in Nat /\ accountNum >= FirstAccountId
           /\ accountNum' = accountNum + 1
           /\ accountIdOf[user] = 0
           /\ addressOf[accountNum] = NoAddress
           /\ addressOf'[accountNum] = user
           /\ \A a \in AccountIds : a # accountNum => addressOf'[a] = addressOf[a]
           /\ \A a \in AccountIds : addressOf[a] # NoAddress => addressOf'[a] = addressOf[a]
           /\ <<Register(accountNum), Deposit(accountNum, tokenIdOf[token], amount)>>
                \in Seq(Requests)
           /\ amount \in Nat
<1>1. /\ accountNum \in AccountIds /\ accountNum \in Nat /\ accountNum >= FirstAccountId
      /\ accountNum' = accountNum + 1
      /\ accountIdOf[user] = 0
      /\ addressOf' = [addressOf EXCEPT ![accountNum] = user]
      /\ addressOf \in [AccountIds -> Addresses]
      /\ tokenIdOf[token] \in TokenIds
      /\ amount \in Nat
  BY ConstantAssumption, SMTT(30)
     DEF RegisteredInv, AccountsInv, TypeInv, TypeOK, RegisterWithDeposit, NotRegistered,
         AccountIds, FirstAccountId
<1>2. addressOf[accountNum] = NoAddress
  BY <1>1 DEF RegisteredInv, AccountsInv, IdsGivenInOrder
<1>3. <<Register(accountNum), Deposit(accountNum, tokenIdOf[token], amount)>> \in Seq(Requests)
  BY <1>1, RequestTypes
<1>4. QED
  BY <1>1, <1>2, <1>3

\* A new account is the next one, and of a user that had none.
LEMMA RegisterRegisters ==
    ASSUME RegisteredInv, NEW user \in Users, NEW token \in Tokens, NEW amount \in Amounts,
           RegisterWithDeposit(user, token, amount)
    PROVE  Registers'
<1>1. /\ accountNum \in AccountIds /\ accountNum \in Nat /\ accountNum >= FirstAccountId
      /\ accountNum' = accountNum + 1
      /\ addressOf'[accountNum] = user
      /\ \A a \in AccountIds : a # accountNum => addressOf'[a] = addressOf[a]
      /\ \A a \in AccountIds : addressOf[a] # NoAddress => addressOf'[a] = addressOf[a]
  BY RegisterFacts
<1>2. FirstAccountId \in Nat
  BY DEF FirstAccountId
<1>3. AllIdsGiven'
  <2>1. \A a \in FirstAccountId .. accountNum - 1 : a \in AccountIds /\ addressOf[a] \in Users
    <3>1. \A a \in FirstAccountId .. accountNum - 1 : a \in AccountIds
      BY <1>1, <1>2, ConstantAssumption DEF AccountIds
    <3>2. QED
      BY <3>1 DEF RegisteredInv, AllIdsGiven
  <2>2. \A a \in FirstAccountId .. accountNum' - 1 :
           a = accountNum \/ a \in FirstAccountId .. accountNum - 1
    BY <1>1, <1>2
  <2>3. \A a \in FirstAccountId .. accountNum - 1 : a # accountNum
    BY <1>1, <1>2
  <2>4. \A a \in FirstAccountId .. accountNum' - 1 : addressOf'[a] \in Users
    BY <1>1, <2>1, <2>2, <2>3
  <2>5. QED
    BY <2>4 DEF AllIdsGiven
<1>4. user # NoAddress
  BY ConstantAssumption
<1>5. NoneCredited'
  <2>1. UNCHANGED credited
    BY DEF RegisterWithDeposit, historyVars
  <2>2. accountIdOf' = [accountIdOf EXCEPT ![user] = accountNum]
    BY DEF RegisterWithDeposit
  <2>3. accountNum # 0
    BY <1>1 DEF FirstAccountId
  <2>4. accountIdOf \in [Users -> AccountIds]
    BY DEF RegisteredInv, AccountsInv, TypeInv, TypeOK
  <2>5. \A u \in Users : accountIdOf'[u] = 0 => accountIdOf[u] = 0
    BY <2>2, <2>3, <2>4
  <2>6. \A key \in Users \X TokenIds : key[1] \in Users
    OBVIOUS
  <2>7. QED
    BY <2>1, <2>5, <2>6 DEF RegisteredInv, NoneCredited
<1>6. TokensNumbered'
  <2> DEFINE requests == <<Register(accountNum), Deposit(accountNum, tokenIdOf[token], amount)>>
  <2>1. requests \in Seq(Requests) /\ AddL1Requests(requests)
    BY RegisterFacts DEF RegisterWithDeposit
  <2>2. \A j \in 1 .. Len(requests) : requests[j].tokenId < tokenNum
    <3>1. tokenIdOf[token] < tokenNum /\ tokenIdOf[token] \in Nat /\ tokenNum \in Nat
      BY DEF RegisteredInv, TokensNumbered, AccountsInv, TypeInv, TypeOK, TokenIds
    <3>2. 0 < tokenNum
      BY <3>1
    <3>3. requests[1].tokenId = 0 /\ requests[2].tokenId = tokenIdOf[token] /\ Len(requests) = 2
      BY DEF Register, Deposit
    <3> HIDE DEF requests
    <3>4. \A j \in 1 .. Len(requests) : j = 1 \/ j = 2
      BY <3>3
    <3>5. QED
      BY <3>1, <3>2, <3>3, <3>4
  <2> HIDE DEF requests
  <2>3. \A k \in DOMAIN l1RequestQueue' : l1RequestQueue'[k].tokenId < tokenNum
    BY <2>1, <2>2, AddedTokens
  <2>4. UNCHANGED tokenVars
    BY DEF RegisterWithDeposit
  <2>5. QED
    BY <2>3, <2>4 DEF RegisteredInv, TokensNumbered, tokenVars
<1>7. QED
  BY <1>3, <1>5, <1>6 DEF Registers

\* What a deposit queues.
LEMMA DepositFacts ==
    ASSUME RegisteredInv, NEW user \in Users, NEW token \in Tokens, NEW amount \in Amounts,
           DepositToken(user, token, amount)
    PROVE  /\ <<Deposit(accountIdOf[user], tokenIdOf[token], amount)>> \in Seq(Requests)
           /\ amount \in Nat
<1>1. /\ tokenIdOf[token] \in TokenIds /\ accountIdOf[user] \in AccountIds
      /\ amount \in Nat
  BY ConstantAssumption DEF RegisteredInv, AccountsInv, TypeInv, TypeOK
<1>2. QED
  BY <1>1, RequestTypes

\* A deposit names an id that was given out, or 0.
LEMMA DepositRegisters ==
    ASSUME RegisteredInv, NEW user \in Users, NEW token \in Tokens, NEW amount \in Amounts,
           DepositToken(user, token, amount)
    PROVE  Registers'
<1> DEFINE requests == <<Deposit(accountIdOf[user], tokenIdOf[token], amount)>>
<1>1. requests \in Seq(Requests) /\ AddL1Requests(requests)
  BY DepositFacts DEF DepositToken
<1>2. \A j \in 1 .. Len(requests) : requests[j].tokenId < tokenNum
  <2>1. tokenIdOf[token] < tokenNum
    BY DEF RegisteredInv, TokensNumbered
  <2>2. requests[1].tokenId = tokenIdOf[token] /\ Len(requests) = 1
    BY DEF Deposit
  <2> HIDE DEF requests
  <2>3. \A j \in 1 .. Len(requests) : j = 1
    BY <2>2
  <2>4. QED
    BY <2>1, <2>2, <2>3
<1> HIDE DEF requests
<1>3. \A k \in DOMAIN l1RequestQueue' : l1RequestQueue'[k].tokenId < tokenNum
  BY <1>1, <1>2, AddedTokens
<1>4. UNCHANGED <<tokenVars, accountVars, credited>>
  BY DEF DepositToken, historyVars
<1>5. QED
  BY <1>3, <1>4 DEF RegisteredInv, Registers, AllIdsGiven, NoneCredited,
                    TokensNumbered, tokenVars, accountVars

-----------------------------------------------------------------------------
(***************************************************************************)
(* The balances, call by call.                                             *)
(***************************************************************************)
OwedNow(id) == Deposits[id] - LeftOfAll(LeftTable, addressOf, accountNum, id)

\* What MoneyCovered adds up are natural numbers.
LEMMA MoneyTypes ==
    ASSUME VaultInv
    PROVE  /\ \A key \in Users \X TokenIds : LeftTable[key] \in Nat
           /\ \A id \in TokenIds :
                /\ Deposits[id] \in Nat
                /\ LeftOfAll(LeftTable, addressOf, accountNum, id) \in Nat
           /\ \A t \in Tokens : vault[t] \in Nat /\ tokenIdOf[t] \in TokenIds
           /\ accountNum \in Nat /\ accountNum >= FirstAccountId
           /\ \A a \in FirstAccountId .. accountNum - 1 : addressOf[a] \in Users
<1>1. ASSUME NEW key \in Users \X TokenIds PROVE LeftTable[key] \in Nat
  <2>1. /\ credited[key] \in Nat /\ pendingBalances[key] \in Nat
        /\ LeftTable[key] = credited[key] - pendingBalances[key]
    BY LeftTypes DEF VaultInv
  <2>2. LeftTable[key] >= 0
    BY DEF VaultInv, MoneyCovered, Covered
  <2>3. QED
    BY <2>1, <2>2
<1>2. /\ \A t \in Tokens : vault[t] \in Nat /\ tokenIdOf[t] \in TokenIds
      /\ accountNum \in Nat /\ accountNum >= FirstAccountId
  BY DEF VaultInv, RegisteredInv, AccountsInv, TypeInv, TypeOK, FirstAccountId
<1>3. \A a \in FirstAccountId .. accountNum - 1 : addressOf[a] \in Users
  BY DEF VaultInv, RegisteredInv, AllIdsGiven
<1>4. \A id \in TokenIds : LeftOfAll(LeftTable, addressOf, accountNum, id) \in Nat
  BY <1>1, <1>2, <1>3, LeftOfAllType
<1>5. ASSUME NEW id \in TokenIds PROVE Deposits[id] \in Nat
  <2> DEFINE n == firstL1RequestId + pendingL1RequestNum
  <2>1. n \in Nat /\ \A k \in 0 .. n - 1 : l1RequestQueue[k] \in Requests
    BY DEF VaultInv, RegisteredInv, AccountsInv, TypeInv, TypeOK
  <2> HIDE DEF n
  <2>2. DepositsIn(l1RequestQueue, n)[id] \in Nat
    BY <2>1, DepositsType
  <2>3. QED
    BY <2>2 DEF Deposits, n
<1>6. QED
  BY <1>1, <1>2, <1>3, <1>4, <1>5

LEMMA InitMoney == Init => MoneyCovered /\ CreditedWasPassed
<1> SUFFICES ASSUME Init PROVE MoneyCovered /\ CreditedWasPassed
  OBVIOUS
<1>1. /\ addressOf = [a \in AccountIds |-> NoAddress] /\ accountNum = FirstAccountId
      /\ firstL1RequestId = 0 /\ pendingL1RequestNum = 0 /\ executedBlockNum = 0
      /\ pendingBalances = [k \in Addresses \X TokenIds |-> 0]
      /\ credited = [k \in Addresses \X TokenIds |-> 0]
      /\ vault = [t \in Tokens |-> 0]
      /\ tokenIdOf \in [Tokens -> TokenIds]
  BY InitTypeInv DEF Init, TypeInv, TypeOK
<1>2. \A key \in Users \X TokenIds : LeftTable[key] = 0
  <2>1. \A key \in Users \X TokenIds : pendingBalances[key] = 0 /\ credited[key] = 0
    <3>1. Users \X TokenIds \subseteq Addresses \X TokenIds
      BY DEF Addresses
    <3>2. QED
      BY <1>1, <3>1
  <2>2. QED
    BY <2>1 DEF LeftTable
<1>3. ASSUME NEW id \in TokenIds PROVE Deposits[id] = 0
  <2> DEFINE num == [i \in 1 .. 0 |-> DepositOf(l1RequestQueue[i - 1], id)]
  <2>1. num \in Seq(Nat) /\ Len(num) = 0
    OBVIOUS
  <2>2. Deposits[id] = Total(num)
    BY <1>1 DEF Deposits, DepositsIn
  <2> HIDE DEF num
  <2>3. QED
    BY <2>1, <2>2, TotalShort
<1>4. ASSUME NEW id \in TokenIds PROVE LeftOfAll(LeftTable, addressOf, accountNum, id) = 0
  <2> DEFINE num == LeftAmounts(LeftTable, addressOf, accountNum, id)
  <2>1. num \in Seq(Nat) /\ Len(num) = 0
    BY <1>1 DEF LeftAmounts, FirstAccountId
  <2>2. LeftOfAll(LeftTable, addressOf, accountNum, id) = Total(num)
    BY DEF LeftOfAll
  <2> HIDE DEF num
  <2>3. QED
    BY <2>1, <2>2, TotalShort
<1>5. \A t \in Tokens : vault[t] = 0 /\ tokenIdOf[t] \in TokenIds
  BY <1>1
<1>6. MoneyCovered
  BY <1>2, <1>3, <1>4, <1>5, ConstantAssumption DEF MoneyCovered, Covered
<1>7. CreditedWasPassed
  <2>1. ASSUME NEW key \in Users \X TokenIds
        PROVE  credited[key] = 0 /\ PassedIn(addressOf, executions, 0, key) = 0
    <3> DEFINE num == [k \in 1 .. 0 |->
                         CreditIn(addressOf, executions[k].pendingRollupTxPubdata, key)]
    <3>1. num \in Seq(Nat) /\ Len(num) = 0
      OBVIOUS
    <3>2. PassedIn(addressOf, executions, 0, key) = Total(num)
      BY DEF PassedIn
    <3>3. credited[key] = 0
      <4>1. key \in Addresses \X TokenIds
        BY DEF Addresses
      <4>2. QED
        BY <1>1, <4>1
    <3> HIDE DEF num
    <3>4. QED
      BY <3>1, <3>2, <3>3, TotalShort
  <2>2. QED
    BY <1>1, <2>1 DEF CreditedWasPassed
<1>8. QED
  BY <1>6, <1>7

\* The call moves delta of one token, and what is owed in it moves as much.
Moves(token, delta) ==
    /\ \A id \in TokenIds :
          Deposits'[id] - LeftOfAll(LeftTable', addressOf', accountNum', id)
            = OwedNow(id) + (IF id = tokenIdOf[token] THEN delta ELSE 0)
    /\ vault' = [vault EXCEPT ![token] = @ + delta]
    /\ tokenIdOf' = tokenIdOf
    /\ \A key \in Users \X TokenIds : LeftTable'[key] >= 0

\* A call that moves a token's vault and the difference of its tables alike
\* keeps the money covered.
LEMMA MoneyMoved ==
    ASSUME VaultInv, NEW token \in Tokens, NEW delta \in Int, Moves(token, delta)
    PROVE  MoneyCovered'
<1> DEFINE owed(id) == OwedNow(id)
           owedNow(id) == Deposits'[id] - LeftOfAll(LeftTable', addressOf', accountNum', id)
<1>1. /\ \A id \in TokenIds : owed(id) \in Int
      /\ \A t \in Tokens : vault[t] \in Nat /\ tokenIdOf[t] \in TokenIds
  BY MoneyTypes DEF OwedNow
<1>2. \A id \in TokenIds :
         owedNow(id) = owed(id) + IF id = tokenIdOf[token] THEN delta ELSE 0
  BY DEF Moves, OwedNow
<1>3. /\ \A t \in Tokens : tokenIdOf[t] # 0 => vault[t] >= owed(tokenIdOf[t])
      /\ vault[WETH] = owed(tokenIdOf[WETH])
  BY DEF VaultInv, MoneyCovered, Covered, OwedNow
<1>4. /\ \A t, v \in Tokens : tokenIdOf[t] # 0 /\ tokenIdOf[t] = tokenIdOf[v] => t = v
      /\ tokenIdOf[WETH] # 0
  BY DEF VaultInv, RegisteredInv, TokensNumbered
<1>5. /\ vault'[token] = vault[token] + delta
      /\ \A t \in Tokens : t # token => vault'[t] = vault[t]
      /\ tokenIdOf' = tokenIdOf
      /\ \A key \in Users \X TokenIds : LeftTable'[key] >= 0
  BY DEF Moves, VaultInv, RegisteredInv, AccountsInv, TypeInv, TypeOK
<1> HIDE DEF owed, owedNow
<1>6. ASSUME NEW t \in Tokens, tokenIdOf[t] # 0
      PROVE  vault'[t] - vault[t] = owedNow(tokenIdOf[t]) - owed(tokenIdOf[t])
  <2>1. /\ tokenIdOf[t] \in TokenIds /\ vault[t] \in Nat
        /\ owed(tokenIdOf[t]) \in Int
    BY <1>1
  <2>2. CASE t = token
    <3>1. /\ vault'[t] = vault[t] + delta
          /\ owedNow(tokenIdOf[t]) = owed(tokenIdOf[t]) + delta
      BY <1>2, <1>5, <2>1, <2>2
    <3>2. QED
      BY <2>1, <3>1
  <2>3. CASE t # token
    <3>1. tokenIdOf[t] # tokenIdOf[token]
      BY <1>4, <1>6, <2>3
    <3>2. vault'[t] = vault[t] /\ owedNow(tokenIdOf[t]) = owed(tokenIdOf[t]) + 0
      BY <1>2, <1>5, <2>1, <2>3, <3>1
    <3>3. QED
      BY <2>1, <3>2
  <2>4. QED
    BY <2>2, <2>3
<1>7. \A t \in Tokens : vault'[t] \in Int /\ owedNow(tokenIdOf[t]) \in Int
  <2>1. \A t \in Tokens : vault'[t] = vault[t] + delta \/ vault'[t] = vault[t]
    BY <1>5
  <2>2. \A t \in Tokens : \/ owedNow(tokenIdOf[t]) = owed(tokenIdOf[t]) + delta
                          \/ owedNow(tokenIdOf[t]) = owed(tokenIdOf[t]) + 0
    BY <1>1, <1>2
  <2>3. \A t \in Tokens : vault[t] \in Int /\ owed(tokenIdOf[t]) \in Int
    BY <1>1
  <2>4. QED
    BY <2>1, <2>2, <2>3
<1>8. \A t \in Tokens : tokenIdOf[t] # 0 => vault'[t] >= owedNow(tokenIdOf[t])
  <2> SUFFICES ASSUME NEW t \in Tokens, tokenIdOf[t] # 0
               PROVE  vault'[t] >= owedNow(tokenIdOf[t])
    OBVIOUS
  <2>1. /\ vault'[t] \in Int /\ vault[t] \in Int
        /\ owedNow(tokenIdOf[t]) \in Int /\ owed(tokenIdOf[t]) \in Int
    BY <1>1, <1>7
  <2>2. vault[t] >= owed(tokenIdOf[t])
    BY <1>3
  <2>3. QED
    BY <1>6, <2>1, <2>2
<1>9. vault'[WETH] = owedNow(tokenIdOf[WETH])
  <2>1. WETH \in Tokens
    BY ConstantAssumption
  <2>2. /\ vault'[WETH] \in Int /\ vault[WETH] \in Int
        /\ owedNow(tokenIdOf[WETH]) \in Int /\ owed(tokenIdOf[WETH]) \in Int
    BY <1>1, <1>7, <2>1
  <2>3. QED
    BY <1>3, <1>4, <1>6, <2>1, <2>2
<1>10. QED
  BY <1>5, <1>8, <1>9 DEF MoneyCovered, Covered, owedNow

\* A call that moves no money.
LEMMA MoneyKept ==
    ASSUME VaultInv, LeftTable' = LeftTable, Deposits' = Deposits,
           UNCHANGED <<addressOf, accountNum, tokenIdOf, vault>>
    PROVE  MoneyCovered'
BY DEF VaultInv, MoneyCovered, Covered

\* A call that queues nothing leaves the deposits alone.
LEMMA DepositsKept ==
    ASSUME UNCHANGED l1RequestQueue,
           firstL1RequestId' + pendingL1RequestNum' = firstL1RequestId + pendingL1RequestNum
    PROVE  Deposits' = Deposits
BY DEF Deposits

\* A new token starts with no deposit, whatever the vault has of it.
LEMMA AddTokenMoney ==
    ASSUME VaultInv, NEW token \in Tokens, addToken(token)
    PROVE  MoneyCovered'
<1>1. /\ tokenIdOf[token] = 0
      /\ tokenIdOf' = [tokenIdOf EXCEPT ![token] = tokenNum]
      /\ UNCHANGED <<accountVars, queueVars, moneyVars, historyVars>>
      /\ tokenIdOf \in [Tokens -> TokenIds] /\ tokenNum \in TokenIds
  BY DEF VaultInv, RegisteredInv, AccountsInv, TypeInv, TypeOK, addToken
<1>2. LeftTable' = LeftTable
  BY <1>1, LeftKept DEF historyVars, moneyVars
<1>3. Deposits' = Deposits
  BY <1>1, DepositsKept DEF queueVars
<1>4. Deposits[tokenNum] = 0
  <2> DEFINE n == firstL1RequestId + pendingL1RequestNum
             num == [i \in 1 .. n |-> DepositOf(l1RequestQueue[i - 1], tokenNum)]
  <2>1. n \in Nat /\ DOMAIN l1RequestQueue = 0 .. n - 1
        /\ \A k \in 0 .. n - 1 : l1RequestQueue[k] \in Requests
    BY DEF VaultInv, RegisteredInv, AccountsInv, TypeInv, TypeOK
  <2>2. \A k \in DOMAIN l1RequestQueue : l1RequestQueue[k].tokenId < tokenNum
    BY DEF VaultInv, RegisteredInv, TokensNumbered
  <2>3. tokenNum \in Nat
    BY <1>1 DEF TokenIds
  <2>4. \A k \in 0 .. n - 1 : l1RequestQueue[k].tokenId # tokenNum
    BY <2>1, <2>2, <2>3
  <2> HIDE DEF n
  <2>5. \A i \in 1 .. n : DepositOf(l1RequestQueue[i - 1], tokenNum) = 0
    <3>1. \A i \in 1 .. n : i - 1 \in 0 .. n - 1
      BY <2>1
    <3>2. QED
      BY <2>4, <3>1 DEF DepositOf
  <2>6. num \in Seq(Nat) /\ \A i \in 1 .. Len(num) : num[i] = 0
    BY <2>1, <2>5
  <2>7. Deposits[tokenNum] = Total(num)
    BY <1>1 DEF Deposits, DepositsIn, n
  <2> HIDE DEF num
  <2>8. QED
    BY <2>6, <2>7, TotalZero
<1>5. /\ LeftOfAll(LeftTable, addressOf, accountNum, tokenNum) \in Nat
      /\ \A t \in Tokens : vault[t] \in Nat
  BY <1>1, MoneyTypes
<1>6. vault[token] >= Deposits[tokenNum] - LeftOfAll(LeftTable, addressOf, accountNum, tokenNum)
  BY <1>4, <1>5
<1>7. token # WETH
  BY <1>1 DEF VaultInv, RegisteredInv, TokensNumbered
<1>8. UNCHANGED <<addressOf, accountNum, vault>>
  BY <1>1 DEF accountVars, moneyVars
<1>9. \A t \in Tokens : tokenIdOf'[t] = IF t = token THEN tokenNum ELSE tokenIdOf[t]
  BY <1>1
<1>10. Covered(LeftTable, Deposits, addressOf, accountNum, tokenIdOf, vault)
  BY DEF VaultInv, MoneyCovered
<1>11. Covered(LeftTable, Deposits, addressOf, accountNum, tokenIdOf', vault)
  BY <1>6, <1>7, <1>9, <1>10, ConstantAssumption DEF Covered
<1>12. QED
  BY <1>2, <1>3, <1>8, <1>11 DEF MoneyCovered

\* A registration's deposit moves into the vault.
LEMMA RegisterMoney ==
    ASSUME VaultInv, NEW user \in Users, NEW token \in Tokens, NEW amount \in Amounts,
           RegisterWithDeposit(user, token, amount)
    PROVE  MoneyCovered'
<1> DEFINE requests == <<Register(accountNum), Deposit(accountNum, tokenIdOf[token], amount)>>
           num == accountNum
<1>1. /\ num \in AccountIds /\ num \in Nat /\ num >= FirstAccountId
      /\ accountNum' = num + 1
      /\ accountIdOf[user] = 0
      /\ addressOf'[num] = user
      /\ \A a \in AccountIds : a # num => addressOf'[a] = addressOf[a]
      /\ \A a \in AccountIds : addressOf[a] # NoAddress => addressOf'[a] = addressOf[a]
      /\ requests \in Seq(Requests)
      /\ amount \in Nat
  BY RegisterFacts DEF VaultInv
<1>2. LeftTable' = LeftTable
  <2>1. UNCHANGED <<credited, pendingBalances>>
    BY DEF RegisterWithDeposit, historyVars
  <2>2. QED
    BY <2>1, LeftKept
<1>3. ASSUME NEW id \in TokenIds
      PROVE  Deposits'[id] = Deposits[id] + (IF id = tokenIdOf[token] THEN amount ELSE 0)
  <2> DEFINE added == [i \in 1 .. Len(requests) |-> DepositOf(requests[i], id)]
  <2>1. Deposits'[id] = Deposits[id] + Total(added)
    <3>1. AddL1Requests(requests)
      BY DEF RegisterWithDeposit
    <3> HIDE DEF requests
    <3>2. QED
      BY <1>1, <3>1, AddedDeposits DEF VaultInv, RegisteredInv, AccountsInv
  <2>2. /\ DepositOf(Register(num), id) = 0
        /\ DepositOf(Deposit(num, tokenIdOf[token], amount), id) =
             IF id = tokenIdOf[token] THEN amount ELSE 0
    BY DEF DepositOf, Register, Deposit
  <2>3. Len(requests) = 2
    OBVIOUS
  <2>4. /\ requests[1] = Register(num)
        /\ requests[2] = Deposit(num, tokenIdOf[token], amount)
    OBVIOUS
  <2> HIDE DEF requests, num
  <2>5. \A i \in 1 .. 2 : DepositOf(requests[i], id) \in Nat
    <3>1. requests \in Seq(Requests)
      BY <1>1
    <3>2. \A i \in 1 .. 2 : requests[i] \in Requests
      BY <2>3, <3>1
    <3>3. QED
      BY <3>2, DepositOfType
  <2>6. added \in Seq(Nat) /\ Len(added) = 2
    <3>1. added = [i \in 1 .. 2 |-> DepositOf(requests[i], id)]
      BY <2>3
    <3>2. [i \in 1 .. 2 |-> DepositOf(requests[i], id)] \in Seq(Nat)
      BY <2>5
    <3>3. Len([i \in 1 .. 2 |-> DepositOf(requests[i], id)]) = 2
      OBVIOUS
    <3> HIDE DEF added
    <3>4. QED
      BY <3>1, <3>2, <3>3
  <2>7. /\ added[1] = 0
        /\ added[2] = IF id = tokenIdOf[token] THEN amount ELSE 0
    BY <2>2, <2>3, <2>4
  <2> HIDE DEF added
  <2>8. Total(added) = added[1] + added[2]
    BY <2>6, TotalShort
  <2>9. Total(added) = IF id = tokenIdOf[token] THEN amount ELSE 0
    BY <1>1, <2>7, <2>8
  <2>10. QED
    BY <2>1, <2>9
<1>4. ASSUME NEW id \in TokenIds
      PROVE  LeftOfAll(LeftTable, addressOf', num + 1, id) =
               LeftOfAll(LeftTable, addressOf, num, id)
  <2> DEFINE a == LeftAmounts(LeftTable, addressOf, num, id)
             b == LeftAmounts(LeftTable, addressOf', num + 1, id)
             len == num - FirstAccountId
             key == <<user, id>>
  <2>1. len \in Nat /\ FirstAccountId \in Nat /\ num = FirstAccountId + len
    BY <1>1 DEF FirstAccountId
  <2>2. \A k \in Users \X TokenIds : LeftTable[k] \in Nat
    BY MoneyTypes
  <2>3. \A x \in FirstAccountId .. num - 1 : addressOf[x] \in Users /\ addressOf'[x] = addressOf[x]
    <3>1. \A x \in FirstAccountId .. num - 1 : addressOf[x] \in Users
      BY MoneyTypes
    <3>2. \A x \in FirstAccountId .. num - 1 : x \in AccountIds /\ x # num
      BY <1>1, <2>1, ConstantAssumption DEF AccountIds
    <3>3. QED
      BY <1>1, <3>1, <3>2
  <2>4. a \in Seq(Nat) /\ Len(a) = len
    BY <1>1, <2>2, <2>3, LeftOfAllType
  <2>5. \A x \in FirstAccountId .. (num + 1) - 1 : addressOf'[x] \in Users
    <3>1. \A x \in FirstAccountId .. (num + 1) - 1 : x = num \/ x \in FirstAccountId .. num - 1
      BY <1>1, <2>1
    <3>2. QED
      BY <1>1, <2>3, <3>1
  <2>6. b \in Seq(Nat) /\ Len(b) = len + 1
    <3>1. num + 1 \in Nat /\ num + 1 >= FirstAccountId
      BY <1>1, <2>1
    <3>2. b \in Seq(Nat) /\ Len(b) = (num + 1) - FirstAccountId
      BY <2>2, <2>5, <3>1, LeftOfAllType
    <3> HIDE DEF b
    <3>3. QED
      BY <2>1, <3>2
  <2>7. \A i \in 1 .. len : b[i] = a[i]
    <3> SUFFICES ASSUME NEW i \in 1 .. len PROVE b[i] = a[i]
      OBVIOUS
    <3>1. FirstAccountId + i - 1 \in FirstAccountId .. num - 1 /\ i \in 1 .. (num + 1) - FirstAccountId
      BY <2>1
    <3>2. addressOf'[FirstAccountId + i - 1] = addressOf[FirstAccountId + i - 1]
      BY <2>3, <3>1
    <3>3. a[i] = LeftTable[<<addressOf[FirstAccountId + i - 1], id>>]
      BY DEF LeftAmounts
    <3>4. b[i] = LeftTable[<<addressOf'[FirstAccountId + i - 1], id>>]
      BY <3>1 DEF LeftAmounts
    <3>5. QED
      BY <3>2, <3>3, <3>4
  <2>8. b[len + 1] = LeftTable[key]
    <3>1. len + 1 \in 1 .. (num + 1) - FirstAccountId /\ FirstAccountId + (len + 1) - 1 = num
      BY <2>1
    <3>2. b[len + 1] = LeftTable[<<addressOf'[FirstAccountId + (len + 1) - 1], id>>]
      BY <3>1 DEF LeftAmounts
    <3>3. QED
      BY <1>1, <3>1, <3>2
  <2>9. LeftTable[key] = 0
    <3>1. key \in Users \X TokenIds /\ key[1] = user
      OBVIOUS
    <3> HIDE DEF key
    <3>2. credited[key] = 0
      BY <1>1, <3>1 DEF VaultInv, RegisteredInv, NoneCredited
    <3>3. /\ pendingBalances[key] \in Nat
          /\ LeftTable[key] = credited[key] - pendingBalances[key]
      BY <3>1, LeftTypes DEF VaultInv
    <3>4. LeftTable[key] \in Nat
      BY <2>2, <3>1
    <3>5. QED
      BY <3>2, <3>3, <3>4
  <2> HIDE DEF a, b, key
  <2>10. Total(b) = Total(a) + b[Len(b)]
    BY <2>4, <2>6, <2>7, TotalAppend
  <2>11. Total(a) \in Nat
    BY <2>4, TotalType
  <2>12. Total(b) = Total(a)
    BY <2>6, <2>8, <2>9, <2>10, <2>11
  <2>13. QED
    BY <2>12 DEF LeftOfAll, a, b
<1>5. \A id \in TokenIds :
         Deposits'[id] - LeftOfAll(LeftTable', addressOf', accountNum', id)
           = OwedNow(id) + (IF id = tokenIdOf[token] THEN amount ELSE 0)
  <2> SUFFICES ASSUME NEW id \in TokenIds
               PROVE  Deposits'[id] - LeftOfAll(LeftTable', addressOf', accountNum', id)
                        = OwedNow(id) + (IF id = tokenIdOf[token] THEN amount ELSE 0)
    OBVIOUS
  <2>1. LeftOfAll(LeftTable', addressOf', accountNum', id) =
          LeftOfAll(LeftTable, addressOf, accountNum, id)
    BY <1>1, <1>2, <1>4
  <2>2. /\ Deposits[id] \in Nat
        /\ LeftOfAll(LeftTable, addressOf, accountNum, id) \in Nat
    BY MoneyTypes
  <2>3. QED
    BY <1>1, <1>3, <2>1, <2>2 DEF OwedNow
<1>6. /\ vault' = [vault EXCEPT ![token] = @ + amount]
      /\ tokenIdOf' = tokenIdOf
  BY DEF RegisterWithDeposit, Receive, tokenVars
<1>7. \A key \in Users \X TokenIds : LeftTable'[key] >= 0
  BY <1>2, MoneyTypes
<1>8. Moves(token, amount) /\ amount \in Int
  BY <1>1, <1>5, <1>6, <1>7 DEF Moves
<1>9. QED
  BY <1>8, MoneyMoved

\* So does a deposit; one of a token not whitelisted is credited to id 0.
LEMMA DepositMoney ==
    ASSUME VaultInv, NEW user \in Users, NEW token \in Tokens, NEW amount \in Amounts,
           DepositToken(user, token, amount)
    PROVE  MoneyCovered'
<1> DEFINE request == Deposit(accountIdOf[user], tokenIdOf[token], amount)
           requests == <<request>>
<1>1. requests \in Seq(Requests) /\ amount \in Nat /\ AddL1Requests(requests)
  BY DepositFacts DEF VaultInv, DepositToken
<1>2. /\ UNCHANGED <<addressOf, accountNum, credited, pendingBalances>>
      /\ vault' = [vault EXCEPT ![token] = @ + amount]
      /\ tokenIdOf' = tokenIdOf
  BY DEF DepositToken, Receive, accountVars, tokenVars, historyVars
<1>3. LeftTable' = LeftTable
  BY <1>2, LeftKept
<1>4. ASSUME NEW id \in TokenIds
      PROVE  Deposits'[id] = Deposits[id] + (IF id = tokenIdOf[token] THEN amount ELSE 0)
  <2> DEFINE added == [i \in 1 .. Len(requests) |-> DepositOf(requests[i], id)]
  <2>1. DepositOf(request, id) = IF id = tokenIdOf[token] THEN amount ELSE 0
    BY DEF DepositOf, Deposit
  <2> HIDE DEF request
  <2>2. Len(requests) = 1 /\ requests[1] = request
    OBVIOUS
  <2> HIDE DEF requests
  <2>3. Deposits'[id] = Deposits[id] + Total(added)
    BY <1>1, AddedDeposits DEF VaultInv, RegisteredInv, AccountsInv
  <2>4. added = [i \in 1 .. 1 |-> DepositOf(requests[i], id)]
    BY <2>2
  <2>5. DepositOf(request, id) \in Nat
    BY <1>1, <2>1
  <2>6. [i \in 1 .. 1 |-> DepositOf(requests[i], id)] \in Seq(Nat)
    <3>1. \A i \in 1 .. 1 : DepositOf(requests[i], id) \in Nat
      BY <2>2, <2>5
    <3>2. QED
      BY <3>1
  <2>7. Len([i \in 1 .. 1 |-> DepositOf(requests[i], id)]) = 1
    OBVIOUS
  <2>8. added[1] = DepositOf(request, id)
    BY <2>2
  <2> HIDE DEF added
  <2>9. Total(added) = added[1]
    BY <2>4, <2>6, <2>7, TotalShort
  <2>10. QED
    BY <2>1, <2>3, <2>8, <2>9
<1>5. \A id \in TokenIds :
         Deposits'[id] - LeftOfAll(LeftTable', addressOf', accountNum', id)
           = OwedNow(id) + (IF id = tokenIdOf[token] THEN amount ELSE 0)
  <2> SUFFICES ASSUME NEW id \in TokenIds
               PROVE  Deposits'[id] - LeftOfAll(LeftTable', addressOf', accountNum', id)
                        = OwedNow(id) + (IF id = tokenIdOf[token] THEN amount ELSE 0)
    OBVIOUS
  <2>1. LeftOfAll(LeftTable', addressOf', accountNum', id) =
          LeftOfAll(LeftTable, addressOf, accountNum, id)
    BY <1>2, <1>3
  <2>2. /\ Deposits[id] \in Nat
        /\ LeftOfAll(LeftTable, addressOf, accountNum, id) \in Nat
    BY MoneyTypes
  <2>3. QED
    BY <1>1, <1>4, <2>1, <2>2 DEF OwedNow
<1>6. \A key \in Users \X TokenIds : LeftTable'[key] >= 0
  BY <1>3, MoneyTypes
<1>7. Moves(token, amount) /\ amount \in Int
  BY <1>1, <1>2, <1>5, <1>6 DEF Moves
<1>8. QED
  BY <1>7, MoneyMoved

\* A withdrawal leaves the vault and what is left to the user.
LEMMA WithdrawMoney ==
    ASSUME VaultInv, NEW user \in Users, NEW token \in Tokens, NEW amount \in Amounts,
           WithdrawToken(user, token, amount)
    PROVE  MoneyCovered'
<1> DEFINE tokenId == tokenIdOf[token]
           key == <<user, tokenId>>
           account == accountIdOf[user]
<1>1. /\ key \in Users \X TokenIds
      /\ LeftTable'[key] = LeftTable[key] + amount
      /\ \A other \in Users \X TokenIds : other # key => LeftTable'[other] = LeftTable[other]
      /\ amount \in Nat
  BY WithdrawLeft DEF VaultInv
<1>2. /\ UNCHANGED <<addressOf, accountNum, tokenIdOf>>
      /\ vault' = [vault EXCEPT ![token] = @ - amount]
      /\ account # 0
  BY DEF WithdrawToken, accountVars, tokenVars
<1>3. Deposits' = Deposits
  BY DepositsKept DEF WithdrawToken, queueVars
<1>4. /\ \A k \in Users \X TokenIds : LeftTable[k] \in Nat
      /\ accountNum \in Nat /\ accountNum >= FirstAccountId
      /\ \A a \in FirstAccountId .. accountNum - 1 : addressOf[a] \in Users
  BY MoneyTypes
<1>5. \A k \in Users \X TokenIds : LeftTable'[k] \in Nat
  BY <1>1, <1>4
<1>6. account \in FirstAccountId .. accountNum - 1 /\ addressOf[account] = user
  <2>1. account \in AccountIds /\ addressOf[account] = user /\ user # NoAddress
    BY <1>2, ConstantAssumption
       DEF VaultInv, RegisteredInv, AccountsInv, AccountsOneToOne, TypeInv, TypeOK
  <2>2. FirstAccountId <= account /\ account < accountNum
    BY <2>1 DEF VaultInv, RegisteredInv, AccountsInv, IdsGivenInOrder
  <2>3. QED
    BY <1>4, <2>1, <2>2 DEF AccountIds, FirstAccountId
<1>7. \A a \in FirstAccountId .. accountNum - 1 : addressOf[a] = user => a = account
  <2>1. \A a \in FirstAccountId .. accountNum - 1 : a \in AccountIds
    BY <1>4, ConstantAssumption, SMTT(30)
       DEF AccountIds, FirstAccountId, VaultInv, RegisteredInv, AccountsInv, TypeInv, TypeOK
  <2>2. user # NoAddress
    BY ConstantAssumption
  <2>3. QED
    BY <2>1, <2>2 DEF VaultInv, RegisteredInv, AccountsInv, AccountsOneToOne
<1> HIDE DEF account
<1>8. ASSUME NEW id \in TokenIds
      PROVE  LeftOfAll(LeftTable', addressOf, accountNum, id) =
               LeftOfAll(LeftTable, addressOf, accountNum, id)
               + (IF id = tokenId THEN amount ELSE 0)
  <2> DEFINE a == LeftAmounts(LeftTable, addressOf, accountNum, id)
             b == LeftAmounts(LeftTable', addressOf, accountNum, id)
             len == accountNum - FirstAccountId
             at == account - FirstAccountId + 1
  <2>1. /\ FirstAccountId \in Nat /\ len \in Nat
        /\ at \in 1 .. len /\ FirstAccountId + at - 1 = account
        /\ \A i \in 1 .. len : FirstAccountId + i - 1 \in FirstAccountId .. accountNum - 1
        /\ \A i \in 1 .. len : FirstAccountId + i - 1 = account => i = at
    BY <1>4, <1>6 DEF FirstAccountId
  <2>2. a \in Seq(Nat) /\ Len(a) = len
    BY <1>4, LeftOfAllType
  <2>3. b \in Seq(Nat) /\ Len(b) = len
    BY <1>4, <1>5, LeftOfAllType
  <2>4. \A i \in 1 .. len : /\ a[i] = LeftTable[<<addressOf[FirstAccountId + i - 1], id>>]
                            /\ b[i] = LeftTable'[<<addressOf[FirstAccountId + i - 1], id>>]
    BY DEF LeftAmounts
  <2>5. \A i \in 1 .. len : i # at => b[i] = a[i]
    <3> SUFFICES ASSUME NEW i \in 1 .. len, i # at PROVE b[i] = a[i]
      OBVIOUS
    <3>1. /\ addressOf[FirstAccountId + i - 1] \in Users
          /\ addressOf[FirstAccountId + i - 1] # user
      BY <1>4, <1>7, <2>1
    <3> DEFINE other == <<addressOf[FirstAccountId + i - 1], id>>
    <3>2. other \in Users \X TokenIds /\ other # key
      BY <3>1
    <3>3. a[i] = LeftTable[other] /\ b[i] = LeftTable'[other]
      BY <2>4
    <3> HIDE DEF other, key, a, b
    <3>4. QED
      BY <1>1, <3>2, <3>3
  <2>6. b[at] = a[at] + (IF id = tokenId THEN amount ELSE 0)
    <3> DEFINE mine == <<user, id>>
    <3>1. a[at] = LeftTable[mine] /\ b[at] = LeftTable'[mine]
      BY <1>6, <2>1, <2>4
    <3>2. mine \in Users \X TokenIds
      OBVIOUS
    <3>3. CASE id = tokenId
      <4>1. mine = key
        BY <3>3
      <4> HIDE DEF mine, key, a, b
      <4>2. QED
        BY <1>1, <3>1, <3>3, <4>1
    <3>4. CASE id # tokenId
      <4>1. mine # key
        BY <3>4
      <4> HIDE DEF mine, key, a, b
      <4>2. LeftTable'[mine] = LeftTable[mine] /\ LeftTable[mine] \in Nat
        BY <1>1, <1>4, <3>2, <4>1
      <4>3. QED
        BY <3>1, <3>4, <4>2
    <3>5. QED
      BY <3>3, <3>4
  <2> HIDE DEF a, b, at, len, tokenId
  <2>7. Total(b) + a[at] = Total(a) + b[at]
    BY <2>1, <2>2, <2>3, <2>5, TotalUpdate, SMTT(30)
  <2>8. Total(a) \in Nat /\ Total(b) \in Nat /\ a[at] \in Nat
    BY <2>1, <2>2, <2>3, TotalType
  <2>9. Total(b) = Total(a) + (IF id = tokenId THEN amount ELSE 0)
    BY <1>1, <2>6, <2>7, <2>8
  <2>10. QED
    BY <2>9 DEF LeftOfAll, a, b
<1>9. \A id \in TokenIds :
         Deposits'[id] - LeftOfAll(LeftTable', addressOf', accountNum', id)
           = OwedNow(id) + (IF id = tokenIdOf[token] THEN - amount ELSE 0)
  <2> SUFFICES ASSUME NEW id \in TokenIds
               PROVE  Deposits'[id] - LeftOfAll(LeftTable', addressOf', accountNum', id)
                        = OwedNow(id) + (IF id = tokenIdOf[token] THEN - amount ELSE 0)
    OBVIOUS
  <2>1. LeftOfAll(LeftTable', addressOf', accountNum', id) =
          LeftOfAll(LeftTable, addressOf, accountNum, id)
          + (IF id = tokenIdOf[token] THEN amount ELSE 0)
    BY <1>2, <1>8
  <2>2. /\ Deposits[id] \in Nat
        /\ LeftOfAll(LeftTable, addressOf, accountNum, id) \in Nat
    BY MoneyTypes
  <2>3. QED
    BY <1>1, <1>3, <2>1, <2>2 DEF OwedNow
<1>10. vault' = [vault EXCEPT ![token] = @ + (- amount)]
  <2>1. vault[token] \in Nat
    BY MoneyTypes
  <2>2. vault[token] - amount = vault[token] + (- amount)
    BY <1>1, <2>1
  <2>3. QED
    BY <1>2, <2>2
<1>11. \A k \in Users \X TokenIds : LeftTable'[k] >= 0
  BY <1>5
<1>12. - amount \in Int
  BY <1>1
<1>13. Moves(token, - amount)
  BY <1>2, <1>9, <1>10, <1>11, Zenon DEF Moves
<1>14. QED
  BY <1>12, <1>13, MoneyMoved

\* Committing and proving move no money.
LEMMA BlocksMoney ==
    ASSUME VaultInv, UNCHANGED <<accountVars, tokenVars, vault>>,
           LeftTable' = LeftTable, UNCHANGED l1RequestQueue,
           firstL1RequestId' + pendingL1RequestNum' = firstL1RequestId + pendingL1RequestNum
    PROVE  MoneyCovered'
<1>1. Deposits' = Deposits
  BY DepositsKept
<1>2. UNCHANGED <<addressOf, accountNum, tokenIdOf>>
  BY DEF accountVars, tokenVars
<1>3. QED
  BY <1>1, <1>2, MoneyKept

\* Executing moves the first request's id up by what it takes off the pending.
LEMMA ExecuteSlots ==
    ASSUME TypeInv, NEW call \in Seq(ExecuteBlocks), Executes(call)
    PROVE  firstL1RequestId' + pendingL1RequestNum' = firstL1RequestId + pendingL1RequestNum
<1>1. /\ firstL1RequestId' = firstL1RequestId + RequestsOf(call)
      /\ pendingL1RequestNum' = pendingL1RequestNum - RequestsOf(call)
  BY DEF Executes
<1>2. RequestsOf(call) \in Nat
  BY CallTypes
<1>3. firstL1RequestId \in Nat /\ pendingL1RequestNum \in Nat
  BY DEF TypeInv, TypeOK
<1>4. QED
  BY <1>1, <1>2, <1>3

\* Every call keeps VaultInv; executing moves money from the blocks to what is
\* pending.
LEMMA VaultStep == VaultInv /\ [Next]_vars => VaultInv'
<1> SUFFICES ASSUME VaultInv, [Next]_vars PROVE VaultInv'
  OBVIOUS
<1>1. RegisteredInv /\ AccountsInv /\ TypeInv /\ Registers
  BY DEF VaultInv, RegisteredInv, AccountsInv, Registers
<1>2. AccountsInv'
  BY <1>1, AccountsStep
<1> DEFINE Kept == Registers' /\ CreditedWasPassed' /\ MoneyCovered'
<1> SUFFICES Kept
  BY <1>2 DEF VaultInv, RegisteredInv, Registers
<1>3. CASE TokenCall
  <2>1. PICK t \in Tokens : addToken(t)
    BY <1>3 DEF TokenCall
  <2>2. Registers' /\ MoneyCovered'
    BY <1>1, <2>1, AddTokenRegisters, AddTokenMoney
  <2>3. UNCHANGED <<executions, executedBlockNum, credited, addressOf>>
    BY <2>1 DEF addToken, historyVars, blockVars, accountVars
  <2>4. QED
    BY <2>2, <2>3, PassedKept
<1>4. CASE UserCall
  <2>1. PICK u \in Users, t \in Tokens, a \in Amounts :
           RegisterWithDeposit(u, t, a) \/ DepositToken(u, t, a) \/ WithdrawToken(u, t, a)
    BY <1>4 DEF UserCall
  <2>2. UNCHANGED <<executions, executedBlockNum, credited>>
    BY <2>1 DEF RegisterWithDeposit, DepositToken, WithdrawToken, historyVars, blockVars
  <2>3. CASE RegisterWithDeposit(u, t, a)
    <3>1. Registers' /\ MoneyCovered'
      BY <1>1, <2>3, RegisterRegisters, RegisterMoney
    <3>2. \A x \in AccountIds : addressOf[x] # NoAddress => addressOf'[x] = addressOf[x]
      BY <1>1, <2>3, RegisterFacts
    <3>3. QED
      BY <2>2, <3>1, <3>2, PassedKept
  <2>4. CASE DepositToken(u, t, a)
    <3>1. Registers' /\ MoneyCovered'
      BY <1>1, <2>4, DepositRegisters, DepositMoney
    <3>2. UNCHANGED addressOf
      BY <2>4 DEF DepositToken, accountVars
    <3>3. QED
      BY <2>2, <3>1, <3>2, PassedKept
  <2>5. CASE WithdrawToken(u, t, a)
    <3>1. UNCHANGED <<accountVars, tokenVars, l1RequestQueue, addressOf>>
      BY <2>5 DEF WithdrawToken, queueVars, accountVars
    <3>2. Registers'
      BY <1>1, <2>2, <3>1, RegistersKept
    <3>3. MoneyCovered'
      BY <2>5, WithdrawMoney
    <3>4. QED
      BY <2>2, <3>1, <3>2, <3>3, PassedKept
  <2>6. QED
    BY <2>1, <2>3, <2>4, <2>5
<1>5. ASSUME /\ UNCHANGED <<accountVars, tokenVars, l1RequestQueue, moneyVars>>
             /\ UNCHANGED <<executions, executedBlockNum, credited>>
             /\ UNCHANGED <<firstL1RequestId, pendingL1RequestNum>>
      PROVE  Kept
  <2>1. Registers'
    BY <1>1, <1>5, RegistersKept
  <2>2. LeftTable' = LeftTable
    BY <1>5, LeftKept DEF moneyVars
  <2>3. MoneyCovered'
    BY <1>5, <2>2, BlocksMoney DEF moneyVars
  <2>4. CreditedWasPassed'
    BY <1>5, PassedKept DEF accountVars
  <2>5. QED
    BY <2>1, <2>3, <2>4
<1>6. CASE CommitCall
  <2>1. PICK last : \E n \in Nat : \E newBlocks \in [1 .. n -> CommitBlocks] :
           commitBlocks(last, newBlocks)
    BY <1>6 DEF CommitCall
  <2>2. /\ UNCHANGED <<accountVars, tokenVars, l1RequestQueue, moneyVars>>
        /\ UNCHANGED <<executions, executedBlockNum, credited>>
        /\ UNCHANGED <<firstL1RequestId, pendingL1RequestNum>>
    BY <2>1 DEF commitBlocks
  <2>3. QED
    BY <1>5, <2>2
<1>7. CASE ProveCall
  <2>1. /\ UNCHANGED <<accountVars, tokenVars, l1RequestQueue, moneyVars>>
        /\ UNCHANGED <<executions, executedBlockNum, credited>>
        /\ UNCHANGED <<firstL1RequestId, pendingL1RequestNum>>
    BY <1>7 DEF ProveCall, proveBlocks, queueVars, historyVars
  <2>2. QED
    BY <1>5, <2>1
<1>8. CASE ExecuteCall
  <2>1. PICK call \in Seq(ExecuteBlocks) : executeBlocks(call)
    BY <1>8 DEF ExecuteCall
  <2>2. Executes(call)
    BY <1>1, <2>1, ExecuteEffect
  <2>3. UNCHANGED <<accountVars, tokenVars, l1RequestQueue, vault>>
    BY <2>2 DEF Executes
  <2>4. LeftTable' = LeftTable /\ CreditedWasPassed' /\ NoneCredited'
    BY <2>2, ExecuteLeft
  <2>5. firstL1RequestId' + pendingL1RequestNum' = firstL1RequestId + pendingL1RequestNum
    BY <1>1, <2>2, ExecuteSlots
  <2>6. MoneyCovered'
    BY <2>3, <2>4, <2>5, BlocksMoney
  <2>7. (AllIdsGiven /\ TokensNumbered)'
    BY <1>1, <2>3 DEF Registers, AllIdsGiven, TokensNumbered, accountVars, tokenVars
  <2>8. QED
    BY <2>4, <2>6, <2>7 DEF Registers
<1>9. CASE UNCHANGED vars
  <2>1. /\ UNCHANGED <<accountVars, tokenVars, l1RequestQueue, moneyVars>>
        /\ UNCHANGED <<executions, executedBlockNum, credited>>
        /\ UNCHANGED <<firstL1RequestId, pendingL1RequestNum>>
    BY <1>9 DEF vars, queueVars, historyVars, blockVars
  <2>2. QED
    BY <1>5, <2>1
<1>10. QED
  <2> HIDE DEF Kept
  <2>1. QED
    BY <1>1, <1>3, <1>4, <1>6, <1>7, <1>8, <1>9, CallsOfNext

(***************************************************************************)
(* Money.  For every set of users, tokens and amounts and any batches: the *)
(* contract's balance of a whitelisted token is never less than what was   *)
(* deposited under the token's id less what the users withdrew, and for    *)
(* WETH it is exactly that; no user withdrew more than executeBlocks       *)
(* credited him; and if every call passed its block's own withdrawals, no  *)
(* user was credited more than the executed blocks release to him.         *)
(***************************************************************************)
THEOREM VaultCorrect == Spec => []VaultAccountsForWithdrawals
<1>1. Init => VaultInv
  <2>1. Init => AccountsInv
    BY InitTypeInv, InitAccounts DEF AccountsInv
  <2>2. QED
    BY <2>1, InitRegisters, InitMoney DEF VaultInv, RegisteredInv, Registers
<1>2. VaultInv => VaultAccountsForWithdrawals
  BY VaultTables
<1>3. QED
  BY <1>1, <1>2, VaultStep, PTL DEF Spec

-----------------------------------------------------------------------------
(***************************************************************************)
(* The refinement of RequestFifo.  Made(queue, n) are the requests made    *)
(* with the first n entries of a queue; the abstract variables are Made up *)
(* to the places of the queue the contract counts, the third one as long   *)
(* as blocks are numbered in turn.                                         *)
(***************************************************************************)
FirstAt(queue, i) == i = 1 \/ queue[i - 2].opType # "REGISTER"
MadePart(queue, i) == IF FirstAt(queue, i) THEN <<queue[i - 1]>> ELSE << >>
MadeParts(queue, n) == [i \in 1 .. n |-> MadePart(queue, i)]
Made(queue, n) == Joined(MadeParts(queue, n))

\* The next entry is one more request, or the deposit of a registration.
LEMMA MadeStep ==
    ASSUME NEW e \in Nat, NEW queue \in [0 .. e - 1 -> Requests]
    PROVE  /\ \A p \in 0 .. e : Made(queue, p) \in Seq(Requests)
           /\ \A p \in 1 .. e :
                Made(queue, p) = Made(queue, p - 1) \o MadePart(queue, p)
<1>1. \A i \in 1 .. e : MadePart(queue, i) \in Seq(Requests)
  <2> SUFFICES ASSUME NEW i \in 1 .. e PROVE MadePart(queue, i) \in Seq(Requests)
    OBVIOUS
  <2>1. queue[i - 1] \in Requests
    OBVIOUS
  <2>2. <<queue[i - 1]>> \in Seq(Requests) /\ << >> \in Seq(Requests)
    BY <2>1
  <2>3. QED
    BY <2>2 DEF MadePart
<1>2. ASSUME NEW p \in 0 .. e
      PROVE  /\ MadeParts(queue, p) \in Seq(Seq(Requests))
             /\ Len(MadeParts(queue, p)) = p
             /\ \A i \in 1 .. p : MadeParts(queue, p)[i] = MadePart(queue, i)
  <2>1. p \in Nat /\ \A i \in 1 .. p : MadePart(queue, i) \in Seq(Requests)
    BY <1>1
  <2> DEFINE L == Seq(Requests)
  <2>2. \A i \in 1 .. p : MadePart(queue, i) \in L
    BY <2>1
  <2> HIDE DEF L
  <2>3. [i \in 1 .. p |-> MadePart(queue, i)] \in Seq(L)
    BY <2>1, <2>2
  <2>4. QED
    BY <2>1, <2>3 DEF MadeParts, L
<1>3. \A p \in 0 .. e : Made(queue, p) \in Seq(Requests)
  BY <1>2, JoinedType DEF Made
<1>4. ASSUME NEW p \in 1 .. e
      PROVE  Made(queue, p) = Made(queue, p - 1) \o MadePart(queue, p)
  <2> DEFINE a == MadeParts(queue, p - 1)
             b == MadeParts(queue, p)
  <2>1. p \in 0 .. e /\ p - 1 \in 0 .. e /\ p \in 1 .. p /\ (p - 1) + 1 = p
    OBVIOUS
  <2>2. a \in Seq(Seq(Requests)) /\ Len(a) = p - 1
    BY <1>2, <2>1
  <2>3. b \in Seq(Seq(Requests)) /\ Len(b) = p /\ b[p] = MadePart(queue, p)
    BY <1>2, <2>1
  <2>4. \A i \in 1 .. Len(a) : b[i] = a[i]
    <3>1. \A i \in 1 .. p - 1 : i \in 1 .. p
      OBVIOUS
    <3>2. QED
      BY <1>2, <2>1, <2>2, <3>1
  <2> HIDE DEF a, b
  <2>5. Len(b) = Len(a) + 1
    BY <2>1, <2>2, <2>3
  <2>6. Joined(b) = Joined(a) \o b[Len(b)]
    BY <2>2, <2>3, <2>4, <2>5, JoinedAppend
  <2>7. QED
    BY <2>3, <2>6 DEF Made, a, b
<1>5. QED
  BY <1>3, <1>4

Extends(s, t) == Len(s) <= Len(t) /\ \A i \in 1 .. Len(s) : t[i] = s[i]

\* Fewer entries have fewer requests, the same ones.
LEMMA MadeExtends ==
    ASSUME NEW e \in Nat, NEW queue \in [0 .. e - 1 -> Requests],
           NEW k \in 0 .. e, NEW p \in k .. e
    PROVE  Extends(Made(queue, k), Made(queue, p))
<1> DEFINE M(i) == Made(queue, i)
           Good == {i \in 0 .. e - k : Extends(M(k), M(k + i))}
<1>1. \A i \in 0 .. e : M(i) \in Seq(Requests)
  BY MadeStep
<1>2. \A i \in 1 .. e : M(i) = M(i - 1) \o MadePart(queue, i)
  BY MadeStep
<1>3. \A i \in 1 .. e : MadePart(queue, i) \in Seq(Requests)
  <2> SUFFICES ASSUME NEW i \in 1 .. e PROVE MadePart(queue, i) \in Seq(Requests)
    OBVIOUS
  <2>1. queue[i - 1] \in Requests
    OBVIOUS
  <2>2. QED
    BY <2>1 DEF MadePart
<1> HIDE DEF M
<1>4. 0 \in Good /\ e - k \in Nat
  BY <1>1 DEF Extends
<1>5. \A i \in 1 .. e - k : i - 1 \in Good => i \in Good
  <2> SUFFICES ASSUME NEW i \in 1 .. e - k, i - 1 \in Good PROVE i \in Good
    OBVIOUS
  <2>1. /\ k + i \in 1 .. e /\ (k + i) - 1 = k + (i - 1) /\ i \in 0 .. e - k
        /\ k + (i - 1) \in 0 .. e
    OBVIOUS
  <2> DEFINE s == M(k)
             t == M(k + (i - 1))
             r == MadePart(queue, k + i)
  <2>2. M(k + i) = t \o r /\ s \in Seq(Requests) /\ t \in Seq(Requests) /\ r \in Seq(Requests)
    BY <1>1, <1>2, <1>3, <2>1
  <2>3. Extends(s, t)
    BY <2>1
  <2> HIDE DEF s, t, r
  <2>4. Extends(s, t \o r)
    BY <2>2, <2>3 DEF Extends
  <2>5. QED
    BY <2>1, <2>2, <2>4 DEF s
<1> HIDE DEF Good
<1>6. \A i \in 0 .. e - k : i \in Good
  BY <1>4, <1>5, UpTo
<1>7. p - k \in Good
  BY <1>4, <1>6
<1>8. k + (p - k) = p
  OBVIOUS
<1>9. QED
  BY <1>7, <1>8 DEF Good, M

\* Entries added behind the first p change nothing about those.
LEMMA MadeSame ==
    ASSUME NEW p \in Nat, NEW queue, NEW longer,
           \A k \in 0 .. p - 1 : longer[k] = queue[k]
    PROVE  Made(longer, p) = Made(queue, p)
<1>1. ASSUME NEW i \in 1 .. p PROVE MadePart(longer, i) = MadePart(queue, i)
  <2>1. i - 1 \in 0 .. p - 1 /\ (i # 1 => i - 2 \in 0 .. p - 1)
    OBVIOUS
  <2>2. QED
    BY <2>1 DEF MadePart, FirstAt
<1>2. MadeParts(longer, p) = MadeParts(queue, p)
  BY <1>1 DEF MadeParts
<1>3. QED
  BY <1>2 DEF Made

-----------------------------------------------------------------------------
TakenPart(request) == IF IsL1(request) THEN <<request>> ELSE << >>
TakenParts(publicData) == [j \in 1 .. Len(publicData) |-> TakenPart(publicData[j])]

\* The L1 requests of a block's public data, part by part.
LEMMA TakenPartsType ==
    ASSUME NEW publicData \in Seq(Requests)
    PROVE  /\ TakenParts(publicData) \in Seq(Seq(Requests))
           /\ Len(TakenParts(publicData)) = Len(publicData)
           /\ \A j \in 1 .. Len(publicData) :
                TakenParts(publicData)[j] = TakenPart(publicData[j])
           /\ L1RequestsOf(publicData) = Joined(TakenParts(publicData))
<1> DEFINE L == Seq(Requests)
           n == Len(publicData)
<1>1. n \in Nat
  OBVIOUS
<1>2. \A j \in 1 .. n : TakenPart(publicData[j]) \in L
  <2> SUFFICES ASSUME NEW j \in 1 .. n PROVE TakenPart(publicData[j]) \in L
    OBVIOUS
  <2>1. publicData[j] \in Requests
    OBVIOUS
  <2>2. <<publicData[j]>> \in L /\ << >> \in L
    BY <2>1
  <2> HIDE DEF L
  <2>3. QED
    BY <2>2 DEF TakenPart
<1> HIDE DEF L
<1>3. [j \in 1 .. n |-> TakenPart(publicData[j])] \in Seq(L)
  BY <1>1, <1>2
<1>4. TakenParts(publicData) \in Seq(L) /\ Len(TakenParts(publicData)) = n
  BY <1>1, <1>3 DEF TakenParts
<1>5. L1RequestsOf(publicData) = Joined(TakenParts(publicData))
  BY DEF L1RequestsOf, TakenParts, TakenPart
<1>6. QED
  BY <1>4, <1>5 DEF TakenParts, L

\* Joining requests is associative.
LEMMA RequestsJoin ==
    ASSUME NEW x \in Seq(Requests), NEW y \in Seq(Requests), NEW z \in Seq(Requests)
    PROVE  (x \o y) \o z = x \o (y \o z)
BY ConcatAssociative, SMT

\* What a block collected from a clean place is made of: the requests made with
\* the entries that it consumes, one after the other.
LEMMA BlockTakes ==
    ASSUME DepositsFollow, NEW e \in Nat, l1RequestQueue \in [0 .. e - 1 -> Requests],
           NEW publicData \in Seq(Requests), NEW from \in 0 .. e,
           CollectsFromQueue(publicData, from), Clean(from)
    PROVE  Made(l1RequestQueue, from + L1RequestNum(publicData)) =
              Made(l1RequestQueue, from) \o L1RequestsOf(publicData)
<1> DEFINE n == Len(publicData)
           num == [j \in 1 .. n |-> Consumed(publicData[j])]
           A == PrefixSum(num)
           B == PrefixJoin(TakenParts(publicData))
           M(i) == Made(l1RequestQueue, i)
           Good == {j \in 0 .. n : /\ from + A[j] \in 0 .. e
                                   /\ Clean(from + A[j])
                                   /\ M(from + A[j]) = M(from) \o B[j]}
<1>1. n \in Nat /\ DOMAIN publicData = 1 .. n
  OBVIOUS
<1>2. \A r : Consumed(r) \in Nat
  BY DEF Consumed
<1>3. num \in Seq(Nat) /\ Len(num) = n /\ \A j \in 1 .. n : num[j] = Consumed(publicData[j])
  BY <1>1, <1>2
<1>4. ConsumedBefore(publicData) = A /\ L1RequestNum(publicData) = A[n]
  BY DEF ConsumedBefore, L1RequestNum
<1>5. \A j \in 1 .. n :
        publicData[j].opType \in {"REGISTER", "DEPOSIT"} =>
            /\ from + A[j - 1] \in DOMAIN l1RequestQueue
            /\ l1RequestQueue[from + A[j - 1]] = publicData[j]
  BY <1>1, <1>4 DEF CollectsFromQueue
<1> HIDE DEF num
<1>6. A \in [0 .. n -> Nat] /\ A[0] = 0 /\ \A j \in 1 .. n : A[j] = A[j - 1] + num[j]
  BY <1>3, PrefixSumStep
<1>7. /\ B \in [0 .. n -> Seq(Requests)] /\ B[0] = << >>
      /\ \A j \in 1 .. n : B[j] = B[j - 1] \o TakenPart(publicData[j])
  <2>1. /\ TakenParts(publicData) \in Seq(Seq(Requests)) /\ Len(TakenParts(publicData)) = n
        /\ \A j \in 1 .. n : TakenParts(publicData)[j] = TakenPart(publicData[j])
    BY TakenPartsType
  <2>2. /\ B \in [0 .. n -> Seq(Requests)] /\ B[0] = << >>
        /\ \A j \in 1 .. n : B[j] = B[j - 1] \o TakenParts(publicData)[j]
    BY <2>1, PrefixJoinStep
  <2>3. QED
    BY <2>1, <2>2
<1>8. L1RequestsOf(publicData) = B[n]
  BY TakenPartsType DEF Joined
<1>9. /\ \A p \in 0 .. e : M(p) \in Seq(Requests)
      /\ \A p \in 1 .. e : M(p) = M(p - 1) \o MadePart(l1RequestQueue, p)
  BY MadeStep
<1>10. DOMAIN l1RequestQueue = 0 .. e - 1 /\ \A k \in 0 .. e - 1 : l1RequestQueue[k] \in Requests
  OBVIOUS
<1>11. \A j \in 1 .. n : publicData[j] \in Requests
  OBVIOUS
<1> HIDE DEF A, B, n, M
<1>12. 0 \in Good
  <2>1. from + 0 = from /\ from \in Nat
    OBVIOUS
  <2>2. M(from) \o << >> = M(from)
    <3>1. M(from) \in Seq(Requests)
      BY <1>9
    <3>2. QED
      BY <3>1
  <2>3. from + A[0] = from /\ 0 \in 0 .. n
    BY <1>1, <1>6, <2>1
  <2>4. M(from + A[0]) = M(from) \o B[0]
    BY <1>7, <2>2, <2>3
  <2>5. QED
    BY <2>3, <2>4
<1>13. \A j \in 1 .. n : j - 1 \in Good => j \in Good
  <2> SUFFICES ASSUME NEW j \in 1 .. n, j - 1 \in Good PROVE j \in Good
    OBVIOUS
  <2> DEFINE p == from + A[j - 1]
             q == from + A[j]
             r == publicData[j]
  <2>1. j \in 0 .. n /\ j - 1 \in 0 .. n
    BY <1>1
  <2>2. A[j - 1] \in Nat /\ A[j] = A[j - 1] + Consumed(publicData[j])
    BY <1>3, <1>6, <2>1
  <2>3. /\ p \in 0 .. e /\ q = p + Consumed(r) /\ Clean(p)
        /\ M(p) = M(from) \o B[j - 1]
    <3>1. p \in 0 .. e /\ Clean(p) /\ M(p) = M(from) \o B[j - 1]
      OBVIOUS
    <3>2. Consumed(r) \in Nat /\ from \in Nat
      BY <1>2
    <3> HIDE DEF r
    <3>3. q = p + Consumed(r)
      BY <2>2, <3>2 DEF r
    <3>4. QED
      BY <3>1, <3>3
  <2>4. /\ r.opType \in {"REGISTER", "DEPOSIT"} =>
                p \in DOMAIN l1RequestQueue /\ l1RequestQueue[p] = r
        /\ r \in Requests
    BY <1>5, <1>11
  <2>5. B[j] = B[j - 1] \o TakenPart(r) /\ B[j - 1] \in Seq(Requests) /\ M(from) \in Seq(Requests)
    BY <1>7, <1>9, <2>1
  <2> SUFFICES q \in 0 .. e /\ Clean(q) /\ M(q) = M(from) \o B[j]
    BY <2>1
  <2> HIDE DEF p, q, r
  <2>6. ASSUME p \in DOMAIN l1RequestQueue, l1RequestQueue[p] = r
        PROVE  p + 1 \in 1 .. e /\ M(p + 1) = M(p) \o <<r>>
    <3>1. p + 1 \in 1 .. e /\ (p + 1) - 1 = p /\ (p + 1) - 2 = p - 1 /\ (p + 1 # 1 => p > 0)
      BY <1>10, <2>3, <2>6
    <3>2. MadePart(l1RequestQueue, p + 1) = <<r>>
      BY <2>3, <2>6, <3>1 DEF MadePart, FirstAt, Clean
    <3>3. QED
      BY <1>9, <3>1, <3>2
  <2>7. M(p) \o <<r>> = M(from) \o (B[j - 1] \o <<r>>)
    <3>1. <<r>> \in Seq(Requests)
      BY <2>4
    <3> DEFINE x == M(from)
               y == B[j - 1]
               z == <<r>>
    <3>2. x \in Seq(Requests) /\ y \in Seq(Requests) /\ z \in Seq(Requests) /\ M(p) = x \o y
      BY <2>3, <2>5, <3>1
    <3> HIDE DEF x, y, z, Good
    <3>3. (x \o y) \o z = x \o (y \o z)
      BY <3>2, RequestsJoin, Zenon
    <3>4. QED
      BY <3>2, <3>3 DEF x, y, z
  <2>8. CASE r.opType = "REGISTER"
    <3>1. p \in DOMAIN l1RequestQueue /\ l1RequestQueue[p] = r
      BY <2>4, <2>8
    <3>2. p + 1 \in DOMAIN l1RequestQueue /\ l1RequestQueue[p + 1].opType = "DEPOSIT"
      BY <2>8, <3>1 DEF DepositsFollow
    <3>3. q = p + 2 /\ q - 1 = p + 1 /\ q - 2 = p /\ q \in 1 .. e /\ q # 1
      BY <1>10, <2>3, <2>8, <3>2, SMTT(30) DEF Consumed
    <3>4. Clean(q)
      BY <3>2, <3>3 DEF Clean
    <3>5. MadePart(l1RequestQueue, q) = << >>
      BY <2>8, <3>1, <3>3 DEF MadePart, FirstAt
    <3>6. M(q) = M(q - 1) \o << >> /\ M(q - 1) \in Seq(Requests)
      <4>1. q \in 1 .. e /\ q - 1 \in 0 .. e
        BY <3>3
      <4>2. QED
        BY <1>9, <3>5, <4>1
    <3>7. M(q) = M(p + 1)
      <4>1. M(q) = M(q - 1)
        BY <3>6
      <4>2. QED
        BY <3>3, <4>1
    <3>8. TakenPart(r) = <<r>>
      BY <2>8 DEF TakenPart, IsL1
    <3>9. M(q) = M(from) \o B[j]
      BY <2>5, <2>6, <2>7, <3>1, <3>7, <3>8
    <3>10. q \in 0 .. e
      BY <3>3
    <3>11. QED
      BY <3>4, <3>9, <3>10
  <2>9. CASE r.opType = "DEPOSIT"
    <3>1. p \in DOMAIN l1RequestQueue /\ l1RequestQueue[p] = r
      BY <2>4, <2>9
    <3>2. q = p + 1 /\ q - 1 = p
      BY <2>3, <2>9 DEF Consumed
    <3>3. Clean(q)
      BY <2>9, <3>1, <3>2 DEF Clean
    <3>4. TakenPart(r) = <<r>>
      BY <2>9 DEF TakenPart, IsL1
    <3>5. q \in 0 .. e
      BY <2>6, <3>1, <3>2
    <3>6. QED
      BY <2>5, <2>6, <2>7, <3>1, <3>2, <3>3, <3>4, <3>5
  <2>10. CASE r.opType \notin {"REGISTER", "DEPOSIT"}
    <3>1. q = p
      BY <2>3, <2>10 DEF Consumed
    <3>2. TakenPart(r) = << >>
      BY <2>10 DEF TakenPart, IsL1
    <3>3. B[j] = B[j - 1]
      BY <2>5, <3>2
    <3>4. QED
      BY <2>3, <3>1, <3>3
  <2>11. QED
    BY <2>8, <2>9, <2>10
<1> HIDE DEF Good
<1>14. n \in Good
  <2>1. \A j \in 0 .. n : j \in Good
    BY <1>1, <1>12, <1>13, UpTo
  <2>2. n \in 0 .. n
    BY <1>1
  <2>3. QED
    BY <2>1, <2>2
<1>15. QED
  BY <1>4, <1>8, <1>14 DEF Good, M

-----------------------------------------------------------------------------
(***************************************************************************)
(* What the refinement needs besides the order of the queue: a stored      *)
(* block counts the L1 requests of its own public data.                    *)
(***************************************************************************)
BlocksCounted ==
    \A n \in 1 .. committedBlockNum :
        commits[n].l1RequestNum =
            L1RequestNum(commits[n].requests)

FifoInv == OrderInv /\ BlocksCounted

\* The requests that the first n blocks took are those made with the entries
\* before the place where block n ends.
LEMMA BlocksTake ==
    ASSUME FifoInv
    PROVE  \A n \in 0 .. committedBlockNum :
              RequestsIn(n) = Made(l1RequestQueue, L1RequestsThrough(n))
<1> DEFINE c == committedBlockNum
           e == firstL1RequestId + pendingL1RequestNum
           T(n) == L1RequestsThrough(n)
           pd(n) == commits[n].requests
           parts(n) == [m \in 1 .. n |-> L1RequestsOf(pd(m))]
           Good == {n \in 0 .. c : RequestsIn(n) = Made(l1RequestQueue, T(n))}
<1>1. OrderInv /\ CountersInv /\ TypeInv /\ c \in Nat /\ e \in Nat
      /\ l1RequestQueue \in [0 .. e - 1 -> Requests]
  <2>1. OrderInv /\ CountersInv /\ TypeInv
    BY DEF FifoInv, OrderInv, CountersInv
  <2>2. /\ firstL1RequestId \in Nat /\ pendingL1RequestNum \in Nat
        /\ committedBlockNum \in 0 .. MaxBlockNum
        /\ l1RequestQueue \in
             [0 .. (firstL1RequestId + pendingL1RequestNum) - 1 -> Requests]
    BY <2>1 DEF TypeInv, TypeOK
  <2>3. c \in Nat
    BY <2>2
  <2>4. e \in Nat /\ l1RequestQueue \in [0 .. e - 1 -> Requests]
    BY <2>2
  <2>5. QED
    BY <2>1, <2>3, <2>4
<1>2. ASSUME NEW n \in 1 .. c
      PROVE  pd(n) \in Seq(Requests) /\ L1RequestsOf(pd(n)) \in Seq(Requests)
  <2>1. commits[n] \in StoredBlocks
    BY <1>1 DEF TypeInv, TypeOK
  <2>2. pd(n) \in Seq(Requests)
    BY <2>1 DEF StoredBlocks
  <2> HIDE DEF pd
  <2>3. QED
    BY <2>2, TakenPartsType, JoinedType
<1>3. \A n \in 0 .. c : RequestsIn(n) = Joined(parts(n))
  BY DEF RequestsIn
<1>4. ASSUME NEW n \in 0 .. c
      PROVE  /\ parts(n) \in Seq(Seq(Requests)) /\ Len(parts(n)) = n
             /\ \A m \in 1 .. n : parts(n)[m] = L1RequestsOf(pd(m))
  <2> DEFINE L == Seq(Requests)
  <2>1. n \in Nat /\ \A m \in 1 .. n : m \in 1 .. c
    BY <1>1
  <2>2. \A m \in 1 .. n : L1RequestsOf(pd(m)) \in L
    BY <1>2, <2>1
  <2> HIDE DEF L, pd
  <2>3. [m \in 1 .. n |-> L1RequestsOf(pd(m))] \in Seq(L)
    BY <2>1, <2>2
  <2>4. QED
    BY <2>1, <2>3 DEF L
<1>5. /\ T(0) = 0
      /\ \A n \in 0 .. c : T(n) \in Nat /\ T(n) <= e
      /\ \A n \in 1 .. c : T(n) = T(n - 1) + L1RequestNum(pd(n))
  <2>1. \A n : T(n) = Through(commits, n)
    BY DEF L1RequestsThrough, Through
  <2>2. /\ \A m \in 1 .. c : commits[m].l1RequestNum \in Nat
        /\ \A n \in 0 .. c : T(n) \in Nat /\ T(n) <= e
    BY <1>1, EndsInQueue
  <2>3. /\ Through(commits, 0) = 0
        /\ \A n \in 1 .. c :
              Through(commits, n) =
                 Through(commits, n - 1) + commits[n].l1RequestNum
    BY <1>1, <2>2, ThroughStep
  <2>4. \A n \in 1 .. c : commits[n].l1RequestNum = L1RequestNum(pd(n))
    BY DEF FifoInv, BlocksCounted
  <2> HIDE DEF T, pd
  <2>5. QED
    BY <2>1, <2>2, <2>3, <2>4
<1>6. \A n \in 1 .. c : CollectsFromQueue(pd(n), T(n - 1))
  BY <1>1 DEF OrderInv, CommittedInQueueOrder
<1>7. DepositsFollow /\ \A n \in 0 .. c : Clean(T(n))
  <2>1. DepositsFollow /\ \A n \in 1 .. c : Clean(T(n))
    BY <1>1, OrderFacts
  <2>2. Clean(T(0))
    BY <1>5 DEF Clean
  <2>3. QED
    BY <1>1, <2>1, <2>2
<1> HIDE DEF c, e, T, pd, parts
<1>8. 0 \in Good
  <2>1. 0 \in 0 .. c
    BY <1>1
  <2>2. RequestsIn(0) = << >>
    BY <1>3, <1>4, <2>1, JoinedType
  <2>3. MadeParts(l1RequestQueue, 0) = << >>
    BY DEF MadeParts
  <2>4. << >> \in Seq(Seq(Requests)) /\ Len(<< >>) = 0
    OBVIOUS
  <2>5. Made(l1RequestQueue, 0) = << >>
    BY <2>3, <2>4, JoinedType DEF Made
  <2>6. QED
    BY <1>5, <2>1, <2>2, <2>5
<1>9. \A n \in 1 .. c : n - 1 \in Good => n \in Good
  <2> SUFFICES ASSUME NEW n \in 1 .. c, n - 1 \in Good PROVE n \in Good
    OBVIOUS
  <2>1. /\ n \in 0 .. c /\ n - 1 \in 0 .. c /\ n \in 1 .. n /\ n = (n - 1) + 1
        /\ \A m \in 1 .. n - 1 : m \in 1 .. n
    BY <1>1
  <2> DEFINE a == parts(n - 1)
             b == parts(n)
  <2>2. a \in Seq(Seq(Requests)) /\ Len(a) = n - 1
    BY <1>4, <2>1
  <2>3. b \in Seq(Seq(Requests)) /\ Len(b) = n /\ b[n] = L1RequestsOf(pd(n))
    BY <1>4, <2>1
  <2>4. \A m \in 1 .. Len(a) : b[m] = a[m]
    BY <1>4, <2>1, <2>2
  <2>5. RequestsIn(n) = Joined(b) /\ RequestsIn(n - 1) = Joined(a)
    BY <1>3, <2>1
  <2> HIDE DEF a, b
  <2>6. Joined(b) = Joined(a) \o b[Len(b)]
    BY <2>1, <2>2, <2>3, <2>4, JoinedAppend
  <2>7. RequestsIn(n) = RequestsIn(n - 1) \o L1RequestsOf(pd(n))
    BY <2>3, <2>5, <2>6
  <2>8. T(n - 1) \in 0 .. e
    BY <1>1, <1>5, <2>1
  <2>9. Made(l1RequestQueue, T(n - 1) + L1RequestNum(pd(n))) =
           Made(l1RequestQueue, T(n - 1)) \o L1RequestsOf(pd(n))
    BY <1>1, <1>2, <1>6, <1>7, <2>1, <2>8, BlockTakes
  <2>10. RequestsIn(n - 1) = Made(l1RequestQueue, T(n - 1))
    OBVIOUS
  <2>11. RequestsIn(n) = Made(l1RequestQueue, T(n))
    BY <1>5, <2>7, <2>9, <2>10
  <2>12. QED
    BY <2>1, <2>11
<1> HIDE DEF Good
<1>10. \A n \in 0 .. c : n \in Good
  BY <1>1, <1>8, <1>9, UpTo
<1>11. QED
  BY <1>10 DEF Good, c, T

\* The abstract variables at the places of the queue.
Places ==
    /\ firstL1RequestId \in Nat /\ firstL1RequestId + pendingL1RequestNum \in Nat
    /\ firstL1RequestId + committedL1RequestNum
          \in firstL1RequestId .. firstL1RequestId + pendingL1RequestNum
    /\ l1RequestQueue \in [0 .. (firstL1RequestId + pendingL1RequestNum) - 1 -> Requests]
    /\ RequestsMade(NextL1RequestId) =
          Made(l1RequestQueue, firstL1RequestId + pendingL1RequestNum)
    /\ RequestsIn(committedBlockNum) =
          Made(l1RequestQueue, firstL1RequestId + committedL1RequestNum)
    /\ Numbered =>
          RequestsExecuted(executedBlockNum) = Made(l1RequestQueue, firstL1RequestId)

\* The places of the queue, in order and within it.
LEMMA PlacesHold == FifoInv => Places
<1> SUFFICES ASSUME FifoInv PROVE Places
  OBVIOUS
<1> DEFINE next == firstL1RequestId + pendingL1RequestNum
<1>1. /\ firstL1RequestId \in Nat /\ committedL1RequestNum \in Nat /\ pendingL1RequestNum \in Nat
      /\ committedBlockNum \in Nat /\ executedBlockNum \in Nat /\ provedBlockNum \in Nat
      /\ l1RequestQueue \in [0 .. next - 1 -> Requests]
      /\ CountersInv
  BY DEF FifoInv, OrderInv, CountersInv, TypeInv, TypeOK
<1>2. /\ executedBlockNum <= provedBlockNum /\ provedBlockNum <= committedBlockNum
      /\ committedL1RequestNum <= pendingL1RequestNum
      /\ Numbered => firstL1RequestId = L1RequestsThrough(executedBlockNum)
      /\ firstL1RequestId + committedL1RequestNum = L1RequestsThrough(committedBlockNum)
  BY <1>1, CountersMeet DEF CountersAgree
<1>3. executedBlockNum \in 0 .. committedBlockNum /\ committedBlockNum \in 0 .. committedBlockNum
  BY <1>1, <1>2
<1>4. RequestsMade(NextL1RequestId) = Made(l1RequestQueue, next)
  BY DEF RequestsMade, Made, MadeParts, MadePart, FirstOfCall, FirstAt, NextL1RequestId
<1>5. /\ RequestsIn(committedBlockNum) = Made(l1RequestQueue, L1RequestsThrough(committedBlockNum))
      /\ RequestsIn(executedBlockNum) = Made(l1RequestQueue, L1RequestsThrough(executedBlockNum))
  BY <1>3, BlocksTake
<1>6. firstL1RequestId + committedL1RequestNum \in firstL1RequestId .. next /\ next \in Nat
  BY <1>1, <1>2
<1>7. Numbered => RequestsExecuted(executedBlockNum) = RequestsIn(executedBlockNum)
  <2>1. Numbered =>
           \A n \in 1 .. executedBlockNum : executions[n].storedBlock = commits[n]
    BY <1>1 DEF CountersInv, ExecutedInTurn
  <2>2. QED
    BY <2>1 DEF RequestsExecuted, RequestsIn
<1>8. QED
  BY <1>1, <1>2, <1>4, <1>5, <1>6, <1>7 DEF Places

LEMMA InitCounted == Init => BlocksCounted
BY DEF Init, BlocksCounted

\* Every call keeps FifoInv.
LEMMA CountedStep == FifoInv /\ [Next]_vars => FifoInv'
<1> SUFFICES ASSUME FifoInv, [Next]_vars PROVE FifoInv'
  OBVIOUS
<1>1. OrderInv' /\ TypeInv
  BY OrderStep DEF FifoInv, OrderInv, CountersInv
<1> SUFFICES BlocksCounted'
  BY <1>1 DEF FifoInv
<1>2. ASSUME UNCHANGED <<commits, committedBlockNum>> PROVE BlocksCounted'
  BY <1>2 DEF FifoInv, BlocksCounted
<1>3. ASSUME NEW last, NEW n \in Nat, NEW newBlocks \in [1 .. n -> CommitBlocks],
             commitBlocks(last, newBlocks)
      PROVE  BlocksCounted'
  <2> DEFINE c == committedBlockNum
  <2>1. TypeInv /\ c \in Nat
    BY DEF FifoInv, OrderInv, CountersInv, TypeInv, TypeOK
  <2>2. /\ committedBlockNum' = c + n
        /\ \A k \in 0 .. c : commits'[k] = commits[k]
        /\ \A i \in 1 .. n : commits'[c + i] = NewBlock(last, newBlocks, i)
    <3>1. CommitStored(last, n, newBlocks)
      BY <1>3, <2>1, CommitStores
    <3>2. QED
      BY <3>1 DEF CommitStored
  <2>3. \A i : NewBlock(last, newBlocks, i).l1RequestNum =
                  L1RequestNum(NewBlock(last, newBlocks, i).requests)
    BY DEF NewBlock
  <2>4. \A k \in 1 .. c : commits[k].l1RequestNum =
                             L1RequestNum(commits[k].requests)
    BY DEF FifoInv, BlocksCounted
  <2> HIDE DEF c
  <2>5. ASSUME NEW k \in 1 .. c + n
        PROVE  commits'[k].l1RequestNum =
                  L1RequestNum(commits'[k].requests)
    <3>1. CASE k <= c
      <4>1. k \in 1 .. c /\ k \in 0 .. c
        BY <2>1, <3>1
      <4>2. QED
        BY <2>2, <2>4, <4>1
    <3>2. CASE k > c
      <4>1. k - c \in 1 .. n /\ c + (k - c) = k
        BY <2>1, <3>2
      <4>2. commits'[k] = NewBlock(last, newBlocks, k - c)
        BY <2>2, <4>1
      <4>3. QED
        BY <2>3, <4>2
    <3>3. QED
      BY <2>1, <3>1, <3>2
  <2>6. QED
    BY <2>2, <2>5 DEF BlocksCounted
<1>4. CASE UNCHANGED <<blockVars, historyVars, firstL1RequestId, committedL1RequestNum>>
  BY <1>2, <1>4 DEF blockVars, historyVars
<1>5. CASE ProveCall \/ ExecuteCall
  <2>1. UNCHANGED <<commits, committedBlockNum>>
    BY <1>5 DEF ProveCall, ExecuteCall, proveBlocks, executeBlocks, historyVars
  <2>2. QED
    BY <1>2, <2>1
<1>6. CASE CommitCall
  BY <1>3, <1>6 DEF CommitCall
<1>7. QED
  BY <1>1, <1>4, <1>5, <1>6, BlockCallsOfNext

-----------------------------------------------------------------------------
\* The abstract steps, from where the places of the queue move.
LEMMA PrefixOf ==
    ASSUME NEW s \in Seq(Requests), NEW t \in Seq(Requests), Extends(s, t)
    PROVE  Fifo!IsPrefix(s, t)
<1>1. /\ SubSeq(s, 1, Len(s)) = s
      /\ Len(SubSeq(t, 1, Len(s))) = Len(s)
      /\ SubSeq(t, 1, Len(s)) \in Seq(Requests)
      /\ \A i \in 1 .. Len(s) : SubSeq(t, 1, Len(s))[i] = t[i]
  BY DEF Extends
<1>2. SubSeq(t, 1, Len(s)) = s
  BY <1>1 DEF Extends
<1>3. QED
  BY <1>1, <1>2 DEF Fifo!IsPrefix, Extends

\* Requests added by one call are one request.
LEMMA AddedIsRequest ==
    ASSUME FifoInv, FifoInv', NEW requests \in Seq(Requests), AddL1Requests(requests),
           UNCHANGED <<blockVars, historyVars>>,
           \/ Len(requests) = 1
           \/ Len(requests) = 2 /\ requests[1].opType = "REGISTER"
    PROVE  Fifo!Request
<1> DEFINE e == firstL1RequestId + pendingL1RequestNum
           queue == l1RequestQueue'
           M == Made(l1RequestQueue, e)
<1>1. Places /\ Places'
  BY PlacesHold, PTL
<1>2. TypeInv /\ DepositsFollow
  BY OrderFacts DEF FifoInv, OrderInv, CountersInv
<1>3. Len(requests) \in Nat /\ e \in Nat /\ DOMAIN l1RequestQueue = 0 .. e - 1
  BY <1>1 DEF Places
<1>4. /\ \A k \in 0 .. e - 1 : queue[k] = l1RequestQueue[k]
      /\ \A k \in e .. e + Len(requests) - 1 : queue[k] = requests[k - e + 1]
  BY <1>2, AddedEntries
<1>5. queue[e] = requests[1]
  <2>1. e \in Nat /\ Len(requests) \in {1, 2}
    BY <1>3
  <2> HIDE DEF e
  <2>2. e \in e .. e + Len(requests) - 1 /\ e - e + 1 = 1
    BY <2>1
  <2> HIDE DEF queue
  <2>3. QED
    BY <1>4, <2>2
<1>6. (firstL1RequestId + pendingL1RequestNum)' = e + Len(requests)
  <2>1. firstL1RequestId \in Nat /\ pendingL1RequestNum \in Nat
    BY <1>2 DEF TypeInv, TypeOK
  <2>2. /\ firstL1RequestId' = firstL1RequestId
        /\ pendingL1RequestNum' = pendingL1RequestNum + Len(requests)
    BY DEF AddL1Requests
  <2>3. QED
    BY <1>3, <2>1, <2>2
<1>7. /\ RequestsMade(NextL1RequestId) = M
      /\ RequestsMade(NextL1RequestId)' = Made(queue, e + Len(requests))
      /\ queue \in [0 .. (e + Len(requests)) - 1 -> Requests]
  BY <1>1, <1>6 DEF Places
<1>8. Made(queue, e) = M
  BY <1>3, <1>4, MadeSame
<1>9. Clean(e)
  <2> SUFFICES ASSUME e > 0, l1RequestQueue[e - 1].opType = "REGISTER" PROVE FALSE
    BY DEF Clean
  <2>1. e - 1 \in DOMAIN l1RequestQueue
    BY <1>3
  <2>2. (e - 1) + 1 \in DOMAIN l1RequestQueue
    BY <1>2, <2>1 DEF DepositsFollow
  <2>3. QED
    BY <1>3, <2>2
<1> HIDE DEF e, queue, M
<1>10. MadePart(queue, e + 1) = <<requests[1]>>
  <2>1. (e + 1) - 1 = e /\ (e + 1) - 2 = e - 1 /\ (e + 1 # 1 => e > 0 /\ e - 1 \in 0 .. e - 1)
    BY <1>3
  <2>2. FirstAt(queue, e + 1)
    BY <1>4, <1>9, <2>1 DEF FirstAt, Clean
  <2>3. QED
    BY <1>5, <2>1, <2>2 DEF MadePart
<1>11. /\ \A p \in 0 .. e + Len(requests) : Made(queue, p) \in Seq(Requests)
       /\ \A p \in 1 .. e + Len(requests) :
             Made(queue, p) = Made(queue, p - 1) \o MadePart(queue, p)
  <2>1. e + Len(requests) \in Nat
    BY <1>3
  <2>2. QED
    BY <1>7, <2>1, MadeStep
<1>12. Made(queue, e + 1) = M \o <<requests[1]>> /\ M \in Seq(Requests)
  <2> DEFINE len == Len(requests)
  <2>3. len \in Nat /\ len >= 1 /\ e \in Nat
    BY <1>3, SMTT(30)
  <2> HIDE DEF len
  <2>1. e + 1 \in 1 .. e + len /\ (e + 1) - 1 = e /\ e \in 0 .. e + len
    BY <2>3
  <2>2. QED
    BY <1>8, <1>10, <1>11, <2>1 DEF len
<1>13. Made(queue, e + Len(requests)) = M \o <<requests[1]>>
  <2>1. CASE Len(requests) = 1
    BY <1>12, <2>1
  <2>2. CASE Len(requests) = 2 /\ requests[1].opType = "REGISTER"
    <3>1. /\ e + 2 \in 1 .. e + Len(requests) /\ (e + 2) - 1 = e + 1 /\ (e + 2) - 2 = e
          /\ e + 2 # 1 /\ e + 1 \in 0 .. e + Len(requests) /\ e + Len(requests) = e + 2
      BY <1>3, <2>2
    <3>2. MadePart(queue, e + 2) = << >>
      BY <1>5, <2>2, <3>1 DEF MadePart, FirstAt
    <3>3. Made(queue, e + 2) = Made(queue, e + 1) \o << >> /\ Made(queue, e + 1) \in Seq(Requests)
      BY <1>11, <3>1, <3>2
    <3>4. Made(queue, e + 2) = Made(queue, e + 1)
      BY <3>3
    <3>5. QED
      BY <1>12, <3>1, <3>4
  <2>3. QED
    BY <2>1, <2>2
<1>14. requests[1] \in Requests
  OBVIOUS
<1> DEFINE more == M \o <<requests[1]>>
<1>15. /\ more \in Seq(Requests) /\ Len(more) = Len(M) + 1
       /\ Extends(M, more) /\ M # more
  <2>1. <<requests[1]>> \in Seq(Requests) /\ Len(<<requests[1]>>) = 1
    BY <1>14
  <2>2. more \in Seq(Requests) /\ Len(more) = Len(M) + 1 /\ \A i \in 1 .. Len(M) : more[i] = M[i]
    BY <1>12, <2>1
  <2>3. Len(M) \in Nat
    BY <1>12
  <2> HIDE DEF more
  <2>4. QED
    BY <2>2, <2>3 DEF Extends
<1> HIDE DEF more
<1>16. Fifo!IsPrefix(M, more)
  BY <1>12, <1>15, PrefixOf
<1>17. RequestsMade(NextL1RequestId)' = more
  BY <1>7, <1>13 DEF more
<1>18. /\ RequestsIn(committedBlockNum)' = RequestsIn(committedBlockNum)
       /\ RequestsExecuted(executedBlockNum)' = RequestsExecuted(executedBlockNum)
  BY DEF RequestsIn, RequestsExecuted, blockVars, historyVars
<1>19. QED
  BY <1>7, <1>15, <1>16, <1>17, <1>18 DEF Fifo!Request, Fifo!IsStrictPrefix

\* Blocks committed take the next requests, if any.
LEMMA CommittedIsDeliver ==
    ASSUME FifoInv, FifoInv', firstL1RequestId' = firstL1RequestId,
           pendingL1RequestNum' = pendingL1RequestNum,
           committedL1RequestNum' >= committedL1RequestNum,
           UNCHANGED <<l1RequestQueue, executions, executedBlockNum>>
    PROVE  [Fifo!Next]_(Fifo!vars)
<1> DEFINE first == firstL1RequestId
           committed == firstL1RequestId + committedL1RequestNum
           after == firstL1RequestId + committedL1RequestNum'
           next == firstL1RequestId + pendingL1RequestNum
           M(n) == Made(l1RequestQueue, n)
<1>1. Places /\ Places'
  BY PlacesHold, PTL
<1>2. /\ committedL1RequestNum \in Nat /\ committedL1RequestNum' \in Nat /\ first \in Nat
  BY <1>1 DEF FifoInv, OrderInv, CountersInv, TypeInv, TypeOK
<1>3. /\ committed \in 0 .. next /\ after \in committed .. next /\ after \in 0 .. next
      /\ next \in Nat /\ next \in 0 .. next /\ next \in after .. next
      /\ l1RequestQueue \in [0 .. next - 1 -> Requests]
  <2>1. committed \in first .. next /\ after \in first .. next /\ next \in Nat
    BY <1>1 DEF Places
  <2>2. committed <= after
    <3>1. \A x, y, z \in Nat : y <= z => x + y <= x + z
      OBVIOUS
    <3>2. committedL1RequestNum <= committedL1RequestNum'
      BY <1>2
    <3>3. QED
      BY <1>2, <3>1, <3>2
  <2>3. l1RequestQueue \in [0 .. next - 1 -> Requests]
    BY <1>1 DEF Places
  <2> HIDE DEF first, committed, after, next
  <2>4. QED
    BY <1>2, <2>1, <2>2, <2>3
<1>4. /\ RequestsMade(NextL1RequestId) = M(next) /\ RequestsMade(NextL1RequestId)' = M(next)
      /\ RequestsIn(committedBlockNum) = M(committed)
      /\ RequestsIn(committedBlockNum)' = M(after)
      /\ RequestsExecuted(executedBlockNum)' = RequestsExecuted(executedBlockNum)
  BY <1>1 DEF Places, RequestsExecuted
<1> HIDE DEF first, committed, after, next
<1>5. Extends(M(committed), M(after)) /\ Extends(M(after), M(next))
  BY <1>3, MadeExtends
<1>6. M(committed) \in Seq(Requests) /\ M(after) \in Seq(Requests) /\ M(next) \in Seq(Requests)
  BY <1>3, MadeStep
<1> HIDE DEF M
<1>7. Fifo!IsPrefix(M(committed), M(after)) /\ Fifo!IsPrefix(M(after), M(next))
  BY <1>5, <1>6, PrefixOf
<1>8. CASE M(committed) = M(after)
  BY <1>4, <1>8 DEF Fifo!vars
<1>9. CASE M(committed) # M(after)
  BY <1>4, <1>7, <1>9 DEF Fifo!Next, Fifo!Deliver, Fifo!IsStrictPrefix
<1>10. QED
  BY <1>8, <1>9

\* Blocks executed settle the requests they took, if any; those are the oldest
\* ones if the blocks were numbered in turn.
LEMMA ExecutedIsSettle ==
    ASSUME FifoInv, FifoInv', firstL1RequestId' >= firstL1RequestId,
           firstL1RequestId' + pendingL1RequestNum' = firstL1RequestId + pendingL1RequestNum,
           firstL1RequestId' + committedL1RequestNum' =
              firstL1RequestId + committedL1RequestNum,
           UNCHANGED <<l1RequestQueue, commits, committedBlockNum>>
    PROVE  [Fifo!Next \/ SettleOutOfTurn]_(Fifo!vars)
<1> DEFINE first == firstL1RequestId
           after == firstL1RequestId'
           committed == firstL1RequestId + committedL1RequestNum
           next == firstL1RequestId + pendingL1RequestNum
           M(n) == Made(l1RequestQueue, n)
<1>1. Places /\ Places'
  BY PlacesHold, PTL
<1>2. /\ first \in Nat /\ after \in Nat /\ next \in Nat
      /\ l1RequestQueue \in [0 .. next - 1 -> Requests]
      /\ committed \in after .. next
  BY <1>1 DEF Places
<1>3. /\ RequestsMade(NextL1RequestId) = M(next) /\ RequestsMade(NextL1RequestId)' = M(next)
      /\ RequestsIn(committedBlockNum) = M(committed)
      /\ RequestsIn(committedBlockNum)' = M(committed)
  BY <1>1 DEF Places
<1>4. CASE ~ Numbered
  BY <1>3, <1>4 DEF SettleOutOfTurn
<1>5. CASE Numbered
  <2>1. Numbered'
    BY <1>5 DEF Numbered
  <2>2. /\ RequestsExecuted(executedBlockNum) = M(first)
        /\ RequestsExecuted(executedBlockNum)' = M(after)
    BY <1>1, <1>5, <2>1 DEF Places
  <2>3. first <= after
    OBVIOUS
  <2> HIDE DEF first, committed, after, next
  <2>4. /\ first \in 0 .. next /\ after \in first .. next /\ after \in 0 .. next
        /\ committed \in after .. next /\ committed \in 0 .. next
    BY <1>2, <2>3
  <2>5. Extends(M(first), M(after)) /\ Extends(M(after), M(committed))
    BY <1>2, <2>4, MadeExtends
  <2>6. M(first) \in Seq(Requests) /\ M(after) \in Seq(Requests) /\ M(committed) \in Seq(Requests)
    BY <1>2, <2>4, MadeStep
  <2> HIDE DEF M
  <2>7. Fifo!IsPrefix(M(first), M(after)) /\ Fifo!IsPrefix(M(after), M(committed))
    BY <2>5, <2>6, PrefixOf
  <2>8. CASE M(first) = M(after)
    BY <1>3, <2>2, <2>8 DEF Fifo!vars
  <2>9. CASE M(first) # M(after)
    BY <1>3, <2>2, <2>7, <2>9 DEF Fifo!Next, Fifo!Settle, Fifo!IsStrictPrefix
  <2>10. QED
    BY <2>8, <2>9
<1>6. QED
  BY <1>4, <1>5

\* Every call is a step of RequestFifo, executes blocks numbered out of turn, or
\* is a stutter.
LEMMA FifoStep ==
    FifoInv /\ [Next]_vars => [Fifo!Next \/ SettleOutOfTurn]_(Fifo!vars)
<1> SUFFICES ASSUME FifoInv, [Next]_vars
             PROVE  [Fifo!Next \/ SettleOutOfTurn]_(Fifo!vars)
  OBVIOUS
<1>1. FifoInv'
  BY CountedStep
<1>2. /\ TypeInv /\ firstL1RequestId \in Nat /\ pendingL1RequestNum \in Nat
      /\ committedL1RequestNum \in Nat
  BY DEF FifoInv, OrderInv, CountersInv, TypeInv, TypeOK
<1>3. ASSUME UNCHANGED queueVars, UNCHANGED <<executions, executedBlockNum>>
      PROVE  [Fifo!Next]_(Fifo!vars)
  BY <1>1, <1>2, <1>3, CommittedIsDeliver DEF queueVars
<1>4. CASE UserCall
  <2>1. PICK u \in Users, t \in Tokens, a \in Amounts :
           RegisterWithDeposit(u, t, a) \/ DepositToken(u, t, a) \/ WithdrawToken(u, t, a)
    BY <1>4 DEF UserCall
  <2>2. /\ accountNum \in AccountIds /\ accountIdOf[u] \in AccountIds
        /\ tokenIdOf[t] \in TokenIds
    BY <1>2, ConstantAssumption DEF TypeInv, TypeOK, AccountIds, FirstAccountId
  <2> DEFINE register == <<Register(accountNum), Deposit(accountNum, tokenIdOf[t], a)>>
             deposit == <<Deposit(accountIdOf[u], tokenIdOf[t], a)>>
  <2>3. register \in Seq(Requests) /\ deposit \in Seq(Requests)
    BY <2>2, RequestTypes
  <2>4. Len(register) = 2 /\ register[1].opType = "REGISTER" /\ Len(deposit) = 1
    BY DEF Register
  <2>5. \/ AddL1Requests(register) /\ UNCHANGED <<blockVars, historyVars>>
        \/ AddL1Requests(deposit) /\ UNCHANGED <<blockVars, historyVars>>
        \/ UNCHANGED <<queueVars, blockVars, historyVars>>
    BY <2>1 DEF RegisterWithDeposit, DepositToken, WithdrawToken
  <2> HIDE DEF register, deposit
  <2>6. CASE UNCHANGED <<queueVars, blockVars, historyVars>>
    BY <1>3, <2>6 DEF blockVars, historyVars
  <2>7. CASE \/ AddL1Requests(register) /\ UNCHANGED <<blockVars, historyVars>>
             \/ AddL1Requests(deposit) /\ UNCHANGED <<blockVars, historyVars>>
    <3>1. Fifo!Request
      BY <1>1, <2>3, <2>4, <2>7, AddedIsRequest
    <3>2. QED
      BY <3>1 DEF Fifo!Next
  <2>8. QED
    BY <2>5, <2>6, <2>7
<1>5. CASE TokenCall \/ ProveCall \/ UNCHANGED vars
  <2>1. UNCHANGED queueVars /\ UNCHANGED <<executions, executedBlockNum>>
    BY <1>5 DEF TokenCall, ProveCall, addToken, proveBlocks, vars, blockVars, historyVars
  <2>2. QED
    BY <1>3, <2>1
<1>6. CASE CommitCall
  <2>1. PICK last : \E n \in Nat : \E newBlocks \in [1 .. n -> CommitBlocks] :
           commitBlocks(last, newBlocks)
    BY <1>6 DEF CommitCall
  <2>2. PICK n \in Nat : \E newBlocks \in [1 .. n -> CommitBlocks] :
           commitBlocks(last, newBlocks)
    BY <2>1
  <2>3. PICK newBlocks \in [1 .. n -> CommitBlocks] : commitBlocks(last, newBlocks)
    BY <2>2
  <2> DEFINE num == [i \in 1 .. n |-> L1RequestNum(Collected(newBlocks[i].data))]
  <2>4. /\ committedL1RequestNum' = committedL1RequestNum + Total(num)
        /\ \A i \in 1 .. n : Collected(newBlocks[i].data) \in Seq(Requests)
    <3>1. CommitStored(last, n, newBlocks)
      BY <1>2, <2>3, CommitStores
    <3>2. QED
      BY <3>1 DEF CommitStored
  <2>5. num \in Seq(Nat)
    <3>1. \A i \in 1 .. n : L1RequestNum(Collected(newBlocks[i].data)) \in Nat
      BY <2>4, L1RequestNumType
    <3>2. QED
      BY <3>1
  <2> HIDE DEF num
  <2>6. Total(num) \in Nat
    BY <2>5, TotalType
  <2>7. committedL1RequestNum' >= committedL1RequestNum
    BY <1>2, <2>4, <2>6
  <2>8. UNCHANGED <<l1RequestQueue, firstL1RequestId, pendingL1RequestNum,
                    executions, executedBlockNum>>
    BY <2>3 DEF commitBlocks
  <2>9. QED
    BY <1>1, <2>7, <2>8, CommittedIsDeliver
<1>7. CASE ExecuteCall
  <2>1. PICK call \in Seq(ExecuteBlocks) : executeBlocks(call)
    BY <1>7 DEF ExecuteCall
  <2>2. Executes(call)
    BY <1>2, <2>1, ExecuteEffect
  <2>3. RequestsOf(call) \in Nat
    BY CallTypes
  <2>4. /\ firstL1RequestId' = firstL1RequestId + RequestsOf(call)
        /\ committedL1RequestNum' = committedL1RequestNum - RequestsOf(call)
        /\ pendingL1RequestNum' = pendingL1RequestNum - RequestsOf(call)
        /\ UNCHANGED <<l1RequestQueue, commits, committedBlockNum>>
    BY <2>2 DEF Executes
  <2>5. /\ firstL1RequestId' >= firstL1RequestId
        /\ firstL1RequestId' + pendingL1RequestNum' = firstL1RequestId + pendingL1RequestNum
        /\ firstL1RequestId' + committedL1RequestNum' =
              firstL1RequestId + committedL1RequestNum
    BY <1>2, <2>3, <2>4
  <2>6. QED
    BY <1>1, <2>4, <2>5, ExecutedIsSettle
<1>8. QED
  BY <1>2, <1>4, <1>5, <1>6, <1>7, CallsOfNext

(***************************************************************************)
(* The contract implements RequestFifo for any users, requests and         *)
(* batches: what the committed blocks took of the queue is at every moment *)
(* a prefix of the requests users made, a registration and its deposit     *)
(* being one, and grows with commitBlocks alone, whatever numbers the      *)
(* blocks bear; what the executed ones settled is a prefix of what was     *)
(* taken as long as every block was numbered in turn.                      *)
(***************************************************************************)
THEOREM FifoImplemented == Spec => ImplementsRequestFifo
<1>1. Init => FifoInv
  BY InitTypeInv, InitCounters, InitOrder, InitCounted DEF FifoInv, OrderInv, CountersInv
<1>2. Init => Fifo!Init
  <2> SUFFICES ASSUME Init PROVE Fifo!Init
    OBVIOUS
  <2>1. Places
    BY <1>1, PlacesHold
  <2>2. firstL1RequestId = 0 /\ pendingL1RequestNum = 0 /\ committedL1RequestNum = 0
    BY DEF Init
  <2>3. MadeParts(l1RequestQueue, 0) = << >>
    BY DEF MadeParts
  <2>4. << >> \in Seq(Seq(Requests)) /\ Len(<< >>) = 0
    OBVIOUS
  <2>5. Made(l1RequestQueue, 0) = << >>
    BY <2>3, <2>4, JoinedType DEF Made
  <2>6. Numbered
    BY DEF Init, Numbered, GenesisBlock
  <2>7. /\ firstL1RequestId + pendingL1RequestNum = 0
        /\ firstL1RequestId + committedL1RequestNum = 0
    BY <2>2
  <2>8. RequestsMade(NextL1RequestId) = << >>
    BY <2>1, <2>5, <2>7 DEF Places
  <2>9. RequestsIn(committedBlockNum) = << >>
    BY <2>1, <2>5, <2>7 DEF Places
  <2>10. RequestsExecuted(executedBlockNum) = << >>
    BY <2>1, <2>2, <2>5, <2>6 DEF Places
  <2>11. QED
    BY <2>8, <2>9, <2>10 DEF Fifo!Init
<1>3. QED
  BY <1>1, <1>2, CountedStep, FifoStep, PTL DEF Spec, ImplementsRequestFifo
=============================================================================
