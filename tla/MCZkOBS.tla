------------------------------ MODULE MCZkOBS -------------------------------
(***************************************************************************)
(* Small instances of the contract for TLC.                                *)
(***************************************************************************)
EXTENDS ZkOBSRefinement, FiniteSets, TLC

CONSTANTS u1, u2, weth, dai, r0, r1

MCUsers == {u1, u2}
MCTokens == {weth}
MCRoots == {r0, r1}
Symmetry == Permutations(MCUsers)

\* Requests of L2 blocks: the accounts are the first two the contract gives out.
MCAccounts == {FirstAccountId, FirstAccountId + 1}
L1Ops(tokenIds) ==
    {Register(a) : a \in MCAccounts} \cup
    {Deposit(a, t, x) : a \in MCAccounts, t \in tokenIds, x \in Amounts}
OrderOp == [opType |-> "L2", accountId |-> FirstAccountId, tokenId |-> 0, amount |-> 0]

SeqsUpTo(S, n) == UNION {[1 .. m -> S] : m \in 0 .. n}

\* Public data with all its chunks at offsets, in order and the other way round.
Full(datas) ==
    {[publicData |-> d, publicDataOffsets |-> [i \in 1 .. Len(d) |-> i]] : d \in datas}
Reversed(datas) ==
    {[publicData |-> d, publicDataOffsets |-> [i \in 1 .. Len(d) |-> Len(d) + 1 - i]] :
        d \in datas}

\* For the queue: blocks of up to two L1 requests of two users, in the queue's
\* order or not, with the offsets in order or not, or with a request at no offset.
QueueDatas ==
    Full({<<op>> : op \in L1Ops({1}) \cup {OrderOp}}) \cup
    Full({<<Register(FirstAccountId), op>> :
             op \in L1Ops({1}) \ {Register(FirstAccountId)}}) \cup
    Full({<<Deposit(FirstAccountId + 1, 1, 1), Deposit(FirstAccountId, 1, 1)>>}) \cup
    Reversed({<<Deposit(FirstAccountId, 1, 1), Register(FirstAccountId)>>}) \cup
    {[publicData |-> <<Register(FirstAccountId), Deposit(FirstAccountId, 1, 1)>>,
      publicDataOffsets |-> <<i>>] : i \in 1 .. 2}

\* For the chain of blocks: one user's requests, in calls of several blocks.
ChainDatas == Full(SeqsUpTo({Register(FirstAccountId), Deposit(FirstAccountId, 1, 1)}, 1))

\* For the money: what brings deposits to L2, and withdrawals from it; with a
\* second token, which the owner may whitelist at any time.
TwoTokens == {weth, dai}
Withdraw(tokenId, amount) ==
    [opType |-> "WITHDRAW", accountId |-> FirstAccountId, tokenId |-> tokenId,
     amount |-> amount]
MoneyDatas ==
    Full({<<Register(FirstAccountId)>>, <<Withdraw(0, 1)>>,
          <<Withdraw(1, 1), Withdraw(1, 1)>>}) \cup
    Reversed({<<Withdraw(2, 1), Withdraw(1, 2)>>})
NoPubdata == {<< >>}

\* What callers pass to executeBlocks: the withdrawals of a block or others.
MoneyPubdatas ==
    {<< >>, <<Withdraw(1, 1)>>, <<Withdraw(1, 1), Withdraw(1, 1)>>,
     <<Withdraw(1, 2), Withdraw(2, 1)>>}
=============================================================================
