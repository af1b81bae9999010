-------------------------- MODULE SequencerLedger --------------------------
(***************************************************************************)
(* What the sequencer (ts-sequencer/.../sequencer.processor.ts, the do...  *)
(* methods) does to the account, token and order leaves for a row of       *)
(* TransactionInfo, and what it records of it for the circuit.  A row is   *)
(* one step, blocks are padded with NOOPs as in Sequencing, and a row that *)
(* throws is skipped.  The writes of an order leaf that are not awaited    *)
(* land later, in any order.                                               *)
(*                                                                         *)
(* The rows of a match (SecondLimitStart, -Exchange, -End) are made by a   *)
(* matcher that is not in the repository.  It is taken to know every order *)
(* placed, to insert the rows of a match together, and to fill in the      *)
(* amounts of the circuit's witness generation where the circuit admits    *)
(* them.  Users' rows are those the circuit admits.                        *)
(*                                                                         *)
(* The API's placeOrder writes to the account's leaf as well: it counts    *)
(* the nonce up before the row of the order is executed, which counts it   *)
(* again.  The circuits' ledger does not have these, so its nonces are the *)
(* leaves' less what the API added.                                        *)
(***************************************************************************)
EXTENDS Integers, Sequences, FiniteSets

CONSTANTS
    NumOfAccounts, NumOfLeaves, Tokens,
    Rows,          \* what rows may ask for: requests of L2Ledger, orders without their leaf
    NumOfReqs,     \* logs in a block
    AmountLimit,   \* 2 ^ BitsAmount
    MaxRows,       \* bound: rows executed
    MaxApiOrders,  \* bound: orders the API takes
    NoOrder,       \* an order leaf of zeros
    NoRow          \* an order leaf without a row

Accounts == 1 .. NumOfAccounts
Leaves == 1 .. NumOfLeaves
Amounts == 0 .. AmountLimit - 1

\* The most NOOPs that can come with MaxRows rows.
MaxLogs == 3 * MaxRows

\* An order as the circuit has it: the txId that its leaf keeps is not the row's.
LedgerOrders ==
    [signer : Accounts, token : Tokens, amount : Amounts, nonce : Nat, buyToken : Tokens, buyAmt : Amounts,
     accumulatedSellAmt : Nat, accumulatedBuyAmt : Nat]

\* The rows of the leaves.  An account that is not registered has none.
AccountLeafNode == [registered : BOOLEAN, nonce : Nat]
TokenLeafNode == [availableAmt : Int, lockedAmt : Int]
OrderRows ==
    [signer : Accounts, token : Tokens, amount : Amounts, nonce : Nat, buyToken : Tokens, buyAmt : Amounts,
     accumulatedSellAmt : Nat, accumulatedBuyAmt : Nat, txId : 1 .. MaxRows]
ObsOrderLeafEntity == OrderRows \cup {NoOrder, NoRow}

\* What the rows ask for: the requests of L2Ledger without the users' Cancel.
RowRequests ==
    [reqType : {"Register"}, account : Accounts] \cup
    [reqType : {"Deposit"}, account : Accounts, token : Tokens, amount : Amounts] \cup
    [reqType : {"Withdraw"}, signer : Accounts, token : Tokens, amount : Amounts] \cup
    [reqType : {"SecondLimitOrder"}, signer : Accounts, token : Tokens, amount : Amounts,
     buyToken : Tokens, buyAmt : Amounts] \cup
    [reqType : {"SecondLimitStart", "SecondLimitExchange", "SecondLimitEnd"}, leaf : Leaves]

ASSUME SequencerLedgerAssumption ==
    /\ NumOfAccounts \in Nat /\ NumOfLeaves \in Nat
    /\ NumOfReqs \in Nat /\ NumOfReqs > 3 /\ AmountLimit \in Nat
    /\ MaxRows \in Nat /\ MaxApiOrders \in Nat
    /\ Rows \subseteq RowRequests

ASSUME NoOrderAssumption ==
    /\ NoOrder # NoRow
    /\ NoRow \notin OrderRows
    /\ NoOrder \notin OrderRows
    /\ NoOrder \notin LedgerOrders

VARIABLES
    accountLeaf,            \* account -> [registered, nonce]
    tokenLeaf,              \* account -> token -> [availableAmt, lockedAmt]
    obsOrderLeaf,           \* leaf -> order, with the txId of its row
    unsaved,                \* leaf -> the write that has not landed, or NoRow
    orderIds,               \* [next: currentOrderId, counted: it was read from the table]
    currentHoldTakerOrder,  \* the order of the match
    logs,                   \* latestTxId: logs so far
    rows,                   \* rows executed so far: the txId of the last
    match,                  \* the matcher: [leaf, taker, skipped]
    apiNonces,              \* account -> what the API added to its leaf's nonce
    apiOrders,              \* orders the API took
    backing,                \* token -> deposits less withdrawals
    witness,                \* what was recorded for the last log
    fault                   \* how the sequencer and the circuit parted, if they did

leaves == <<accountLeaf, tokenLeaf, obsOrderLeaf, unsaved>>
api == <<apiNonces, apiOrders>>
vars == <<leaves, orderIds, currentHoldTakerOrder, logs, rows, match, api, backing, witness, fault>>

NoMatch == [leaf |-> 0, taker |-> NoOrder, skipped |-> FALSE]
NoWitness == [accounts |-> <<>>, tokens |-> <<>>, order |-> <<>>]

Faults == {"recounted", "threw late", "orphan", "skipped", "split", "crashed", "run twice",
           "restarted"}

Init ==
    /\ accountLeaf = [a \in Accounts |-> [registered |-> FALSE, nonce |-> 0]]
    /\ tokenLeaf = [a \in Accounts |-> [t \in Tokens |-> [availableAmt |-> 0, lockedAmt |-> 0]]]
    /\ obsOrderLeaf = [l \in Leaves |-> NoRow]
    /\ unsaved = [l \in Leaves |-> NoRow]
    /\ orderIds = [next |-> 1, counted |-> FALSE]
    /\ currentHoldTakerOrder = NoOrder
    /\ logs = 0
    /\ rows = 0
    /\ match = NoMatch
    /\ apiNonces = [a \in Accounts |-> 0]
    /\ apiOrders = 0
    /\ backing = [t \in Tokens |-> 0]
    /\ witness = NoWitness
    /\ fault = "none"

-----------------------------------------------------------------------------
(* The circuit's ledger, as the leaves have it once every write has landed. *)

LedgerOrder(order) ==
    IF order \in {NoOrder, NoRow} THEN NoOrder
    ELSE [signer |-> order.signer, token |-> order.token, amount |-> order.amount,
          nonce |-> order.nonce, buyToken |-> order.buyToken, buyAmt |-> order.buyAmt,
          accumulatedSellAmt |-> order.accumulatedSellAmt,
          accumulatedBuyAmt |-> order.accumulatedBuyAmt]

LeafOnceSaved(l) == IF unsaved[l] = NoRow THEN obsOrderLeaf[l] ELSE unsaved[l]

RowTypes(type) == {row \in Rows : row.reqType = type}

\* The requests the rows become: an order may get any leaf.
WithLeaf(row, l) ==
    [reqType |-> row.reqType, signer |-> row.signer, token |-> row.token, amount |-> row.amount,
     buyToken |-> row.buyToken, buyAmt |-> row.buyAmt, leaf |-> l]

LedgerRequests ==
    (Rows \ RowTypes("SecondLimitOrder")) \cup
    {[reqType |-> "Unknow"]} \cup
    {WithLeaf(row, l) : row \in RowTypes("SecondLimitOrder"), l \in Leaves}

\* The nonce the circuit expects of the account.
NextNonce(a) == accountLeaf[a].nonce - apiNonces[a]

Ledger == INSTANCE L2Ledger WITH
    Requests <- LedgerRequests,
    MaxTxNum <- MaxLogs,
    registered <- {a \in Accounts : accountLeaf[a].registered},
    nonces <- [a \in Accounts |-> NextNonce(a)],
    avlAmt <- [a \in Accounts |-> [t \in Tokens |-> tokenLeaf[a][t].availableAmt]],
    lockedAmt <- [a \in Accounts |-> [t \in Tokens |-> tokenLeaf[a][t].lockedAmt]],
    orders <- [l \in Leaves |-> LedgerOrder(LeafOnceSaved(l))],
    channel <- IF currentHoldTakerOrder = NoOrder THEN NoOrder ELSE match.taker,
    atStart <- IF currentHoldTakerOrder = NoOrder THEN [sell |-> 0, buy |-> 0]
               ELSE [sell |-> currentHoldTakerOrder.accumulatedSellAmt,
                     buy |-> currentHoldTakerOrder.accumulatedBuyAmt],
    txNum <- logs

-----------------------------------------------------------------------------
(* What is recorded for the circuit: of each leaf a request touches its    *)
(* value before and after, in the order of the calls.                      *)

AccountUnit(a, before, after) == [account |-> a, ori |-> before[a], new |-> after[a]]
TokenUnit(a, t, before, after) ==
    [account |-> a, token |-> t, ori |-> before[a][t], new |-> after[a][t]]
OrderUnit(l, before, after) == [leaf |-> l, ori |-> LedgerOrder(before), new |-> LedgerOrder(after)]

\* Of a request on one account and token: the second pair of units is idle.
OneTokenUnits(a, t, after) ==
    <<TokenUnit(a, t, tokenLeaf, after), TokenUnit(a, t, after, after)>>
OneAccountUnits(a, after) ==
    <<AccountUnit(a, accountLeaf, after), AccountUnit(a, after, after)>>

\* Fault: both units of an exchange are read before its first update.
TwoTokenUnitsAtOnce(a, buy, sell, between, after) ==
    <<TokenUnit(a, buy, tokenLeaf, tokenLeaf), TokenUnit(a, sell, tokenLeaf, after)>>

\* Of an exchange and an end: what is bought, then what is sold.
TwoTokenUnits(a, buy, sell, between, after) ==
    <<TokenUnit(a, buy, tokenLeaf, between), TokenUnit(a, sell, between, after)>>

\* Fault: the amount is locked and not taken off what is available.
updateAccountTokenLockOnly(leaf, a, t, tokenAmt, lockedAmt) ==
    [leaf EXCEPT ![a][t].availableAmt = @ + (IF lockedAmt > 0 THEN 0 ELSE tokenAmt),
                 ![a][t].lockedAmt = @ + lockedAmt]

\* leaf after account a's token t changed by these amounts.
updateAccountToken(leaf, a, t, tokenAmt, lockedAmt) ==
    [leaf EXCEPT ![a][t].availableAmt = @ + tokenAmt, ![a][t].lockedAmt = @ + lockedAmt]

updateAccountNonce(a) == [accountLeaf EXCEPT ![a].nonce = @ + 1]

-----------------------------------------------------------------------------
\* A block that has room for no more than two logs is being padded.
Ending == logs % NumOfReqs > NumOfReqs - 3

\* The next row is executed.
NextRow == fault = "none" /\ ~Ending /\ rows < MaxRows /\ rows' = rows + 1 /\ UNCHANGED api

\* A request that is not part of a match, and one that is.
UserRow == NextRow /\ match = NoMatch /\ UNCHANGED <<match, currentHoldTakerOrder>>
MatchRow == NextRow

\* doTransaction's log.
addTxLogs(accounts, tokens, order) ==
    /\ logs' = logs + 1
    /\ witness' = [accounts |-> accounts, tokens |-> tokens, order |-> order]

\* What every request but the orders' leaves alone.
NoOrderWritten == UNCHANGED <<obsOrderLeaf, unsaved, orderIds>>

NoUnit == <<>>   \* leaf 0 of the order tree, read twice

(* The row throws before it changes anything: the leaf it names is empty   *)
(* for all the sequencer can read, or no order is held.  The matcher does  *)
(* not hear of it and goes on.                                             *)
IsEmpty(l) == obsOrderLeaf[l] \in {NoRow, NoOrder}

SkipRow ==
    UNCHANGED <<leaves, orderIds, currentHoldTakerOrder, logs, backing, witness, fault>>

\* addLeaf writes the leaf anew, also one that exists.  Of the tokens the default
\* leaf is recorded twice.
DoRegister(req) ==
    /\ UserRow
    /\ accountLeaf' = [accountLeaf EXCEPT ![req.account] = [registered |-> TRUE, nonce |-> 0]]
    /\ addTxLogs(OneAccountUnits(req.account, accountLeaf'), <<>>, NoUnit)
    /\ fault' = IF accountLeaf[req.account].registered THEN "run twice" ELSE "none"
    /\ NoOrderWritten
    /\ UNCHANGED <<tokenLeaf, backing>>

\* For the circuits a deposit's row that is run twice is another deposit.  (The
\* contract's queue does not have it.)
DoDeposit(req) ==
    /\ UserRow
    /\ accountLeaf[req.account].registered
    /\ tokenLeaf' = updateAccountToken(tokenLeaf, req.account, req.token, req.amount, 0)
    /\ backing' = [backing EXCEPT ![req.token] = @ + req.amount]
    /\ addTxLogs(OneAccountUnits(req.account, accountLeaf),
                 OneTokenUnits(req.account, req.token, tokenLeaf'), NoUnit)
    /\ NoOrderWritten
    /\ UNCHANGED <<accountLeaf, fault>>

\* A deposit to an account without a leaf throws.
SkipDeposit(req) ==
    /\ UserRow
    /\ ~accountLeaf[req.account].registered
    /\ SkipRow

\* The circuit's balance check; the sequencer has none.
Affords(req) ==
    /\ accountLeaf[req.signer].registered
    /\ req.amount < tokenLeaf[req.signer][req.token].availableAmt

\* The nonce the row was signed with: the one the circuit expects, or of a row
\* that is run twice the one before.
SignedNonces(a) == {NextNonce(a) - 1, NextNonce(a)} \cap Nat

RunTwiceIfOld(a, nonce) == fault' = IF nonce = NextNonce(a) THEN "none" ELSE "run twice"

DoWithdraw(req, nonce) ==
    /\ UserRow
    /\ Affords(req)
    /\ tokenLeaf' = updateAccountToken(tokenLeaf, req.signer, req.token, -req.amount, 0)
    /\ accountLeaf' = updateAccountNonce(req.signer)
    /\ backing' = [backing EXCEPT ![req.token] = @ - req.amount]
    /\ addTxLogs(OneAccountUnits(req.signer, accountLeaf'),
                 OneTokenUnits(req.signer, req.token, tokenLeaf'), NoUnit)
    /\ RunTwiceIfOld(req.signer, nonce)
    /\ NoOrderWritten

\* The leaf of a new order, written with its row's txId and signed nonce.
PlacedOrder(req, nonce) ==
    [signer |-> req.signer, token |-> req.token, amount |-> req.amount,
     nonce |-> nonce, buyToken |-> req.buyToken, buyAmt |-> req.buyAmt,
     accumulatedSellAmt |-> 0, accumulatedBuyAmt |-> 0, txId |-> rows + 1]

\* A write of leaf l that is not awaited: it has landed when the leaf is read
\* back, or it has not.
WriteUnawaited(l, order) ==
    \/ /\ obsOrderLeaf' = [obsOrderLeaf EXCEPT ![l] = order]
       /\ UNCHANGED unsaved
    \/ /\ unsaved' = [unsaved EXCEPT ![l] = order]
       /\ UNCHANGED obsOrderLeaf

\* Fault: two orders in a row get one leaf.
NextOrderIdKept(id) == id
NextOrderId(id) == id + 1

DoSecondLimitOrder(req, nonce) ==
    LET l == orderIds.next
    IN  /\ UserRow
        /\ l \in Leaves
        /\ Affords(req)
        /\ tokenLeaf' = updateAccountToken(tokenLeaf, req.signer, req.token, -req.amount, req.amount)
        /\ accountLeaf' = updateAccountNonce(req.signer)
        /\ WriteUnawaited(l, PlacedOrder(req, nonce))
        /\ orderIds' = [orderIds EXCEPT !.next = NextOrderId(@)]
        /\ addTxLogs(OneAccountUnits(req.signer, accountLeaf'),
                     OneTokenUnits(req.signer, req.token, tokenLeaf'),
                     <<OrderUnit(l, obsOrderLeaf[l], obsOrderLeaf'[l])>>)
        /\ RunTwiceIfOld(req.signer, nonce)
        /\ UNCHANGED backing

\* The API's placeOrder, of an account it found: it writes the nonce it read and
\* one to the leaf, which has moved on by then or not.
placeOrder(a) ==
    /\ fault = "none"
    /\ apiOrders < MaxApiOrders
    /\ apiOrders' = apiOrders + 1
    /\ accountLeaf[a].registered
    /\ \E read \in 0 .. accountLeaf[a].nonce :
           /\ accountLeaf' = [accountLeaf EXCEPT ![a].nonce = read + 1]
           /\ apiNonces' = [apiNonces EXCEPT ![a] = @ + read + 1 - accountLeaf[a].nonce]
    /\ UNCHANGED <<tokenLeaf, obsOrderLeaf, unsaved, orderIds, currentHoldTakerOrder, logs, rows,
                   match, backing, witness, fault>>

SaveOrderLeaf(l) ==
    /\ fault = "none"
    /\ unsaved[l] # NoRow
    /\ obsOrderLeaf' = [obsOrderLeaf EXCEPT ![l] = unsaved[l]]
    /\ unsaved' = [unsaved EXCEPT ![l] = NoRow]
    /\ UNCHANGED <<accountLeaf, tokenLeaf, orderIds, currentHoldTakerOrder, logs, rows, match,
                   api, backing, witness, fault>>

\* The constructor's setCurrentOrderId, which nothing waits for: the rows of the
\* leaves are counted, the one of leaf 0 too.  A write still on its way is not
\* counted, and its leaf may be given again.
SetCurrentOrderId ==
    /\ fault = "none"
    /\ ~orderIds.counted
    /\ orderIds' = [next |-> 2 + Cardinality({l \in Leaves : obsOrderLeaf[l] # NoRow}),
                    counted |-> TRUE]
    /\ fault' = IF orderIds'.next < orderIds.next THEN "recounted" ELSE "none"
    /\ UNCHANGED <<leaves, currentHoldTakerOrder, logs, rows, match, api, backing, witness>>

-----------------------------------------------------------------------------
(* A match.                                                                *)

\* encodeRChunkBuffer refuses a txOffset of 0: the row that placed the order has
\* the number of the log being made.
HasNoOffset(order) == logs = order.txId

\* The matcher starts on an order, which it believes to be in the leaf.
MatcherStarts(l) ==
    /\ match = NoMatch
    /\ LedgerOrder(LeafOnceSaved(l)) # NoOrder
    /\ match' = [leaf |-> l, taker |-> LedgerOrder(LeafOnceSaved(l)), skipped |-> FALSE]

RemoveOrder(l) == obsOrderLeaf' = [obsOrderLeaf EXCEPT ![l] = NoOrder]

\* The order is held and taken out of its leaf; without an offset the job then
\* fails and leaves it at that.
DoSecondLimitStart(req) ==
    LET l == req.leaf
        order == obsOrderLeaf[l]
    IN  /\ MatchRow
        /\ MatcherStarts(l)
        /\ ~IsEmpty(l)
        /\ currentHoldTakerOrder' = order
        /\ RemoveOrder(l)
        /\ IF HasNoOffset(order)
             THEN fault' = "threw late" /\ UNCHANGED <<logs, witness>>
             ELSE /\ addTxLogs(OneAccountUnits(order.signer, accountLeaf),
                               OneTokenUnits(order.signer, order.token, tokenLeaf),
                               <<OrderUnit(l, order, NoOrder)>>)
                  /\ UNCHANGED fault
        /\ UNCHANGED <<accountLeaf, tokenLeaf, unsaved, orderIds, backing>>

SkipStart(req) ==
    /\ MatchRow
    /\ MatcherStarts(req.leaf)
    /\ IsEmpty(req.leaf)
    /\ SkipRow

\* The matcher's next maker, and the amounts of the exchange with him.
Maker(l) == LedgerOrder(LeafOnceSaved(l))
SupTakerBuyAmt(l) == Ledger!SupTakerBuyAmt(Maker(l), match.taker)
SupMakerBuyAmt(l) == Ledger!SupMakerBuyAmt(Maker(l))
SoldBy(l) == Ledger!MatchedSellAmt(Maker(l), SupTakerBuyAmt(l))
BoughtBy(l) == Ledger!MatchedBuyAmt(match.taker, SupMakerBuyAmt(l))

MatcherExchanges(l) ==
    /\ match # NoMatch
    /\ Maker(l) # NoOrder
    /\ match.taker.token = Maker(l).buyToken
    /\ match.taker.buyToken = Maker(l).token
    /\ Ledger!IsMatched(Maker(l), match.taker)
    /\ SupTakerBuyAmt(l) \in Ledger!SupTakerBuyAmts(Maker(l), match.taker)
    /\ SupMakerBuyAmt(l) \in Ledger!SupMakerBuyAmts(Maker(l), match.taker)

Filled(order, sold, bought) ==
    [order EXCEPT !.accumulatedSellAmt = @ + sold, !.accumulatedBuyAmt = @ + bought]

\* The maker of a leaf is paid and his order filled, whether or not a taker is held.
DoSecondLimitExchange(req) ==
    LET l == req.leaf
        maker == obsOrderLeaf[l]
        filled == Filled(maker, SoldBy(l), BoughtBy(l))
        bought == updateAccountToken(tokenLeaf, maker.signer, maker.buyToken, BoughtBy(l), 0)
    IN  /\ MatchRow
        /\ ~IsEmpty(l)
        /\ MatcherExchanges(l)
        /\ match' = [match EXCEPT
                !.taker = Ledger!Fill(@, BoughtBy(l), Ledger!TakerBought(Maker(l)))]
        /\ tokenLeaf' = updateAccountToken(bought, maker.signer, maker.token, 0, -SoldBy(l))
        /\ IF filled.accumulatedSellAmt = filled.amount
             THEN RemoveOrder(l)
             ELSE obsOrderLeaf' = [obsOrderLeaf EXCEPT ![l] = filled]
        /\ fault' = IF HasNoOffset(maker) THEN "threw late"
                    ELSE IF currentHoldTakerOrder = NoOrder THEN "orphan"
                    ELSE IF match.skipped THEN "skipped" ELSE "none"
        /\ IF HasNoOffset(maker)
             THEN UNCHANGED <<logs, witness>>
             ELSE addTxLogs(OneAccountUnits(maker.signer, accountLeaf),
                            TwoTokenUnits(maker.signer, maker.buyToken, maker.token, bought, tokenLeaf'),
                            <<OrderUnit(l, maker, obsOrderLeaf'[l])>>)
        /\ UNCHANGED <<accountLeaf, unsaved, orderIds, currentHoldTakerOrder, backing>>

SkipExchange(req) ==
    /\ MatchRow
    /\ IsEmpty(req.leaf)
    /\ MatcherExchanges(req.leaf)
    /\ match' = [match EXCEPT !.skipped = TRUE]
    /\ SkipRow

\* What the match took from the taker held and gives him, by the matcher's row.
TakerSold == match.taker.accumulatedSellAmt - currentHoldTakerOrder.accumulatedSellAmt
TakerBought == match.taker.accumulatedBuyAmt - currentHoldTakerOrder.accumulatedBuyAmt

\* The taker is paid and his order written back to its leaf, unawaited.  When all
\* of it is sold the removal, also unawaited, finds the leaf empty and rejects,
\* which ends the process.
DoSecondLimitEnd(req) ==
    LET l == req.leaf
        taker == currentHoldTakerOrder
        filled == Filled(taker, TakerSold, TakerBought)
        bought == updateAccountToken(tokenLeaf, taker.signer, taker.buyToken, TakerBought, 0)
    IN  /\ MatchRow
        /\ taker # NoOrder
        /\ l = match.leaf
        /\ match' = NoMatch
        /\ currentHoldTakerOrder' = NoOrder
        /\ tokenLeaf' = updateAccountToken(bought, taker.signer, taker.token, 0, -TakerSold)
        /\ IF filled.accumulatedSellAmt = filled.amount
             THEN fault' = "crashed" /\ UNCHANGED <<obsOrderLeaf, unsaved, logs, witness>>
             ELSE /\ WriteUnawaited(l, filled)
                  /\ fault' = IF match.skipped THEN "skipped" ELSE "none"
                  /\ addTxLogs(OneAccountUnits(taker.signer, accountLeaf),
                               TwoTokenUnits(taker.signer, taker.buyToken, taker.token, bought, tokenLeaf'),
                               <<OrderUnit(l, obsOrderLeaf[l], obsOrderLeaf'[l])>>)
        /\ UNCHANGED <<accountLeaf, orderIds, backing>>

\* No order is held: the start was skipped.
SkipEnd(req) ==
    /\ MatchRow
    /\ match # NoMatch
    /\ req.leaf = match.leaf
    /\ currentHoldTakerOrder = NoOrder
    /\ match' = NoMatch
    /\ SkipRow

\* A row of a match is run twice.  What it then does is not followed.
RunMatchRowTwice ==
    /\ MatchRow
    /\ match # NoMatch
    /\ fault' = "run twice"
    /\ UNCHANGED <<leaves, orderIds, currentHoldTakerOrder, logs, match, backing, witness>>

-----------------------------------------------------------------------------
\* endRollup's padding, which knows nothing of a match.
DoNoop ==
    /\ fault = "none"
    /\ Ending
    /\ addTxLogs(<<>>, <<>>, NoUnit)
    /\ fault' = IF currentHoldTakerOrder # NoOrder THEN "split" ELSE "none"
    /\ UNCHANGED <<leaves, orderIds, currentHoldTakerOrder, rows, match, api, backing>>

\* The sequencer is restarted, in the middle of a row or between two.  The logs of
\* the block, the number of the log (oriTxId), the order held and the next leaf
\* are in memory.  What is left of the row is not followed.
Restart(midRow) ==
    /\ fault = "none"
    /\ orderIds' = [next |-> 1, counted |-> FALSE]
    /\ currentHoldTakerOrder' = NoOrder
    /\ logs' = 0
    /\ witness' = NoWitness
    /\ fault' = IF midRow \/ logs > 0 THEN "restarted" ELSE "none"
    /\ UNCHANGED <<leaves, rows, match, api, backing>>

-----------------------------------------------------------------------------
Next ==
    \/ \E req \in RowTypes("Register") : DoRegister(req)
    \/ \E req \in RowTypes("Deposit") : DoDeposit(req) \/ SkipDeposit(req)
    \/ \E req \in RowTypes("Withdraw") : \E nonce \in SignedNonces(req.signer) :
           DoWithdraw(req, nonce)
    \/ \E req \in RowTypes("SecondLimitOrder") : \E nonce \in SignedNonces(req.signer) :
           DoSecondLimitOrder(req, nonce)
    \/ \E a \in Accounts : placeOrder(a)
    \/ \E req \in RowTypes("SecondLimitStart") : DoSecondLimitStart(req) \/ SkipStart(req)
    \/ \E req \in RowTypes("SecondLimitExchange") : DoSecondLimitExchange(req) \/ SkipExchange(req)
    \/ \E req \in RowTypes("SecondLimitEnd") : DoSecondLimitEnd(req) \/ SkipEnd(req)
    \/ \E l \in Leaves : SaveOrderLeaf(l)
    \/ SetCurrentOrderId
    \/ RunMatchRowTwice
    \/ DoNoop
    \/ \E midRow \in BOOLEAN : Restart(midRow)

Spec == Init /\ [][Next]_vars

-----------------------------------------------------------------------------
(* Properties.                                                             *)

\* Types; a write is on its way to a leaf the sequencer reads as empty, and the
\* order held is the matcher's.
TypeOK ==
    /\ accountLeaf \in [Accounts -> AccountLeafNode]
    /\ tokenLeaf \in [Accounts -> [Tokens -> TokenLeafNode]]
    /\ obsOrderLeaf \in [Leaves -> ObsOrderLeafEntity]
    /\ unsaved \in [Leaves -> ObsOrderLeafEntity]
    /\ \A l \in Leaves : unsaved[l] # NoRow => IsEmpty(l) /\ unsaved[l] # NoOrder
    /\ orderIds.next \in Nat
    /\ currentHoldTakerOrder # NoOrder => match # NoMatch
    /\ logs \in 0 .. MaxLogs /\ rows \in 0 .. MaxRows
    /\ apiNonces \in [Accounts -> Int] /\ apiOrders \in 0 .. MaxApiOrders
    /\ fault \in Faults \cup {"none"}

\* The leaves, once every write has landed, are the ledger of the circuits, request
\* by request: each row that is logged is the circuit's request, with its effect
\* on every leaf, its order in a leaf that was free and its block closed with no
\* order held; a row that is skipped, a write that lands late, the late count of
\* the leaves and an order the API takes are no steps of the ledger.  The nonces
\* are the leaves' but for what the API added to them, which the next request of
\* the account records for the circuit with the rest of the leaf.  Otherwise the
\* two part only where a step says so, in "fault".
ImplementsLedger ==
    Ledger!Init /\ [][Ledger!Next \/ fault' # "none"]_(Ledger!vars)

\* The units that touch the leaf, in order, lead from before to after; a leaf no
\* unit touches stays the same.
Chain(units, touching, before, after) ==
    IF touching = {} THEN after = before
    ELSE \A i \in touching :
             /\ (\A k \in touching : i <= k) => units[i].ori = before
             /\ (\A k \in touching : k <= i) => units[i].new = after
             /\ \A j \in touching :
                    i < j /\ (\A k \in touching : k <= i \/ j <= k) => units[i].new = units[j].ori

TokenUnits(units, a, t) == {i \in DOMAIN units : units[i].account = a /\ units[i].token = t}
AccountUnits(units, a) == {i \in DOMAIN units : units[i].account = a}
OrderUnits(units, l) == {i \in DOMAIN units : units[i].leaf = l}

\* What is recorded for the circuit tells the request: the units of the tokens,
\* of the accounts and of the order lead each leaf from its value before the
\* request to its value after, except an order leaf whose write is still on its
\* way: then the old leaf is recorded.
WitnessIsStep ==
    [][logs' # logs /\ fault' = "none" =>
        /\ \A a \in Accounts, t \in Tokens :
               Chain(witness'.tokens, TokenUnits(witness'.tokens, a, t),
                     tokenLeaf[a][t], tokenLeaf'[a][t])
        /\ \A a \in Accounts :
               Chain(witness'.accounts, AccountUnits(witness'.accounts, a),
                     accountLeaf[a], accountLeaf'[a])
        /\ \A l \in Leaves :
               \/ unsaved'[l] # unsaved[l]
               \/ Chain(witness'.order, OrderUnits(witness'.order, l),
                        LedgerOrder(LeafOnceSaved(l)), LedgerOrder(LeafOnceSaved(l))')]_vars
=============================================================================
