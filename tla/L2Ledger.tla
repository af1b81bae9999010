------------------------------ MODULE L2Ledger ------------------------------
(***************************************************************************)
(* What the circuits (circuits/normal.circom, circuits/src/request.circom) *)
(* admit as a block: NumOfReqs requests, each a step of the ledger of L2   *)
(* accounts, tokens and orders.  A match of orders is several requests,    *)
(* SecondLimitStart, SecondLimitExchange ... and SecondLimitEnd: in        *)
(* between, the order being matched is out of the order tree, in the       *)
(* channel that leads from one request of a block to the next.             *)
(*                                                                         *)
(* A Merkle tree is modelled by its leaves, a signature by the nonce that  *)
(* is signed.  Amounts are integers: where one becomes negative, the       *)
(* circuit's field element wraps around.  The market orders' requests are  *)
(* left out: nothing in the repository makes them.                         *)
(***************************************************************************)
EXTENDS Integers, PrefixSums

CONSTANTS
    NumOfAccounts,  \* account ids are 1 .. NumOfAccounts
    NumOfLeaves,    \* leaves of the order tree are 1 .. NumOfLeaves
    Tokens,
    Requests,       \* the requests blocks are made of
    NumOfReqs,      \* requests in a block
    AmountLimit,    \* 2 ^ BitsAmount
    MaxTxNum,       \* bound: requests in all
    NoOrder         \* an order leaf, or a channel, of zeros

Accounts == 1 .. NumOfAccounts
Leaves == 1 .. NumOfLeaves

\* reqData, each type with the words it uses.  Account 0's key signs nothing.
\* Amounts are of BitsAmount bits, as AllocReqData means to verify (what it
\* hands to Num2Bits is the index of the word).
Amounts == 0 .. AmountLimit - 1
RequestTypes ==
    [reqType : {"Unknow"}] \cup
    [reqType : {"Register"}, account : Accounts] \cup
    [reqType : {"Deposit"}, account : Accounts, token : Tokens, amount : Amounts] \cup
    [reqType : {"Withdraw"}, signer : Accounts, token : Tokens, amount : Amounts] \cup
    [reqType : {"SecondLimitOrder"}, signer : Accounts, token : Tokens, amount : Amounts,
     buyToken : Tokens, buyAmt : Amounts, leaf : Leaves] \cup
    [reqType : {"SecondLimitStart", "SecondLimitExchange", "SecondLimitEnd", "Cancel"},
     leaf : Leaves]

ASSUME ConstantAssumption ==
    /\ NumOfAccounts \in Nat
    /\ NumOfLeaves \in Nat
    /\ NumOfReqs \in Nat \ {0}
    /\ AmountLimit \in Nat
    /\ MaxTxNum \in Nat
    /\ Requests \subseteq RequestTypes

\* An order leaf: the request that placed the order, then what was matched.
Orders ==
    [signer : Accounts, token : Tokens, amount : Amounts, nonce : Nat,
     buyToken : Tokens, buyAmt : Amounts, accumulatedSellAmt : Int, accumulatedBuyAmt : Int]
OpenOrders == {o \in Orders : o.accumulatedSellAmt \in 0 .. o.amount /\ o.accumulatedBuyAmt >= 0}

ASSUME NoOrderAssumption == NoOrder \notin Orders

VARIABLES
    registered,     \* accounts whose leaf has a tsAddr
    nonces,         \* account -> nonce
    avlAmt,         \* account -> token -> available amount
    lockedAmt,      \* account -> token -> amount locked by orders
    orders,         \* leaf -> order
    channel,        \* the order being matched
    atStart,        \* its accumulated amounts when the match started
    txNum,          \* requests so far
    backing         \* token -> deposits less withdrawals: what L1 holds for L2

accountVars == <<registered, nonces>>
tokenVars == <<avlAmt, lockedAmt>>
matchVars == <<channel, atStart>>
vars == <<accountVars, tokenVars, orders, matchVars, txNum, backing>>

None == [sell |-> 0, buy |-> 0]

Init ==
    /\ registered = {}
    /\ nonces = [a \in Accounts |-> 0]
    /\ avlAmt = [a \in Accounts |-> [t \in Tokens |-> 0]]
    /\ lockedAmt = [a \in Accounts |-> [t \in Tokens |-> 0]]
    /\ orders = [l \in Leaves |-> NoOrder]
    /\ channel = NoOrder
    /\ atStart = None
    /\ txNum = 0
    /\ backing = [t \in Tokens |-> 0]

\* The next request of the block.  The last one leaves the channel empty.
InBlockUnclosed == txNum < MaxTxNum /\ txNum' = txNum + 1    \* fault: channel not checked
InBlock ==
    /\ txNum < MaxTxNum
    /\ txNum' = txNum + 1
    /\ txNum' % NumOfReqs = 0 => channel' = NoOrder

\* A request that is not part of a match needs the channel empty and keeps it so.
OutsideMatch == InBlock /\ channel = NoOrder /\ UNCHANGED matchVars

-----------------------------------------------------------------------------
DoReqUnknow(req) ==
    /\ OutsideMatch
    /\ UNCHANGED <<accountVars, tokenVars, orders, backing>>

\* The contract registers an account once; the request's amount is 0, as the
\* deposit is a request of its own.
DoReqRegister(req) ==
    /\ OutsideMatch
    /\ req.account \notin registered
    /\ registered' = registered \cup {req.account}
    /\ UNCHANGED <<nonces, tokenVars, orders, backing>>

\* The contract queues deposits of registered accounts only.
DoReqDeposit(req) ==
    /\ OutsideMatch
    /\ req.account \in registered
    /\ avlAmt' = [avlAmt EXCEPT ![req.account][req.token] = @ + req.amount]
    /\ backing' = [backing EXCEPT ![req.token] = @ + req.amount]
    /\ UNCHANGED <<accountVars, lockedAmt, orders>>

SufficientUnchecked(req) == TRUE                    \* fault: balance not compared
Sufficient(req) == req.amount < avlAmt[req.signer][req.token]

LeafIsFreeUnchecked(req) == TRUE                    \* fault: an order overwritten
LeafIsFree(req) == orders[req.leaf] = NoOrder

SignedAgain(req) == nonces                          \* fault: nonce not advanced
Signed(req) == [nonces EXCEPT ![req.signer] = @ + 1]

DoReqWithdraw(req) ==
    /\ OutsideMatch
    /\ req.signer \in registered
    /\ Sufficient(req)
    /\ nonces' = Signed(req)
    /\ avlAmt' = [avlAmt EXCEPT ![req.signer][req.token] = @ - req.amount]
    /\ backing' = [backing EXCEPT ![req.token] = @ - req.amount]
    /\ UNCHANGED <<registered, lockedAmt, orders>>

NewOrder(req) ==
    [signer |-> req.signer, token |-> req.token, amount |-> req.amount,
     nonce |-> nonces[req.signer], buyToken |-> req.buyToken, buyAmt |-> req.buyAmt,
     accumulatedSellAmt |-> 0, accumulatedBuyAmt |-> 0]

DoReqSecondLimitOrder(req) ==
    /\ OutsideMatch
    /\ req.signer \in registered
    /\ LeafIsFree(req)
    /\ Sufficient(req)
    /\ orders' = [orders EXCEPT ![req.leaf] = NewOrder(req)]
    /\ nonces' = Signed(req)
    /\ avlAmt' = [avlAmt EXCEPT ![req.signer][req.token] = @ - req.amount]
    /\ lockedAmt' = [lockedAmt EXCEPT ![req.signer][req.token] = @ + req.amount]
    /\ UNCHANGED <<registered, backing>>

\* Refunds the whole amount of the order, whatever was matched of it.  On an
\* empty leaf the request changes nothing, as DoReqUnknow.
DoReqCancel(req) ==
    LET order == orders[req.leaf]
    IN  /\ OutsideMatch
        /\ order # NoOrder
        /\ orders' = [orders EXCEPT ![req.leaf] = NoOrder]
        /\ avlAmt' = [avlAmt EXCEPT ![order.signer][order.token] = @ + order.amount]
        /\ lockedAmt' = [lockedAmt EXCEPT ![order.signer][order.token] = @ - order.amount]
        /\ UNCHANGED <<accountVars, backing>>

(***************************************************************************)
(* Matching.                                                               *)
(***************************************************************************)

\* The order of the leaf leaves the tree for the channel.
DoReqSecondLimitStart(req) ==
    LET order == orders[req.leaf]
    IN  /\ InBlock
        /\ channel = NoOrder
        /\ orders' = [orders EXCEPT ![req.leaf] = NoOrder]
        /\ channel' = order
        /\ atStart' = IF order = NoOrder THEN None
                      ELSE [sell |-> order.accumulatedSellAmt, buy |-> order.accumulatedBuyAmt]
        /\ UNCHANGED <<accountVars, tokenVars, backing>>

RemainSellAmt(order) == order.amount - order.accumulatedSellAmt
Lesser(a, b) == IF a <= b THEN a ELSE b

IsMatched(maker, taker) ==
    /\ maker.amount > 0 /\ maker.buyAmt > 0         \* the divisors of IntDivide
    /\ maker.amount * taker.amount >= maker.buyAmt * taker.buyAmt

(***************************************************************************)
(* IntDivide.  The witness generation computes the quotient rounded down,  *)
(* but that is no constraint.  The constraints are that the remainder is   *)
(* LessThan the divisor in BitsAmount bits, which bounds it from below     *)
(* only by divisor - AmountLimit, and that the quotient has 253 -          *)
(* BitsAmount bits (BitsAmount is 126).  So quotients above the one        *)
(* computed are accepted, with a negative remainder.                       *)
(***************************************************************************)
Quotient(dividend, divisor) == dividend \div divisor
Quotients(dividend, divisor) ==
    {q \in 0 .. 2 * AmountLimit - 1 :
        dividend - q * divisor \in divisor - AmountLimit .. divisor - 1}

\* The operands of Min, which compares them in BitsAmount bits.
Comparable(remainSellAmt, supBuyAmt) == supBuyAmt <= remainSellAmt + AmountLimit

\* The most each side can buy at the maker's price, as the witness generation
\* has it and as the constraints accept it.
SupMakerBuyAmt(maker) == Quotient(RemainSellAmt(maker) * maker.buyAmt, maker.amount)
SupTakerBuyAmt(maker, taker) == Quotient(RemainSellAmt(taker) * maker.amount, maker.buyAmt)

SupMakerBuyAmts(maker, taker) ==
    {q \in Quotients(RemainSellAmt(maker) * maker.buyAmt, maker.amount) :
        Comparable(RemainSellAmt(taker), q)}
SupTakerBuyAmtsAtTakersPrice(maker, taker) ==       \* fault: the other price
    {q \in Quotients(RemainSellAmt(taker) * taker.buyAmt, taker.amount) :
        Comparable(RemainSellAmt(maker), q)}
SupTakerBuyAmts(maker, taker) ==
    {q \in Quotients(RemainSellAmt(taker) * maker.amount, maker.buyAmt) :
        Comparable(RemainSellAmt(maker), q)}

\* What the maker sells, and what he buys (the taker sells).
MatchedSellAmt(maker, supTakerBuyAmt) == Lesser(RemainSellAmt(maker), supTakerBuyAmt)
MatchedBuyAmt(taker, supMakerBuyAmt) == Lesser(RemainSellAmt(taker), supMakerBuyAmt)

\* An order that sold and bought some more.
Fill(order, sold, bought) ==
    [order EXCEPT !.accumulatedSellAmt = @ + sold, !.accumulatedBuyAmt = @ + bought]

\* An order after a match, out of the tree once all is sold.
Kept(order) == IF order.accumulatedSellAmt = order.amount THEN NoOrder ELSE order

\* The channel after an exchange: the taker's bought amount grows by the
\* maker's whole sell amount.
TakerBoughtNothing(maker) == 0                      \* fault: not accumulated
TakerBought(maker) == maker.amount

\* Against the maker's order in the leaf.
DoReqSecondLimitExchange(req) ==
    LET maker == orders[req.leaf]
    IN  /\ InBlock
        /\ channel # NoOrder
        /\ maker # NoOrder
        /\ channel.token = maker.buyToken
        /\ channel.buyToken = maker.token
        /\ IsMatched(maker, channel)
        /\ \E supMakerBuyAmt \in SupMakerBuyAmts(maker, channel),
              supTakerBuyAmt \in SupTakerBuyAmts(maker, channel) :
              LET sold == MatchedSellAmt(maker, supTakerBuyAmt)
                  bought == MatchedBuyAmt(channel, supMakerBuyAmt)
              IN  /\ orders' = [orders EXCEPT ![req.leaf] = Kept(Fill(maker, sold, bought))]
                  /\ avlAmt' = [avlAmt EXCEPT ![maker.signer][maker.buyToken] = @ + bought]
                  /\ lockedAmt' = [lockedAmt EXCEPT ![maker.signer][maker.token] = @ - sold]
                  /\ channel' = Fill(channel, bought, TakerBought(maker))
        /\ UNCHANGED <<accountVars, atStart, backing>>

\* What the match took from the taker and gives him.
TakerSellAmtInAll == channel.accumulatedSellAmt     \* fault: the start forgotten
TakerSellAmt == channel.accumulatedSellAmt - atStart.sell
TakerBuyAmt == channel.accumulatedBuyAmt - atStart.buy

\* The channel's order returns to an empty leaf, any one.
DoReqSecondLimitEnd(req) ==
    LET taker == channel
    IN  /\ InBlock
        /\ taker # NoOrder
        /\ LeafIsFree(req)
        /\ orders' = [orders EXCEPT ![req.leaf] = Kept(taker)]
        /\ avlAmt' = [avlAmt EXCEPT ![taker.signer][taker.buyToken] = @ + TakerBuyAmt]
        /\ lockedAmt' = [lockedAmt EXCEPT ![taker.signer][taker.token] = @ - TakerSellAmt]
        /\ channel' = NoOrder
        /\ atStart' = None
        /\ UNCHANGED <<accountVars, backing>>

-----------------------------------------------------------------------------
OfType(reqType) == {req \in Requests : req.reqType = reqType}

Next ==
    \/ \E req \in OfType("Unknow") : DoReqUnknow(req)
    \/ \E req \in OfType("Register") : DoReqRegister(req)
    \/ \E req \in OfType("Deposit") : DoReqDeposit(req)
    \/ \E req \in OfType("Withdraw") : DoReqWithdraw(req)
    \/ \E req \in OfType("SecondLimitOrder") : DoReqSecondLimitOrder(req)
    \/ \E req \in OfType("SecondLimitStart") : DoReqSecondLimitStart(req)
    \/ \E req \in OfType("SecondLimitExchange") : DoReqSecondLimitExchange(req)
    \/ \E req \in OfType("SecondLimitEnd") : DoReqSecondLimitEnd(req)
    \/ \E req \in OfType("Cancel") : DoReqCancel(req)

Spec == Init /\ [][Next]_vars

-----------------------------------------------------------------------------
(***************************************************************************)
(* The state is well formed: every amount of an account is a natural       *)
(* number, and an order in the tree or in the channel has not sold more    *)
(* than it offers.  None of the circuit's subtractions wraps around.       *)
(***************************************************************************)
LedgerTypeOK ==
    /\ registered \subseteq Accounts
    /\ nonces \in [Accounts -> Nat]
    /\ avlAmt \in [Accounts -> [Tokens -> Nat]]
    /\ lockedAmt \in [Accounts -> [Tokens -> Nat]]
    /\ orders \in [Leaves -> OpenOrders \cup {NoOrder}]
    /\ channel \in OpenOrders \cup {NoOrder}
    /\ atStart \in [sell : Nat, buy : Nat]
    /\ txNum \in 0 .. MaxTxNum
    /\ backing \in [Tokens -> Int]

\* What an order of which sold is sold locks of account a's token t.
Locks(order, sold, a, t) ==
    IF order.signer = a /\ order.token = t THEN order.amount - sold ELSE 0

LeafLocks(order, a, t) ==
    IF order = NoOrder THEN 0 ELSE Locks(order, order.accumulatedSellAmt, a, t)
ChannelLocks(a, t) ==
    IF channel = NoOrder THEN 0 ELSE Locks(channel, atStart.sell, a, t)

TreeLocks(a, t) == [l \in Leaves |-> LeafLocks(orders[l], a, t)]

(***************************************************************************)
(* What an account has locked of a token is what its open orders still     *)
(* have to sell, where the order in the channel counts as it was when the  *)
(* match started.  Every request, and every interleaving of matches with   *)
(* new orders and withdrawals, keeps the two in step.                      *)
(***************************************************************************)
LockedIsWhatOrdersSell ==
    \A a \in Accounts, t \in Tokens :
        lockedAmt[a][t] = Total(TreeLocks(a, t)) + ChannelLocks(a, t)

(***************************************************************************)
(* At the end of a block the order tree alone accounts for what is locked: *)
(* no order is left in the channel, which the next block's circuit does    *)
(* not receive.                                                            *)
(***************************************************************************)
BlockEndsWithOrdersInTree ==
    txNum % NumOfReqs = 0 =>
        \A a \in Accounts, t \in Tokens : lockedAmt[a][t] = Total(TreeLocks(a, t))

Open == ({orders[l] : l \in Leaves} \cup {channel}) \ {NoOrder}

\* Order later is the order now, no less filled.
Continues(now, later) ==
    /\ later = [now EXCEPT !.accumulatedSellAmt = later.accumulatedSellAmt,
                           !.accumulatedBuyAmt = later.accumulatedBuyAmt]
    /\ later.accumulatedSellAmt >= now.accumulatedSellAmt
    /\ later.accumulatedBuyAmt >= now.accumulatedBuyAmt

(***************************************************************************)
(* No request loses an order, whatever leaves it moves between: an open    *)
(* order stays open, no less filled, until all of it is sold (at the End   *)
(* of its match, or by the exchange that takes the rest of what it locks)  *)
(* or it is cancelled and its whole amount refunded.                       *)
(***************************************************************************)
NoOrderLost ==
    [][\A o \in Open :
          \/ \E later \in Open' : Continues(o, later)
          \/ o.accumulatedSellAmt = o.amount
          \/ lockedAmt[o.signer][o.token] - lockedAmt'[o.signer][o.token] = RemainSellAmt(o)
          \/ avlAmt'[o.signer][o.token] - avlAmt[o.signer][o.token] = o.amount]_vars

(***************************************************************************)
(* A signed order is in the ledger once: the open orders of one account,   *)
(* in the tree and in the channel, have different nonces, all of them      *)
(* below the nonce the account must sign next.                             *)
(***************************************************************************)
OneOrderPerSignature ==
    LET open == {l \in Leaves : orders[l] # NoOrder}
        id(order) == <<order.signer, order.nonce>>
    IN  /\ \A k, l \in open : id(orders[k]) = id(orders[l]) => k = l
        /\ \A l \in open : /\ orders[l].nonce < nonces[orders[l].signer]
                            /\ channel # NoOrder => id(orders[l]) # id(channel)

\* What all accounts hold of token t, the match in the channel settled.
HeldOnL2(t) ==
    LET ofAccount(a) == avlAmt[a][t] + lockedAmt[a][t]
        pending ==
            IF channel = NoOrder THEN 0
            ELSE (IF channel.buyToken = t THEN channel.accumulatedBuyAmt - atStart.buy ELSE 0)
                 - (IF channel.token = t THEN channel.accumulatedSellAmt - atStart.sell ELSE 0)
    IN  Total([a \in Accounts |-> ofAccount(a)]) + pending

(***************************************************************************)
(* No request loses money: what the accounts hold of a token is at least   *)
(* what was deposited less what was withdrawn.                             *)
(***************************************************************************)
NothingLost == \A t \in Tokens : HeldOnL2(t) >= backing[t]

(***************************************************************************)
(* A match takes from the maker what it gives the taker, as the comment of *)
(* DoReqSecondLimitExchange has it (the taker buys at most                 *)
(* supTakerBuyAmt): what the accounts hold of a token is exactly what was  *)
(* deposited less what was withdrawn.                                      *)
(***************************************************************************)
MoneyConserved == \A t \in Tokens : HeldOnL2(t) = backing[t]

\* The step is an exchange with the order in leaf l.
ExchangesWith(l) ==
    /\ orders[l] # NoOrder /\ orders'[l] # orders[l]
    /\ channel # NoOrder /\ channel' # NoOrder

AtPriceOf(l) ==
    LET maker == orders[l]
        lock == lockedAmt[maker.signer][maker.token]
        sold == lock - lockedAmt'[maker.signer][maker.token]
        bought == channel'.accumulatedSellAmt - channel.accumulatedSellAmt
        leastSold == MatchedSellAmt(maker, SupTakerBuyAmt(maker, channel))
        leastBought == MatchedBuyAmt(channel, SupMakerBuyAmt(maker))
    IN  /\ sold \in leastSold .. RemainSellAmt(maker)
        /\ bought \in leastBought .. RemainSellAmt(channel)
        /\ sold * maker.buyAmt < bought * maker.amount + AmountLimit
        /\ bought * maker.amount < sold * maker.buyAmt + AmountLimit
        /\ sold = leastSold /\ bought = leastBought =>
              /\ sold * maker.buyAmt < bought * maker.amount + maker.amount
              /\ bought * maker.amount < sold * maker.buyAmt + maker.buyAmt

(***************************************************************************)
(* However the orders were filled before, and whatever quotients IntDivide *)
(* is made to accept, an exchange fills neither order further than it      *)
(* still offers nor less than the maker's price gives, rounded down.  The  *)
(* constraints bind the two fills to that price only up to AmountLimit in  *)
(* value; with the quotients of the witness generation they are at the     *)
(* price up to less than one unit of either token.                         *)
(***************************************************************************)
FillsAtMakersPrice == [][\A l \in Leaves : ExchangesWith(l) => AtPriceOf(l)]_vars
=============================================================================
