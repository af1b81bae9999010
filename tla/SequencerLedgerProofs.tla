----------------------- MODULE SequencerLedgerProofs -----------------------
(***************************************************************************)
(* Theorems about the leaves the sequencer writes, for any rows, accounts, *)
(* leaves and block size: they are the ledger of the circuits, request by  *)
(* request, wherever no step says that the two part.                       *)
(***************************************************************************)
EXTENDS SequencerLedger, FiniteSetTheorems, TLAPS

(***************************************************************************)
(* Orders and amounts.                                                     *)
(***************************************************************************)
OpenRows == {o \in OrderRows : o.accumulatedSellAmt <= o.amount}
OpenTakers == {o \in LedgerOrders : o.accumulatedSellAmt <= o.amount}

\* The circuit's order of a row is an order, no more sold.
LEMMA LedgerOrderOf ==
    ASSUME NEW o \in OpenRows
    PROVE  /\ o # NoOrder /\ o # NoRow
           /\ LedgerOrder(o) \in OpenTakers
           /\ LedgerOrder(o).signer = o.signer /\ LedgerOrder(o).token = o.token
           /\ LedgerOrder(o).amount = o.amount /\ LedgerOrder(o).nonce = o.nonce
           /\ LedgerOrder(o).buyToken = o.buyToken /\ LedgerOrder(o).buyAmt = o.buyAmt
           /\ LedgerOrder(o).accumulatedSellAmt = o.accumulatedSellAmt
           /\ LedgerOrder(o).accumulatedBuyAmt = o.accumulatedBuyAmt
<1>1. o \in OrderRows /\ o.accumulatedSellAmt <= o.amount
  BY DEF OpenRows
<1>2. o # NoOrder /\ o # NoRow
  BY <1>1, NoOrderAssumption
<1>3. LedgerOrder(o) =
         [signer |-> o.signer, token |-> o.token, amount |-> o.amount,
          nonce |-> o.nonce, buyToken |-> o.buyToken, buyAmt |-> o.buyAmt,
          accumulatedSellAmt |-> o.accumulatedSellAmt,
          accumulatedBuyAmt |-> o.accumulatedBuyAmt]
  BY <1>2 DEF LedgerOrder
<1>4. LedgerOrder(o) \in LedgerOrders
  BY <1>1, <1>3 DEF OrderRows, LedgerOrders
<1>5. QED
  BY <1>1, <1>2, <1>3, <1>4 DEF OpenTakers

LEMMA NoLedgerOrder == LedgerOrder(NoOrder) = NoOrder /\ LedgerOrder(NoRow) = NoOrder
BY DEF LedgerOrder

\* A quotient of natural numbers is one.
LEMMA Quotient ==
    ASSUME NEW m \in Nat, NEW d \in Nat, d > 0
    PROVE  m \div d \in Nat
OBVIOUS

\* What a match moves is no more than either order has left.
LEMMA MatchedTypes ==
    ASSUME NEW maker \in OpenTakers, NEW taker \in OpenTakers, Ledger!IsMatched(maker, taker),
           NEW sold, sold = Ledger!MatchedSellAmt(maker, Ledger!SupTakerBuyAmt(maker, taker)),
           NEW bought, bought = Ledger!MatchedBuyAmt(taker, Ledger!SupMakerBuyAmt(maker))
    PROVE  /\ sold \in 0 .. maker.amount - maker.accumulatedSellAmt
           /\ bought \in 0 .. taker.amount - taker.accumulatedSellAmt
<1> DEFINE m == maker.amount - maker.accumulatedSellAmt
           t == taker.amount - taker.accumulatedSellAmt
           x == maker.buyAmt
           y == maker.amount
<1>1. m \in Nat /\ t \in Nat /\ x \in Nat /\ y \in Nat /\ x > 0 /\ y > 0
  BY DEF OpenTakers, LedgerOrders, Amounts, Ledger!IsMatched
<1>2. /\ sold = (IF m <= (t * y) \div x THEN m ELSE (t * y) \div x)
      /\ bought = (IF t <= (m * x) \div y THEN t ELSE (m * x) \div y)
  BY DEF Ledger!MatchedSellAmt, Ledger!MatchedBuyAmt, Ledger!Lesser, Ledger!SupTakerBuyAmt,
         Ledger!SupMakerBuyAmt, Ledger!Quotient, Ledger!RemainSellAmt
<1> HIDE DEF m, t, x, y
<1>3. t * y \in Nat /\ m * x \in Nat
  BY <1>1
<1>4. (t * y) \div x \in Nat /\ (m * x) \div y \in Nat
  BY <1>1, <1>3, Quotient
<1>5. sold \in 0 .. m /\ bought \in 0 .. t
  BY <1>1, <1>2, <1>4
<1>6. QED
  BY <1>5 DEF m, t

\* An order that sold and bought some more.
LEMMA FilledIs ==
    ASSUME NEW o \in OpenRows, NEW sold \in Int, NEW bought \in Int,
           o.accumulatedSellAmt + sold \in 0 .. o.amount, o.accumulatedBuyAmt + bought \in Nat
    PROVE  /\ Filled(o, sold, bought) \in OpenRows
           /\ Filled(o, sold, bought).amount = o.amount
           /\ Filled(o, sold, bought).accumulatedSellAmt = o.accumulatedSellAmt + sold
           /\ LedgerOrder(Filled(o, sold, bought)) = Filled(LedgerOrder(o), sold, bought)
<1>1. o \in OrderRows /\ o.amount \in Nat /\ o.accumulatedSellAmt \in Nat /\ o.accumulatedBuyAmt \in Nat
  BY DEF OpenRows, OrderRows, Amounts
<1> DEFINE f == Filled(o, sold, bought)
           x == o.accumulatedSellAmt + sold
           y == o.accumulatedBuyAmt + bought
<1>2. f = [o EXCEPT !.accumulatedSellAmt = x, !.accumulatedBuyAmt = y]
  BY Zenon DEF Filled
<1>3. x \in Nat /\ y \in Nat /\ x <= o.amount
  BY <1>1
<1> HIDE DEF f, x, y
<1>4. /\ f \in OrderRows
       /\ f.signer = o.signer /\ f.token = o.token /\ f.amount = o.amount /\ f.nonce = o.nonce
       /\ f.buyToken = o.buyToken /\ f.buyAmt = o.buyAmt
       /\ f.accumulatedSellAmt = x /\ f.accumulatedBuyAmt = y
  BY <1>1, <1>2, <1>3 DEF OrderRows
<1>5. /\ f \in OrderRows
      /\ f.signer = o.signer /\ f.token = o.token /\ f.amount = o.amount /\ f.nonce = o.nonce
      /\ f.buyToken = o.buyToken /\ f.buyAmt = o.buyAmt
      /\ f.accumulatedSellAmt = o.accumulatedSellAmt + sold
      /\ f.accumulatedBuyAmt = o.accumulatedBuyAmt + bought
      /\ f.accumulatedSellAmt <= f.amount
  BY <1>3, <1>4 DEF x, y
<1>6. f \in OpenRows
  BY <1>1, <1>5 DEF OpenRows
<1> DEFINE g == Filled(LedgerOrder(o), sold, bought)
<1>7. /\ LedgerOrder(o) \in LedgerOrders /\ LedgerOrder(f) \in LedgerOrders
  BY <1>6, LedgerOrderOf DEF OpenTakers
<1>8. /\ g = [LedgerOrder(o) EXCEPT !.accumulatedSellAmt = LedgerOrder(o).accumulatedSellAmt + sold,
                                    !.accumulatedBuyAmt = LedgerOrder(o).accumulatedBuyAmt + bought]
  BY <1>7 DEF Filled, LedgerOrders
<1>9. /\ LedgerOrder(f).signer = LedgerOrder(o).signer /\ LedgerOrder(f).token = LedgerOrder(o).token
      /\ LedgerOrder(f).amount = LedgerOrder(o).amount /\ LedgerOrder(f).nonce = LedgerOrder(o).nonce
      /\ LedgerOrder(f).buyToken = LedgerOrder(o).buyToken
      /\ LedgerOrder(f).buyAmt = LedgerOrder(o).buyAmt
      /\ LedgerOrder(f).accumulatedSellAmt = LedgerOrder(o).accumulatedSellAmt + sold
      /\ LedgerOrder(f).accumulatedBuyAmt = LedgerOrder(o).accumulatedBuyAmt + bought
  BY <1>5, <1>6, LedgerOrderOf
<1> HIDE DEF g
<1>10. LedgerOrder(f) = g
  BY <1>7, <1>8, <1>9 DEF LedgerOrders
<1>11. QED
  BY <1>5, <1>6, <1>10 DEF f, g

\* The taker in the channel sold and bought some more.
LEMMA TakerFilled ==
    ASSUME NEW o \in OpenTakers, NEW sold \in 0 .. o.amount - o.accumulatedSellAmt, NEW bought \in Nat
    PROVE  /\ Ledger!Fill(o, sold, bought) \in OpenTakers
           /\ Ledger!Fill(o, sold, bought).signer = o.signer
           /\ Ledger!Fill(o, sold, bought).token = o.token
           /\ Ledger!Fill(o, sold, bought).amount = o.amount
           /\ Ledger!Fill(o, sold, bought).nonce = o.nonce
           /\ Ledger!Fill(o, sold, bought).buyToken = o.buyToken
           /\ Ledger!Fill(o, sold, bought).buyAmt = o.buyAmt
<1> DEFINE f == Ledger!Fill(o, sold, bought)
           x == o.accumulatedSellAmt + sold
           y == o.accumulatedBuyAmt + bought
<1>1. o \in LedgerOrders /\ x \in Nat /\ y \in Nat /\ x <= o.amount
  BY DEF OpenTakers, LedgerOrders, Amounts
<1>2. f = [o EXCEPT !.accumulatedSellAmt = x, !.accumulatedBuyAmt = y]
  BY Zenon DEF Ledger!Fill
<1> HIDE DEF f, x, y
<1>3. /\ f \in LedgerOrders
      /\ f.signer = o.signer /\ f.token = o.token /\ f.amount = o.amount /\ f.nonce = o.nonce
      /\ f.buyToken = o.buyToken /\ f.buyAmt = o.buyAmt
      /\ f.accumulatedSellAmt = x
  BY <1>1, <1>2 DEF LedgerOrders
<1>4. f \in OpenTakers
  BY <1>1, <1>3 DEF OpenTakers
<1>5. QED
  BY <1>3, <1>4, Zenon DEF f

\* One token of an account changed.
LEMMA TokenUpdated ==
    ASSUME NEW leaf \in [Accounts -> [Tokens -> TokenLeafNode]], NEW a \in Accounts, NEW t \in Tokens,
           NEW x \in Int, NEW y \in Int
    PROVE  LET new == updateAccountToken(leaf, a, t, x, y)
           IN  /\ new \in [Accounts -> [Tokens -> TokenLeafNode]]
               /\ new[a][t].availableAmt = leaf[a][t].availableAmt + x
               /\ new[a][t].lockedAmt = leaf[a][t].lockedAmt + y
               /\ \A b \in Accounts, v \in Tokens : b # a \/ v # t => new[b][v] = leaf[b][v]
BY DEF updateAccountToken, TokenLeafNode

\* The next number's place in its block.
LEMMA NextInBlock ==
    ASSUME NEW n \in Nat
    PROVE  /\ n % NumOfReqs \in 0 .. NumOfReqs - 1
           /\ n % NumOfReqs < NumOfReqs - 1 => (n + 1) % NumOfReqs = (n % NumOfReqs) + 1
           /\ n % NumOfReqs = NumOfReqs - 1 => (n + 1) % NumOfReqs = 0
<1>1. NumOfReqs \in Nat /\ NumOfReqs > 3
  BY SequencerLedgerAssumption
<1> DEFINE N == NumOfReqs
           q == n \div N
           r == n % N
           p == (n + 1) \div N
           s == (n + 1) % N
<1>2. N \in Nat /\ N > 3
  BY <1>1
<1> HIDE DEF N
<1>3. q \in Nat /\ r \in 0 .. N - 1 /\ n = N * q + r
  BY <1>2
<1>4. p \in Nat /\ s \in 0 .. N - 1 /\ n + 1 = N * p + s
  BY <1>2
<1> HIDE DEF q, r, p, s
<1>5. N * p - N * q = N * (p - q)
  BY <1>2, <1>3, <1>4
<1> DEFINE d == p - q
<1>6. d \in Int /\ r + 1 = N * d + s
  BY <1>2, <1>3, <1>4, <1>5
<1> HIDE DEF d
<1>7. N * d \in Int
  BY <1>2, <1>6
<1>8. d <= -1 => N * d <= -N
  BY <1>2, <1>6
<1>9. d >= 2 => N * d >= 2 * N
  BY <1>2, <1>6
<1>10. d = 0 \/ d = 1
  BY <1>2, <1>3, <1>4, <1>6, <1>7, <1>8, <1>9
<1>11. /\ r \in 0 .. N - 1
       /\ r < N - 1 => s = r + 1
       /\ r = N - 1 => s = 0
  <2>1. CASE d = 0
    BY <1>2, <1>3, <1>4, <1>6, <2>1
  <2>2. CASE d = 1
    BY <1>2, <1>3, <1>4, <1>6, <2>2
  <2>3. QED
    BY <1>10, <2>1, <2>2
<1>12. QED
  BY <1>11 DEF N, r, s

(***************************************************************************)
(* The invariant: types; the order held is the one the matcher fills, its  *)
(* leaf free; the leaves not given out yet are free, all of them before    *)
(* the first log; and the NOOPs that will end the block are within the     *)
(* bound on logs.                                                          *)
(***************************************************************************)
MatchType == [leaf : Nat, taker : OpenTakers \cup {NoOrder}, skipped : BOOLEAN]

TypeInv ==
    /\ accountLeaf \in [Accounts -> AccountLeafNode]
    /\ apiNonces \in [Accounts -> Int]
    /\ \A a \in Accounts :
          ~accountLeaf[a].registered => accountLeaf[a].nonce = 0 /\ apiNonces[a] = 0
    /\ tokenLeaf \in [Accounts -> [Tokens -> TokenLeafNode]]
    /\ obsOrderLeaf \in [Leaves -> OpenRows \cup {NoOrder, NoRow}]
    /\ unsaved \in [Leaves -> OpenRows \cup {NoRow}]
    /\ \A l \in Leaves : unsaved[l] # NoRow => IsEmpty(l)
    /\ orderIds \in [next : Nat, counted : BOOLEAN]
    /\ currentHoldTakerOrder \in OpenRows \cup {NoOrder}
    /\ match \in MatchType
    /\ match # NoMatch => match.leaf \in Leaves /\ match.taker \in OpenTakers
    /\ backing \in [Tokens -> Int]
    /\ logs \in Nat /\ rows \in 0 .. MaxRows /\ apiOrders \in 0 .. MaxApiOrders
    /\ fault \in Faults \cup {"none"}

SameOrder(o, p) ==
    /\ o.signer = p.signer /\ o.token = p.token /\ o.amount = p.amount /\ o.nonce = p.nonce
    /\ o.buyToken = p.buyToken /\ o.buyAmt = p.buyAmt

HeldInv ==
    currentHoldTakerOrder # NoOrder =>
        /\ match # NoMatch
        /\ SameOrder(currentHoldTakerOrder, match.taker)
        /\ obsOrderLeaf[match.leaf] = NoOrder /\ unsaved[match.leaf] = NoRow

LeavesInv ==
    fault = "none" =>
        \A l \in Leaves :
            l >= orderIds.next \/ logs = 0 => obsOrderLeaf[l] = NoRow /\ unsaved[l] = NoRow

\* The NOOPs to come in a block that is being ended.
Padding == IF Ending THEN NumOfReqs - (logs % NumOfReqs) ELSE 0
RoomInv == logs + Padding <= 3 * rows

SeqInv == TypeInv /\ HeldInv /\ LeavesInv /\ RoomInv

\* A row finds room for its log, does not end the block with it, and leaves room
\* for the NOOPs that will.
LEMMA RowRoom ==
    ASSUME TypeInv, RoomInv, NextRow, logs' \in {logs, logs + 1}
    PROVE  /\ rows' \in 0 .. MaxRows /\ logs' \in Nat
           /\ RoomInv'
           /\ logs < MaxLogs
           /\ logs' = logs + 1 => logs' % NumOfReqs # 0
<1>1. /\ NumOfReqs \in Nat /\ NumOfReqs > 3 /\ MaxRows \in Nat
      /\ logs \in Nat /\ rows \in 0 .. MaxRows /\ rows < MaxRows /\ rows' = rows + 1
      /\ ~Ending
  BY SequencerLedgerAssumption DEF TypeInv, NextRow
<1> DEFINE r == logs % NumOfReqs
           s == (logs + 1) % NumOfReqs
           u == logs' % NumOfReqs
<1>2. r \in 0 .. NumOfReqs - 1 /\ (r < NumOfReqs - 1 => s = r + 1)
  BY <1>1, NextInBlock
<1>3. r <= NumOfReqs - 3
  BY <1>1, <1>2 DEF Ending
<1>4. s = r + 1
  BY <1>1, <1>2, <1>3
<1>5. logs <= 3 * rows
  BY <1>1 DEF RoomInv, Padding
<1>6. /\ Padding' = (IF u > NumOfReqs - 3 THEN NumOfReqs - u ELSE 0)
      /\ RoomInv' <=> logs' + Padding' <= 3 * rows'
  BY DEF Padding, Ending, RoomInv
<1> HIDE DEF u
<1>7. CASE logs' = logs
  <2>1. u = r
    BY <1>7 DEF u
  <2> HIDE DEF r, s
  <2>2. Padding' = 0
    BY <1>1, <1>2, <1>3, <1>6, <2>1
  <2>3. QED
    BY <1>1, <1>5, <1>6, <1>7, <2>2 DEF MaxLogs
<1>8. CASE logs' = logs + 1
  <2>1. u = r + 1
    BY <1>4, <1>8 DEF u
  <2> HIDE DEF r, s
  <2>2. Padding' \in 0 .. 2 /\ u # 0
    BY <1>1, <1>2, <1>3, <1>6, <2>1
  <2>3. logs' % NumOfReqs # 0
    BY <2>2 DEF u
  <2>4. QED
    BY <1>1, <1>5, <1>6, <1>8, <2>2, <2>3 DEF MaxLogs
<1>9. QED
  BY <1>7, <1>8

\* So does a NOOP, until the block is full.
LEMMA NoopRoom ==
    ASSUME TypeInv, RoomInv, Ending, logs' = logs + 1, rows' = rows
    PROVE  RoomInv' /\ logs < MaxLogs
<1>1. /\ NumOfReqs \in Nat /\ NumOfReqs > 3 /\ MaxRows \in Nat
      /\ logs \in Nat /\ rows \in 0 .. MaxRows
  BY SequencerLedgerAssumption DEF TypeInv
<1> DEFINE r == logs % NumOfReqs
           s == logs' % NumOfReqs
<1>2. /\ r \in 0 .. NumOfReqs - 1
      /\ r < NumOfReqs - 1 => s = r + 1
      /\ r = NumOfReqs - 1 => s = 0
  BY <1>1, NextInBlock
<1>3. r > NumOfReqs - 3 /\ logs + (NumOfReqs - r) <= 3 * rows
  BY DEF Ending, RoomInv, Padding
<1>4. /\ Padding' = (IF s > NumOfReqs - 3 THEN NumOfReqs - s ELSE 0)
      /\ RoomInv' <=> logs' + Padding' <= 3 * rows'
  BY DEF Padding, Ending, RoomInv
<1> HIDE DEF r, s
<1>5. QED
  BY <1>1, <1>2, <1>3, <1>4 DEF MaxLogs

LEMMA InitSeq == Init => SeqInv
<1> SUFFICES ASSUME Init PROVE SeqInv
  OBVIOUS
<1>1. ~Ending /\ Padding = 0
  <2>1. logs = 0 /\ NumOfReqs \in Nat /\ NumOfReqs > 3
    BY SequencerLedgerAssumption DEF Init
  <2>2. 0 % NumOfReqs = 0
    BY <2>1
  <2>3. QED
    BY <2>1, <2>2 DEF Ending, Padding
<1>2. RoomInv
  BY <1>1, SequencerLedgerAssumption DEF Init, RoomInv
<1>3. match \in MatchType /\ match = NoMatch
  BY DEF Init, NoMatch, MatchType
<1>4. TypeInv
  BY <1>3, SequencerLedgerAssumption
     DEF Init, TypeInv, AccountLeafNode, TokenLeafNode, IsEmpty
<1>5. HeldInv /\ LeavesInv
  BY DEF Init, HeldInv, LeavesInv
<1>6. QED
  BY <1>2, <1>4, <1>5 DEF SeqInv

(***************************************************************************)
(* The ledger's state, and its requests in terms of it.                    *)
(***************************************************************************)
Registered == {a \in Accounts : accountLeaf[a].registered}
Nonces == [a \in Accounts |-> NextNonce(a)]
Available == [a \in Accounts |-> [t \in Tokens |-> tokenLeaf[a][t].availableAmt]]
Locked == [a \in Accounts |-> [t \in Tokens |-> tokenLeaf[a][t].lockedAmt]]
OrdersSaved == [l \in Leaves |-> LedgerOrder(LeafOnceSaved(l))]
Channel == IF currentHoldTakerOrder = NoOrder THEN NoOrder ELSE match.taker
AtStart == IF currentHoldTakerOrder = NoOrder THEN [sell |-> 0, buy |-> 0]
           ELSE [sell |-> currentHoldTakerOrder.accumulatedSellAmt,
                 buy |-> currentHoldTakerOrder.accumulatedBuyAmt]

AccountsKept == Registered' = Registered /\ Nonces' = Nonces
TokensKept == Available' = Available /\ Locked' = Locked
OrdersKept == OrdersSaved' = OrdersSaved
MatchKept == Channel' = Channel /\ AtStart' = AtStart

LedgerStutters == UNCHANGED Ledger!vars
LedgerSteps == Ledger!Next \/ fault' # "none" \/ UNCHANGED Ledger!vars

LEMMA Stutters ==
    ASSUME AccountsKept, TokensKept, OrdersKept, MatchKept, logs' = logs, backing' = backing
    PROVE  LedgerSteps
BY DEF LedgerSteps, Ledger!vars, Ledger!accountVars, Ledger!tokenVars, Ledger!matchVars,
       AccountsKept, TokensKept, OrdersKept, MatchKept,
       Registered, Nonces, Available, Locked, OrdersSaved, Channel, AtStart

\* A request outside of a match.
Outside ==
    /\ logs < MaxLogs /\ logs' = logs + 1
    /\ Channel = NoOrder /\ MatchKept

LEMMA OutsideIs == Outside => Ledger!OutsideMatch
BY DEF Outside, MatchKept, Ledger!OutsideMatch, Ledger!InBlock, Ledger!matchVars, Channel, AtStart

LEMMA DepositIs ==
    ASSUME NEW req, Outside, req.account \in Registered,
           Available' = [Available EXCEPT ![req.account][req.token] = @ + req.amount],
           backing' = [backing EXCEPT ![req.token] = @ + req.amount],
           AccountsKept, Locked' = Locked, OrdersKept
    PROVE  Ledger!DoReqDeposit(req)
<1>1. Ledger!OutsideMatch
  BY OutsideIs
<1>2. QED
  BY <1>1 DEF Ledger!DoReqDeposit, Ledger!accountVars, AccountsKept, OrdersKept,
              Registered, Nonces, Available, Locked, OrdersSaved

LEMMA UnknowIs ==
    ASSUME NEW req, Outside, AccountsKept, TokensKept, OrdersKept, backing' = backing
    PROVE  Ledger!DoReqUnknow(req)
<1>1. Ledger!OutsideMatch
  BY OutsideIs
<1>2. QED
  BY <1>1 DEF Ledger!DoReqUnknow, Ledger!accountVars, Ledger!tokenVars, AccountsKept, TokensKept,
              OrdersKept, Registered, Nonces, Available, Locked, OrdersSaved

LEMMA RegisterIs ==
    ASSUME NEW req, Outside, req.account \notin Registered,
           Registered' = Registered \cup {req.account}, Nonces' = Nonces,
           TokensKept, OrdersKept, backing' = backing
    PROVE  Ledger!DoReqRegister(req)
<1>1. Ledger!OutsideMatch
  BY OutsideIs
<1>2. QED
  BY <1>1 DEF Ledger!DoReqRegister, Ledger!tokenVars, TokensKept, OrdersKept,
              Registered, Nonces, Available, Locked, OrdersSaved

LEMMA WithdrawIs ==
    ASSUME NEW req, Outside, req.signer \in Registered,
           req.amount < Available[req.signer][req.token],
           Registered' = Registered, Nonces' = [Nonces EXCEPT ![req.signer] = @ + 1],
           Available' = [Available EXCEPT ![req.signer][req.token] = @ - req.amount],
           backing' = [backing EXCEPT ![req.token] = @ - req.amount],
           Locked' = Locked, OrdersKept
    PROVE  Ledger!DoReqWithdraw(req)
<1>1. Ledger!OutsideMatch
  BY OutsideIs
<1>2. QED
  BY <1>1 DEF Ledger!DoReqWithdraw, Ledger!Sufficient, Ledger!Signed, OrdersKept,
              Registered, Nonces, Available, Locked, OrdersSaved

OrderOf(req, nonce) ==
    [signer |-> req.signer, token |-> req.token, amount |-> req.amount,
     nonce |-> nonce, buyToken |-> req.buyToken, buyAmt |-> req.buyAmt,
     accumulatedSellAmt |-> 0, accumulatedBuyAmt |-> 0]

LEMMA OrderIs ==
    ASSUME NEW req, Outside, req.signer \in Registered,
           OrdersSaved[req.leaf] = NoOrder,
           req.amount < Available[req.signer][req.token],
           OrdersSaved' = [OrdersSaved EXCEPT ![req.leaf] = OrderOf(req, Nonces[req.signer])],
           Registered' = Registered, Nonces' = [Nonces EXCEPT ![req.signer] = @ + 1],
           Available' = [Available EXCEPT ![req.signer][req.token] = @ - req.amount],
           Locked' = [Locked EXCEPT ![req.signer][req.token] = @ + req.amount],
           backing' = backing
    PROVE  Ledger!DoReqSecondLimitOrder(req)
<1>1. Ledger!OutsideMatch
  BY OutsideIs
<1>2. QED
  BY <1>1 DEF Ledger!DoReqSecondLimitOrder, Ledger!LeafIsFree, Ledger!Sufficient, Ledger!Signed,
              Ledger!NewOrder, OrderOf, Registered, Nonces, Available, Locked, OrdersSaved

\* A request of a match, which does not end the block.
Inside == logs < MaxLogs /\ logs' = logs + 1 /\ logs' % NumOfReqs # 0

LEMMA InsideIs == Inside => Ledger!InBlock
BY DEF Inside, Ledger!InBlock

LEMMA StartIs ==
    ASSUME NEW req, Inside, Channel = NoOrder, OrdersSaved[req.leaf] # NoOrder,
           OrdersSaved' = [OrdersSaved EXCEPT ![req.leaf] = NoOrder],
           Channel' = OrdersSaved[req.leaf],
           AtStart' = [sell |-> OrdersSaved[req.leaf].accumulatedSellAmt,
                       buy |-> OrdersSaved[req.leaf].accumulatedBuyAmt],
           AccountsKept, TokensKept, backing' = backing
    PROVE  Ledger!DoReqSecondLimitStart(req)
<1>1. Ledger!InBlock
  BY InsideIs
<1>2. QED
  BY <1>1 DEF Ledger!DoReqSecondLimitStart, Ledger!accountVars, Ledger!tokenVars,
              AccountsKept, TokensKept, Registered, Nonces, Available, Locked, OrdersSaved,
              Channel, AtStart

LEMMA ExchangeIs ==
    ASSUME NEW req, NEW maker, NEW sold, NEW bought, Inside,
           maker = OrdersSaved[req.leaf],
           NEW supMakerBuyAmt \in Ledger!SupMakerBuyAmts(maker, Channel),
           NEW supTakerBuyAmt \in Ledger!SupTakerBuyAmts(maker, Channel),
           sold = Ledger!MatchedSellAmt(maker, supTakerBuyAmt),
           bought = Ledger!MatchedBuyAmt(Channel, supMakerBuyAmt),
           Channel # NoOrder, maker # NoOrder,
           Channel.token = maker.buyToken, Channel.buyToken = maker.token,
           Ledger!IsMatched(maker, Channel),
           OrdersSaved' = [OrdersSaved EXCEPT ![req.leaf] = Ledger!Kept(Ledger!Fill(maker, sold, bought))],
           Available' = [Available EXCEPT ![maker.signer][maker.buyToken] = @ + bought],
           Locked' = [Locked EXCEPT ![maker.signer][maker.token] = @ - sold],
           Channel' = Ledger!Fill(Channel, bought, Ledger!TakerBought(maker)),
           AtStart' = AtStart, AccountsKept, backing' = backing
    PROVE  Ledger!DoReqSecondLimitExchange(req)
<1>1. Ledger!InBlock
  BY InsideIs
<1>2. \E m \in Ledger!SupMakerBuyAmts(maker, Channel) :
      \E n \in Ledger!SupTakerBuyAmts(maker, Channel) :
         /\ OrdersSaved' = [OrdersSaved EXCEPT ![req.leaf] =
                Ledger!Kept(Ledger!Fill(maker, Ledger!MatchedSellAmt(maker, n),
                                        Ledger!MatchedBuyAmt(Channel, m)))]
         /\ Available' = [Available EXCEPT ![maker.signer][maker.buyToken] =
                             @ + Ledger!MatchedBuyAmt(Channel, m)]
         /\ Locked' = [Locked EXCEPT ![maker.signer][maker.token] =
                          @ - Ledger!MatchedSellAmt(maker, n)]
         /\ Channel' = Ledger!Fill(Channel, Ledger!MatchedBuyAmt(Channel, m), Ledger!TakerBought(maker))
  <2>1. /\ OrdersSaved' = [OrdersSaved EXCEPT ![req.leaf] =
                Ledger!Kept(Ledger!Fill(maker, Ledger!MatchedSellAmt(maker, supTakerBuyAmt),
                                        Ledger!MatchedBuyAmt(Channel, supMakerBuyAmt)))]
        /\ Available' = [Available EXCEPT ![maker.signer][maker.buyToken] =
                             @ + Ledger!MatchedBuyAmt(Channel, supMakerBuyAmt)]
        /\ Locked' = [Locked EXCEPT ![maker.signer][maker.token] =
                          @ - Ledger!MatchedSellAmt(maker, supTakerBuyAmt)]
        /\ Channel' = Ledger!Fill(Channel, Ledger!MatchedBuyAmt(Channel, supMakerBuyAmt),
                                  Ledger!TakerBought(maker))
    BY Zenon
  <2>2. QED
    BY <2>1, Zenon
<1>3. PICK m \in Ledger!SupMakerBuyAmts(maker, Channel) :
      \E n \in Ledger!SupTakerBuyAmts(maker, Channel) :
         /\ OrdersSaved' = [OrdersSaved EXCEPT ![req.leaf] =
                Ledger!Kept(Ledger!Fill(maker, Ledger!MatchedSellAmt(maker, n),
                                        Ledger!MatchedBuyAmt(Channel, m)))]
         /\ Available' = [Available EXCEPT ![maker.signer][maker.buyToken] =
                             @ + Ledger!MatchedBuyAmt(Channel, m)]
         /\ Locked' = [Locked EXCEPT ![maker.signer][maker.token] =
                          @ - Ledger!MatchedSellAmt(maker, n)]
         /\ Channel' = Ledger!Fill(Channel, Ledger!MatchedBuyAmt(Channel, m), Ledger!TakerBought(maker))
  BY <1>2, Zenon
<1>4. QED
  BY <1>1, <1>3, Zenon
     DEF Ledger!DoReqSecondLimitExchange, Ledger!accountVars,
         AccountsKept, Registered, Nonces, Available, Locked, OrdersSaved, Channel, AtStart

LEMMA EndIs ==
    ASSUME NEW req, Inside, Channel # NoOrder, OrdersSaved[req.leaf] = NoOrder,
           OrdersSaved' = [OrdersSaved EXCEPT ![req.leaf] = Ledger!Kept(Channel)],
           Available' = [Available EXCEPT ![Channel.signer][Channel.buyToken] =
                                              @ + (Channel.accumulatedBuyAmt - AtStart.buy)],
           Locked' = [Locked EXCEPT ![Channel.signer][Channel.token] =
                                        @ - (Channel.accumulatedSellAmt - AtStart.sell)],
           Channel' = NoOrder, AtStart' = [sell |-> 0, buy |-> 0],
           AccountsKept, backing' = backing
    PROVE  Ledger!DoReqSecondLimitEnd(req)
<1>1. Ledger!InBlock
  BY InsideIs
<1>2. QED
  BY <1>1, Zenon
     DEF Ledger!DoReqSecondLimitEnd, Ledger!LeafIsFree, Ledger!TakerBuyAmt, Ledger!TakerSellAmt,
         Ledger!None, Ledger!accountVars,
         AccountsKept, Registered, Nonces, Available, Locked, OrdersSaved, Channel, AtStart

\* The rows' requests are the ledger's; an order's with any leaf.
LEMMA RequestsAre ==
    /\ \A type \in {"Register", "Deposit", "Withdraw", "SecondLimitStart", "SecondLimitExchange",
                    "SecondLimitEnd"} : RowTypes(type) \subseteq Ledger!OfType(type)
    /\ [reqType |-> "Unknow"] \in Ledger!OfType("Unknow")
    /\ \A req \in RowTypes("SecondLimitOrder"), l \in Leaves :
          WithLeaf(req, l) \in Ledger!OfType("SecondLimitOrder")
<1>1. ASSUME NEW type \in {"Register", "Deposit", "Withdraw", "SecondLimitStart",
                           "SecondLimitExchange", "SecondLimitEnd"}
      PROVE  RowTypes(type) \subseteq Ledger!OfType(type)
  BY DEF RowTypes, Ledger!OfType, LedgerRequests
<1>2. [reqType |-> "Unknow"] \in Ledger!OfType("Unknow")
  BY DEF Ledger!OfType, LedgerRequests
<1>3. ASSUME NEW req \in RowTypes("SecondLimitOrder"), NEW l \in Leaves
      PROVE  WithLeaf(req, l) \in Ledger!OfType("SecondLimitOrder")
  <2>1. WithLeaf(req, l) \in LedgerRequests
    BY DEF LedgerRequests
  <2>2. WithLeaf(req, l).reqType = "SecondLimitOrder"
    BY DEF RowTypes, WithLeaf
  <2>3. QED
    BY <2>1, <2>2 DEF Ledger!OfType
<1>4. QED
  BY <1>1, <1>2, <1>3

LEMMA RowsAre ==
    /\ \A req \in RowTypes("Register") : req.account \in Accounts
    /\ \A req \in RowTypes("Deposit") :
          req.account \in Accounts /\ req.token \in Tokens /\ req.amount \in Nat
    /\ \A req \in RowTypes("Withdraw") :
          req.signer \in Accounts /\ req.token \in Tokens /\ req.amount \in Nat
    /\ \A req \in RowTypes("SecondLimitOrder") :
          /\ req.signer \in Accounts /\ req.token \in Tokens
          /\ req.amount \in Amounts /\ req.amount \in Nat
          /\ req.buyToken \in Tokens /\ req.buyAmt \in Amounts
    /\ \A type \in {"SecondLimitStart", "SecondLimitExchange", "SecondLimitEnd"} :
          \A req \in RowTypes(type) : req.leaf \in Leaves
BY SequencerLedgerAssumption DEF RowTypes, RowRequests, Amounts

(***************************************************************************)
(* What the updates of the leaves do to the ledger's state.                *)
(***************************************************************************)

\* Amounts that differ in one token of one account, or not at all.
Differs(F, G, a, t, x) ==
    /\ G[a][t] = F[a][t] + x
    /\ \A b \in Accounts, v \in Tokens : b # a \/ v # t => G[b][v] = F[b][v]

Changed(F, G, a, t, x) == G = [F EXCEPT ![a][t] = @ + x] /\ (x = 0 => G = F)

LEMMA AmountChanged ==
    ASSUME NEW F \in [Accounts -> [Tokens -> Int]], NEW G \in [Accounts -> [Tokens -> Int]],
           NEW a \in Accounts, NEW t \in Tokens, NEW x \in Int, Differs(F, G, a, t, x)
    PROVE  Changed(F, G, a, t, x)
<1> USE DEF Differs
<1>1. \A b \in Accounts : b # a => G[b] = F[b]
  <2>1. TAKE b \in Accounts
  <2>2. HAVE b # a
  <2>3. G[b] \in [Tokens -> Int] /\ F[b] \in [Tokens -> Int]
    OBVIOUS
  <2>4. \A v \in Tokens : G[b][v] = F[b][v]
    BY <2>2
  <2>5. QED
    BY <2>3, <2>4
<1>2. G[a] \in [Tokens -> Int] /\ F[a] \in [Tokens -> Int]
  OBVIOUS
<1>3. G[a] = [F[a] EXCEPT ![t] = @ + x]
  BY <1>2
<1>4. G = [F EXCEPT ![a][t] = @ + x]
  BY <1>1, <1>3
<1>5. ASSUME x = 0 PROVE G = F
  <2>1. F[a][t] \in Int
    OBVIOUS
  <2>2. G[a][t] = F[a][t]
    BY <1>5, <2>1
  <2>3. \A v \in Tokens : G[a][v] = F[a][v]
    BY <2>2
  <2>4. G[a] = F[a]
    BY <1>2, <2>3
  <2>5. QED
    BY <1>1, <2>4
<1>6. QED
  BY <1>4, <1>5, Zenon DEF Changed

\* The amounts of a leaf.
AvailableOf(leaf) == [a \in Accounts |-> [t \in Tokens |-> leaf[a][t].availableAmt]]
LockedOf(leaf) == [a \in Accounts |-> [t \in Tokens |-> leaf[a][t].lockedAmt]]

LEMMA AmountsOf ==
    ASSUME NEW leaf \in [Accounts -> [Tokens -> TokenLeafNode]]
    PROVE  /\ AvailableOf(leaf) \in [Accounts -> [Tokens -> Int]]
           /\ LockedOf(leaf) \in [Accounts -> [Tokens -> Int]]
           /\ \A a \in Accounts, t \in Tokens :
                 /\ AvailableOf(leaf)[a][t] = leaf[a][t].availableAmt
                 /\ LockedOf(leaf)[a][t] = leaf[a][t].lockedAmt
BY DEF AvailableOf, LockedOf, TokenLeafNode

\* Of leaf after account a's token t changed by x and y.
TokenChanged(leaf, new, a, t, x, y) ==
    /\ new \in [Accounts -> [Tokens -> TokenLeafNode]]
    /\ AvailableOf(new) = [AvailableOf(leaf) EXCEPT ![a][t] = @ + x]
    /\ LockedOf(new) = [LockedOf(leaf) EXCEPT ![a][t] = @ + y]
    /\ x = 0 => AvailableOf(new) = AvailableOf(leaf)
    /\ y = 0 => LockedOf(new) = LockedOf(leaf)

LEMMA OneTokenOf ==
    ASSUME NEW leaf \in [Accounts -> [Tokens -> TokenLeafNode]],
           NEW a \in Accounts, NEW t \in Tokens, NEW x \in Int, NEW y \in Int
    PROVE  TokenChanged(leaf, updateAccountToken(leaf, a, t, x, y), a, t, x, y)
<1> DEFINE new == updateAccountToken(leaf, a, t, x, y)
           F == AvailableOf(leaf)
           G == AvailableOf(new)
           H == LockedOf(leaf)
           K == LockedOf(new)
<1>1. /\ new \in [Accounts -> [Tokens -> TokenLeafNode]]
      /\ new[a][t].availableAmt = leaf[a][t].availableAmt + x
      /\ new[a][t].lockedAmt = leaf[a][t].lockedAmt + y
      /\ \A b \in Accounts, v \in Tokens : b # a \/ v # t => new[b][v] = leaf[b][v]
  BY TokenUpdated
<1> HIDE DEF new
<1>2. /\ F \in [Accounts -> [Tokens -> Int]] /\ H \in [Accounts -> [Tokens -> Int]]
      /\ \A b \in Accounts, v \in Tokens :
            F[b][v] = leaf[b][v].availableAmt /\ H[b][v] = leaf[b][v].lockedAmt
  BY AmountsOf, Zenon
<1>3. /\ G \in [Accounts -> [Tokens -> Int]] /\ K \in [Accounts -> [Tokens -> Int]]
      /\ \A b \in Accounts, v \in Tokens :
            G[b][v] = new[b][v].availableAmt /\ K[b][v] = new[b][v].lockedAmt
  BY <1>1, AmountsOf, Zenon
<1> HIDE DEF F, G, H, K
<1>4. G[a][t] = F[a][t] + x /\ K[a][t] = H[a][t] + y
  BY <1>1, <1>2, <1>3, Zenon
<1>5. ASSUME NEW b \in Accounts, NEW v \in Tokens, b # a \/ v # t
      PROVE  G[b][v] = F[b][v] /\ K[b][v] = H[b][v]
  <2>1. new[b][v] = leaf[b][v]
    BY <1>1, <1>5
  <2>2. F[b][v] = leaf[b][v].availableAmt /\ H[b][v] = leaf[b][v].lockedAmt
    BY <1>2
  <2>3. G[b][v] = new[b][v].availableAmt /\ K[b][v] = new[b][v].lockedAmt
    BY <1>3
  <2>4. QED
    BY <2>1, <2>2, <2>3, Zenon
<1>6. Differs(F, G, a, t, x) /\ Differs(H, K, a, t, y)
  BY <1>4, <1>5, Zenon DEF Differs
<1>7. Changed(F, G, a, t, x)
  BY <1>2, <1>3, <1>6, AmountChanged
<1>8. Changed(H, K, a, t, y)
  BY <1>2, <1>3, <1>6, AmountChanged
<1>9. TokenChanged(leaf, new, a, t, x, y)
  BY <1>1, <1>7, <1>8, Zenon DEF F, G, H, K, TokenChanged, Changed
<1>10. QED
  BY <1>9 DEF new

LEMMA TokenState ==
    /\ Available = AvailableOf(tokenLeaf) /\ Available' = AvailableOf(tokenLeaf')
    /\ Locked = LockedOf(tokenLeaf) /\ Locked' = LockedOf(tokenLeaf')
BY DEF Available, AvailableOf, Locked, LockedOf

LEMMA OneToken ==
    ASSUME TypeInv, NEW a \in Accounts, NEW t \in Tokens, NEW x \in Int, NEW y \in Int,
           tokenLeaf' = updateAccountToken(tokenLeaf, a, t, x, y)
    PROVE  /\ tokenLeaf' \in [Accounts -> [Tokens -> TokenLeafNode]]
           /\ Available' = [Available EXCEPT ![a][t] = @ + x]
           /\ Locked' = [Locked EXCEPT ![a][t] = @ + y]
           /\ y = 0 => Locked' = Locked
<1>1. tokenLeaf \in [Accounts -> [Tokens -> TokenLeafNode]]
  BY DEF TypeInv
<1>2. TokenChanged(tokenLeaf, updateAccountToken(tokenLeaf, a, t, x, y), a, t, x, y)
  BY <1>1, OneTokenOf
<1>3. TokenChanged(tokenLeaf, tokenLeaf', a, t, x, y)
  BY <1>2, Zenon
<1>4. QED
  BY <1>3, TokenState, Zenon DEF TokenChanged

\* Of an exchange and an end: what is bought, then what is sold.
TwoTokensChanged(a, t, u, x, y) ==
    /\ tokenLeaf' \in [Accounts -> [Tokens -> TokenLeafNode]]
    /\ Available' = [Available EXCEPT ![a][t] = @ + x]
    /\ Locked' = [Locked EXCEPT ![a][u] = @ - y]

LEMMA TwoTokens ==
    ASSUME TypeInv, NEW between, NEW a \in Accounts, NEW t \in Tokens, NEW u \in Tokens,
           NEW x \in Int, NEW y \in Int,
           between = updateAccountToken(tokenLeaf, a, t, x, 0),
           tokenLeaf' = updateAccountToken(between, a, u, 0, -y)
    PROVE  TwoTokensChanged(a, t, u, x, y)
<1>1. tokenLeaf \in [Accounts -> [Tokens -> TokenLeafNode]] /\ -y \in Int
  BY DEF TypeInv
<1>2. TokenChanged(tokenLeaf, updateAccountToken(tokenLeaf, a, t, x, 0), a, t, x, 0)
  BY <1>1, OneTokenOf
<1>3. TokenChanged(tokenLeaf, between, a, t, x, 0)
  BY <1>2, Zenon
<1>4. between \in [Accounts -> [Tokens -> TokenLeafNode]]
  BY <1>3, Zenon DEF TokenChanged
<1>5. TokenChanged(between, updateAccountToken(between, a, u, 0, -y), a, u, 0, -y)
  BY <1>1, <1>4, OneTokenOf
<1>6. TokenChanged(between, tokenLeaf', a, u, 0, -y)
  BY <1>5, Zenon
<1>7. LockedOf(tokenLeaf) \in [Accounts -> [Tokens -> Int]]
  BY <1>1, AmountsOf
<1>8. LockedOf(tokenLeaf)[a][u] + (-y) = LockedOf(tokenLeaf)[a][u] - y
  BY <1>7
<1>9. LockedOf(tokenLeaf') = [LockedOf(tokenLeaf) EXCEPT ![a][u] = @ - y]
  BY <1>3, <1>6, <1>8, Zenon DEF TokenChanged
<1>10. QED
  BY <1>3, <1>6, <1>9, TokenState, Zenon DEF TokenChanged, TwoTokensChanged

AccountTypes ==
    /\ accountLeaf \in [Accounts -> AccountLeafNode]
    /\ apiNonces \in [Accounts -> Int]
    /\ \A a \in Accounts :
          ~accountLeaf[a].registered => accountLeaf[a].nonce = 0 /\ apiNonces[a] = 0

LEMMA OneNonce ==
    ASSUME TypeInv, NEW a \in Accounts, accountLeaf[a].registered, accountLeaf' = updateAccountNonce(a),
           apiNonces' = apiNonces
    PROVE  /\ AccountTypes'
           /\ a \in Registered /\ Registered' = Registered
           /\ Nonces' = [Nonces EXCEPT ![a] = @ + 1]
<1>1. /\ accountLeaf \in [Accounts -> AccountLeafNode]
      /\ apiNonces \in [Accounts -> Int]
      /\ \A b \in Accounts :
            ~accountLeaf[b].registered => accountLeaf[b].nonce = 0 /\ apiNonces[b] = 0
      /\ accountLeaf' = [accountLeaf EXCEPT ![a].nonce = @ + 1]
  BY DEF TypeInv, updateAccountNonce
<1>2. accountLeaf' \in [Accounts -> AccountLeafNode]
  BY <1>1 DEF AccountLeafNode
<1>3. /\ \A b \in Accounts : accountLeaf'[b].registered = accountLeaf[b].registered
      /\ \A b \in Accounts : b # a => accountLeaf'[b].nonce = accountLeaf[b].nonce
      /\ accountLeaf'[a].nonce = accountLeaf[a].nonce + 1
  BY <1>1 DEF AccountLeafNode
<1>4. AccountTypes'
  BY <1>1, <1>2, <1>3 DEF AccountTypes
<1>5. Registered' = Registered /\ a \in Registered
  BY <1>3 DEF Registered
<1>6. Nonces' = [Nonces EXCEPT ![a] = @ + 1]
  <2>1. \A b \in Accounts : accountLeaf[b].nonce \in Int /\ apiNonces[b] \in Int
    BY <1>1 DEF AccountLeafNode
  <2>2. /\ (accountLeaf[a].nonce + 1) - apiNonces[a] = (accountLeaf[a].nonce - apiNonces[a]) + 1
    BY <2>1
  <2>3. Nonces' = [b \in Accounts |-> accountLeaf'[b].nonce - apiNonces[b]]
    BY DEF Nonces, NextNonce
  <2>4. Nonces = [b \in Accounts |-> accountLeaf[b].nonce - apiNonces[b]]
    BY DEF Nonces, NextNonce
  <2>5. QED
    BY <1>3, <2>2, <2>3, <2>4
<1>7. QED
  BY <1>4, <1>5, <1>6

LeafTypes ==
    /\ obsOrderLeaf \in [Leaves -> OpenRows \cup {NoOrder, NoRow}]
    /\ unsaved \in [Leaves -> OpenRows \cup {NoRow}]
    /\ \A l \in Leaves : unsaved[l] # NoRow => IsEmpty(l)

\* A leaf without a write on its way is written.
LEMMA LeafWritten ==
    ASSUME TypeInv, NEW l \in Leaves, NEW order \in OpenRows \cup {NoOrder},
           obsOrderLeaf' = [obsOrderLeaf EXCEPT ![l] = order], unsaved' = unsaved, unsaved[l] = NoRow
    PROVE  /\ LeafTypes'
           /\ OrdersSaved' = [OrdersSaved EXCEPT ![l] = LedgerOrder(order)]
           /\ obsOrderLeaf'[l] = order
           /\ \A k \in Leaves : k # l => obsOrderLeaf'[k] = obsOrderLeaf[k]
<1>1. LeafTypes
  BY DEF TypeInv, LeafTypes
<1>2. /\ obsOrderLeaf'[l] = order
      /\ \A k \in Leaves : k # l => obsOrderLeaf'[k] = obsOrderLeaf[k]
  BY <1>1 DEF LeafTypes
<1>3. LeafTypes'
  BY <1>1, <1>2 DEF LeafTypes, IsEmpty
<1>4. OrdersSaved' = [k \in Leaves |-> LedgerOrder(LeafOnceSaved(k)')]
  BY DEF OrdersSaved, LedgerOrder
<1>5. /\ LeafOnceSaved(l)' = order
      /\ \A k \in Leaves : k # l => LeafOnceSaved(k)' = LeafOnceSaved(k)
  BY <1>2 DEF LeafOnceSaved
<1>6. OrdersSaved' = [OrdersSaved EXCEPT ![l] = LedgerOrder(order)]
  BY <1>4, <1>5 DEF OrdersSaved
<1>7. QED
  BY <1>2, <1>3, <1>6

\* The write is on its way to an empty leaf.
LEMMA LeafPending ==
    ASSUME TypeInv, NEW l \in Leaves, NEW order \in OpenRows, IsEmpty(l),
           unsaved' = [unsaved EXCEPT ![l] = order], obsOrderLeaf' = obsOrderLeaf
    PROVE  /\ LeafTypes'
           /\ OrdersSaved' = [OrdersSaved EXCEPT ![l] = LedgerOrder(order)]
           /\ \A k \in Leaves : k # l => unsaved'[k] = unsaved[k]
<1>1. LeafTypes /\ order # NoRow
  BY LedgerOrderOf DEF TypeInv, LeafTypes
<1>2. /\ unsaved'[l] = order
      /\ \A k \in Leaves : k # l => unsaved'[k] = unsaved[k]
  BY <1>1 DEF LeafTypes
<1>3. LeafTypes'
  BY <1>1, <1>2 DEF LeafTypes, IsEmpty
<1>4. OrdersSaved' = [k \in Leaves |-> LedgerOrder(LeafOnceSaved(k)')]
  BY DEF OrdersSaved, LedgerOrder
<1>5. /\ LeafOnceSaved(l)' = order
      /\ \A k \in Leaves : k # l => LeafOnceSaved(k)' = LeafOnceSaved(k)
  BY <1>1, <1>2 DEF LeafOnceSaved
<1>6. OrdersSaved' = [OrdersSaved EXCEPT ![l] = LedgerOrder(order)]
  BY <1>4, <1>5 DEF OrdersSaved
<1>7. QED
  BY <1>2, <1>3, <1>6

\* What is read of a leaf that is not empty is what is saved.
LEMMA LeafRead ==
    ASSUME TypeInv, NEW l \in Leaves
    PROVE  /\ ~IsEmpty(l) => /\ obsOrderLeaf[l] \in OpenRows /\ unsaved[l] = NoRow
                             /\ LeafOnceSaved(l) = obsOrderLeaf[l]
           /\ OrdersSaved[l] = LedgerOrder(LeafOnceSaved(l))
           /\ OrdersSaved[l] # NoOrder => LeafOnceSaved(l) \in OpenRows /\ OrdersSaved[l] \in OpenTakers
<1>1. LeafTypes
  BY DEF TypeInv, LeafTypes
<1>2. ~IsEmpty(l) => /\ obsOrderLeaf[l] \in OpenRows /\ unsaved[l] = NoRow
                     /\ LeafOnceSaved(l) = obsOrderLeaf[l]
  BY <1>1 DEF LeafTypes, IsEmpty, LeafOnceSaved
<1>3. OrdersSaved[l] = LedgerOrder(LeafOnceSaved(l))
  BY DEF OrdersSaved
<1>4. LeafOnceSaved(l) \in OpenRows \cup {NoOrder, NoRow}
  BY <1>1 DEF LeafTypes, LeafOnceSaved
<1>5. OrdersSaved[l] # NoOrder => LeafOnceSaved(l) \in OpenRows
  BY <1>3, <1>4, NoLedgerOrder
<1>6. OrdersSaved[l] # NoOrder => OrdersSaved[l] \in OpenTakers
  BY <1>3, <1>5, LedgerOrderOf
<1>7. QED
  BY <1>2, <1>3, <1>5, <1>6

(***************************************************************************)
(* Every action keeps the invariant, and is a step of the ledger, or none, *)
(* or says how the two part.                                               *)
(***************************************************************************)
TokenTypes == tokenLeaf \in [Accounts -> [Tokens -> TokenLeafNode]]

MatchTypes ==
    /\ currentHoldTakerOrder \in OpenRows \cup {NoOrder}
    /\ match \in MatchType
    /\ match # NoMatch => match.leaf \in Leaves /\ match.taker \in OpenTakers

CountTypes ==
    /\ orderIds \in [next : Nat, counted : BOOLEAN]
    /\ backing \in [Tokens -> Int]
    /\ logs \in Nat /\ rows \in 0 .. MaxRows /\ apiOrders \in 0 .. MaxApiOrders
    /\ fault \in Faults \cup {"none"}

LEMMA TypeParts == TypeInv <=> AccountTypes /\ TokenTypes /\ LeafTypes /\ MatchTypes /\ CountTypes
BY DEF TypeInv, AccountTypes, TokenTypes, LeafTypes, MatchTypes, CountTypes

\* Leaves that are left alone.
LEMMA Untouched ==
    ASSUME TypeInv
    PROVE  /\ accountLeaf' = accountLeaf /\ apiNonces' = apiNonces => AccountTypes' /\ AccountsKept
           /\ tokenLeaf' = tokenLeaf => TokenTypes' /\ TokensKept
           /\ obsOrderLeaf' = obsOrderLeaf /\ unsaved' = unsaved => LeafTypes' /\ OrdersKept
<1>1. ASSUME accountLeaf' = accountLeaf, apiNonces' = apiNonces
      PROVE  AccountTypes' /\ AccountsKept
  BY <1>1, TypeParts DEF AccountTypes, AccountsKept, Registered, Nonces, NextNonce
<1>2. ASSUME tokenLeaf' = tokenLeaf PROVE TokenTypes' /\ TokensKept
  BY <1>2, TypeParts DEF TokenTypes, TokensKept, Available, Locked
<1>3. ASSUME obsOrderLeaf' = obsOrderLeaf, unsaved' = unsaved PROVE LeafTypes' /\ OrdersKept
  BY <1>3, TypeParts DEF LeafTypes, OrdersKept, OrdersSaved, LeafOnceSaved, IsEmpty
<1>4. QED
  BY <1>1, <1>2, <1>3

\* A row that is not of a match.
LEMMA UserFrame ==
    ASSUME SeqInv, UserRow, logs' \in {logs, logs + 1}
    PROVE  /\ fault = "none" /\ currentHoldTakerOrder = NoOrder
           /\ MatchTypes' /\ MatchKept /\ HeldInv' /\ RoomInv'
           /\ logs' \in Nat /\ rows' \in 0 .. MaxRows
           /\ apiNonces' = apiNonces /\ apiOrders' = apiOrders
           /\ logs' = logs + 1 => Outside
<1>1. /\ NextRow /\ fault = "none" /\ match = NoMatch
      /\ match' = match /\ currentHoldTakerOrder' = currentHoldTakerOrder
      /\ apiNonces' = apiNonces /\ apiOrders' = apiOrders
  BY DEF UserRow, NextRow, api
<1>2. currentHoldTakerOrder = NoOrder
  BY <1>1 DEF SeqInv, HeldInv
<1>3. MatchTypes' /\ MatchKept /\ HeldInv'
  BY <1>1, <1>2, TypeParts DEF SeqInv, MatchTypes, MatchKept, Channel, AtStart, HeldInv
<1>4. RoomInv' /\ logs' \in Nat /\ rows' \in 0 .. MaxRows /\ logs < MaxLogs
  BY <1>1, RowRoom DEF SeqInv
<1>5. logs' = logs + 1 => Outside
  BY <1>2, <1>3, <1>4 DEF Outside, Channel
<1>6. QED
  BY <1>1, <1>2, <1>3, <1>4, <1>5

\* The order leaves and their ids, if the row leaves them alone.
LEMMA NoOrderFrame ==
    ASSUME SeqInv, NoOrderWritten, fault' = fault \/ fault' # "none", logs' = logs + 1
    PROVE  LeavesInv'
BY DEF SeqInv, LeavesInv, NoOrderWritten, TypeInv

LEMMA RegisterStep ==
    ASSUME SeqInv, NEW req \in RowTypes("Register"), DoRegister(req)
    PROVE  SeqInv' /\ LedgerSteps
<1>1. /\ UserRow /\ req.account \in Accounts
      /\ accountLeaf' = [accountLeaf EXCEPT ![req.account] = [registered |-> TRUE, nonce |-> 0]]
      /\ logs' = logs + 1 /\ NoOrderWritten /\ tokenLeaf' = tokenLeaf /\ backing' = backing
      /\ fault' = (IF accountLeaf[req.account].registered THEN "run twice" ELSE "none")
  BY RowsAre DEF DoRegister, addTxLogs
<1>2. TypeInv /\ obsOrderLeaf' = obsOrderLeaf /\ unsaved' = unsaved /\ orderIds' = orderIds
  BY <1>1 DEF SeqInv, NoOrderWritten
<1>3. /\ fault = "none" /\ MatchTypes' /\ HeldInv' /\ RoomInv' /\ Outside
      /\ logs' \in Nat /\ rows' \in 0 .. MaxRows
      /\ apiNonces' = apiNonces /\ apiOrders' = apiOrders
  BY <1>1, <1>2, UserFrame
<1>4. TokenTypes' /\ TokensKept /\ LeafTypes' /\ OrdersKept /\ LeavesInv'
  BY <1>1, <1>2, <1>3, Untouched, NoOrderFrame
<1>5. AccountTypes
  BY <1>2, TypeParts
<1>6. /\ AccountTypes'
      /\ \A a \in Accounts : a # req.account => accountLeaf'[a] = accountLeaf[a]
      /\ accountLeaf'[req.account].registered /\ accountLeaf'[req.account].nonce = 0
  BY <1>1, <1>3, <1>5 DEF AccountTypes, AccountLeafNode
<1>7. CountTypes'
  BY <1>1, <1>2, <1>3 DEF TypeInv, CountTypes, Faults
<1>8. SeqInv'
  BY <1>3, <1>4, <1>6, <1>7, TypeParts, PTL DEF SeqInv
<1>9. CASE accountLeaf[req.account].registered
  BY <1>1, <1>8, <1>9 DEF LedgerSteps
<1>10. CASE ~accountLeaf[req.account].registered
  <2>1. Registered' = Registered \cup {req.account} /\ req.account \notin Registered
    BY <1>1, <1>6, <1>10 DEF Registered
  <2>2. accountLeaf[req.account].nonce = 0
    BY <1>1, <1>5, <1>10 DEF AccountTypes
  <2>3. \A a \in Accounts : accountLeaf'[a].nonce = accountLeaf[a].nonce
    BY <1>6, <2>2
  <2>4. Nonces' = Nonces
    BY <1>3, <2>3 DEF Nonces, NextNonce
  <2>5. Ledger!DoReqRegister(req)
    BY <1>1, <1>3, <1>4, <2>1, <2>4, RegisterIs
  <2>6. QED
    BY <1>8, <2>5, RequestsAre DEF LedgerSteps, Ledger!Next
<1>11. QED
  BY <1>9, <1>10

LEMMA BackingChanged ==
    ASSUME TypeInv, NEW t \in Tokens, NEW x \in Int,
           backing' = [backing EXCEPT ![t] = @ + x] \/ backing' = [backing EXCEPT ![t] = @ - x]
    PROVE  backing' \in [Tokens -> Int]
BY DEF TypeInv

LEMMA DepositStep ==
    ASSUME SeqInv, NEW req \in RowTypes("Deposit"), DoDeposit(req)
    PROVE  SeqInv' /\ LedgerSteps
<1>1. /\ UserRow /\ accountLeaf[req.account].registered
      /\ req.account \in Accounts /\ req.token \in Tokens /\ req.amount \in Int /\ 0 \in Int
      /\ tokenLeaf' = updateAccountToken(tokenLeaf, req.account, req.token, req.amount, 0)
      /\ backing' = [backing EXCEPT ![req.token] = @ + req.amount]
      /\ logs' = logs + 1 /\ NoOrderWritten /\ accountLeaf' = accountLeaf /\ fault' = fault
  BY RowsAre DEF DoDeposit, addTxLogs
<1>2. TypeInv /\ obsOrderLeaf' = obsOrderLeaf /\ unsaved' = unsaved /\ orderIds' = orderIds
  BY <1>1 DEF SeqInv, NoOrderWritten
<1>3. /\ fault = "none" /\ MatchTypes' /\ HeldInv' /\ RoomInv' /\ Outside
      /\ logs' \in Nat /\ rows' \in 0 .. MaxRows
      /\ apiNonces' = apiNonces /\ apiOrders' = apiOrders
  BY <1>1, UserFrame
<1>4. AccountTypes' /\ AccountsKept /\ LeafTypes' /\ OrdersKept /\ LeavesInv'
  BY <1>1, <1>2, <1>3, Untouched, NoOrderFrame
<1>5. /\ TokenTypes' /\ Locked' = Locked
      /\ Available' = [Available EXCEPT ![req.account][req.token] = @ + req.amount]
  BY <1>1, <1>2, OneToken DEF TokenTypes
<1>6. CountTypes'
  BY <1>1, <1>2, <1>3, BackingChanged DEF TypeInv, CountTypes
<1>7. SeqInv'
  BY <1>3, <1>4, <1>5, <1>6, TypeParts, PTL DEF SeqInv
<1>8. req.account \in Registered
  BY <1>1 DEF Registered
<1>9. Ledger!DoReqDeposit(req)
  BY <1>1, <1>3, <1>4, <1>5, <1>8, DepositIs
<1>10. LedgerSteps
  BY <1>9, RequestsAre DEF LedgerSteps, Ledger!Next
<1>11. QED
  BY <1>7, <1>10

\* A row that throws before it changes anything.
LEMMA Skipped ==
    ASSUME SeqInv, NextRow, SkipRow,
           MatchTypes', HeldInv', MatchKept
    PROVE  SeqInv' /\ LedgerSteps
<1>1. /\ accountLeaf' = accountLeaf /\ tokenLeaf' = tokenLeaf
      /\ obsOrderLeaf' = obsOrderLeaf /\ unsaved' = unsaved /\ orderIds' = orderIds
      /\ logs' = logs /\ backing' = backing /\ fault' = fault
      /\ apiNonces' = apiNonces /\ apiOrders' = apiOrders
  BY DEF SkipRow, leaves, NextRow, api
<1>2. TypeInv
  BY DEF SeqInv
<1>3. /\ AccountTypes' /\ AccountsKept /\ TokenTypes' /\ TokensKept /\ LeafTypes' /\ OrdersKept
  BY <1>1, <1>2, Untouched
<1>4. LeavesInv'
  BY <1>1 DEF SeqInv, LeavesInv
<1>5. RoomInv' /\ rows' \in 0 .. MaxRows
  BY <1>1, RowRoom DEF SeqInv
<1>6. CountTypes'
  BY <1>1, <1>2, <1>5 DEF TypeInv, CountTypes
<1>7. SeqInv'
  BY <1>3, <1>4, <1>5, <1>6, TypeParts, PTL DEF SeqInv
<1>8. QED
  BY <1>1, <1>3, <1>7, Stutters

LEMMA DepositSkipped ==
    ASSUME SeqInv, NEW req, SkipDeposit(req)
    PROVE  SeqInv' /\ LedgerSteps
<1>1. UserRow /\ NextRow /\ SkipRow /\ logs' = logs
  BY DEF SkipDeposit, UserRow, SkipRow
<1>2. MatchTypes' /\ HeldInv' /\ MatchKept
  BY <1>1, UserFrame
<1>3. QED
  BY <1>1, <1>2, Skipped

LEMMA WithdrawStep ==
    ASSUME SeqInv, NEW req \in RowTypes("Withdraw"), NEW nonce, DoWithdraw(req, nonce)
    PROVE  SeqInv' /\ LedgerSteps
<1>1. /\ UserRow /\ accountLeaf[req.signer].registered
      /\ req.amount < tokenLeaf[req.signer][req.token].availableAmt
      /\ req.signer \in Accounts /\ req.token \in Tokens /\ req.amount \in Int
      /\ -req.amount \in Int /\ 0 \in Int
      /\ tokenLeaf' = updateAccountToken(tokenLeaf, req.signer, req.token, -req.amount, 0)
      /\ accountLeaf' = updateAccountNonce(req.signer)
      /\ backing' = [backing EXCEPT ![req.token] = @ - req.amount]
      /\ logs' = logs + 1 /\ NoOrderWritten /\ fault' \in {"none", "run twice"}
  <2>1. fault' \in {"none", "run twice"}
    BY DEF DoWithdraw, RunTwiceIfOld
  <2>2. /\ req.signer \in Accounts /\ req.token \in Tokens /\ req.amount \in Int
        /\ -req.amount \in Int /\ 0 \in Int
    BY RowsAre
  <2>3. /\ UserRow /\ accountLeaf[req.signer].registered
        /\ req.amount < tokenLeaf[req.signer][req.token].availableAmt
        /\ tokenLeaf' = updateAccountToken(tokenLeaf, req.signer, req.token, -req.amount, 0)
        /\ accountLeaf' = updateAccountNonce(req.signer)
        /\ backing' = [backing EXCEPT ![req.token] = @ - req.amount]
        /\ logs' = logs + 1 /\ NoOrderWritten
    BY Zenon DEF DoWithdraw, addTxLogs, Affords
  <2>4. QED
    BY <2>1, <2>2, <2>3, Zenon
<1>2. TypeInv /\ obsOrderLeaf' = obsOrderLeaf /\ unsaved' = unsaved /\ orderIds' = orderIds
  BY <1>1 DEF SeqInv, NoOrderWritten
<1>3. /\ fault = "none" /\ MatchTypes' /\ HeldInv' /\ RoomInv' /\ Outside
      /\ logs' \in Nat /\ rows' \in 0 .. MaxRows
      /\ apiNonces' = apiNonces /\ apiOrders' = apiOrders
  BY <1>1, UserFrame
<1>4. LeafTypes' /\ OrdersKept /\ LeavesInv'
  BY <1>1, <1>2, <1>3, Untouched, NoOrderFrame
<1>5. /\ TokenTypes' /\ Locked' = Locked
      /\ Available' = [Available EXCEPT ![req.signer][req.token] = @ + (-req.amount)]
  <2> DEFINE x == -req.amount
  <2>1. /\ req.signer \in Accounts /\ req.token \in Tokens /\ x \in Int /\ 0 \in Int
        /\ tokenLeaf' = updateAccountToken(tokenLeaf, req.signer, req.token, x, 0)
    BY <1>1, Zenon
  <2> HIDE DEF x
  <2>2. /\ TokenTypes' /\ Locked' = Locked
        /\ Available' = [Available EXCEPT ![req.signer][req.token] = @ + x]
    BY <1>2, <2>1, OneToken DEF TokenTypes
  <2>3. QED
    BY <2>2, Zenon DEF x
<1>6. AccountTypes' /\ req.signer \in Registered /\ Registered' = Registered
      /\ Nonces' = [Nonces EXCEPT ![req.signer] = @ + 1]
  BY <1>1, <1>2, <1>3, OneNonce
<1>7. CountTypes'
  BY <1>1, <1>2, <1>3, BackingChanged DEF TypeInv, CountTypes, Faults
<1>8. SeqInv'
  BY <1>3, <1>4, <1>5, <1>6, <1>7, TypeParts, PTL DEF SeqInv
<1>9. /\ Available[req.signer][req.token] = tokenLeaf[req.signer][req.token].availableAmt
      /\ Available[req.signer][req.token] \in Int
  BY <1>1, <1>2 DEF Available, TypeInv, TokenLeafNode
<1>10. Available[req.signer][req.token] + (-req.amount) = Available[req.signer][req.token] - req.amount
  BY <1>1, <1>9
<1>11. Available' = [Available EXCEPT ![req.signer][req.token] = @ - req.amount]
  BY <1>5, <1>10, Zenon
<1>12. Ledger!DoReqWithdraw(req)
  BY <1>1, <1>3, <1>4, <1>5, <1>6, <1>9, <1>11, WithdrawIs
<1>13. LedgerSteps
  BY <1>12, RequestsAre DEF LedgerSteps, Ledger!Next
<1>14. QED
  BY <1>8, <1>13

\* What is placed, in a leaf that is free.
LEMMA Placed ==
    ASSUME SeqInv, NEW req \in RowTypes("SecondLimitOrder"), NEW nonce \in Nat, NextRow
    PROVE  /\ PlacedOrder(req, nonce) \in OpenRows
           /\ LedgerOrder(PlacedOrder(req, nonce)) = OrderOf(req, nonce)
<1>1. /\ req.signer \in Accounts /\ req.token \in Tokens
      /\ req.amount \in Amounts /\ req.amount \in Nat
      /\ req.buyToken \in Tokens /\ req.buyAmt \in Amounts
  BY RowsAre
<1>2. rows + 1 \in 1 .. MaxRows
  BY SequencerLedgerAssumption DEF SeqInv, TypeInv, NextRow
<1>3. PlacedOrder(req, nonce) \in OpenRows
  BY <1>1, <1>2 DEF PlacedOrder, OpenRows, OrderRows
<1>4. LedgerOrder(PlacedOrder(req, nonce)) = OrderOf(req, nonce)
  BY <1>3, LedgerOrderOf DEF LedgerOrder, PlacedOrder, OrderOf
<1>5. QED
  BY <1>3, <1>4

LEMMA OrderStep ==
    ASSUME SeqInv, NEW req \in RowTypes("SecondLimitOrder"),
           NEW nonce \in SignedNonces(req.signer), DoSecondLimitOrder(req, nonce)
    PROVE  SeqInv' /\ LedgerSteps
<1> DEFINE order == PlacedOrder(req, nonce)
           x == -req.amount
<1>1. PICK l \in Leaves : l = orderIds.next
  BY DEF DoSecondLimitOrder
<1>2. /\ UserRow /\ NextRow /\ accountLeaf[req.signer].registered
      /\ req.amount < tokenLeaf[req.signer][req.token].availableAmt
      /\ req.signer \in Accounts /\ req.token \in Tokens /\ req.amount \in Int
      /\ x \in Int
      /\ tokenLeaf' = updateAccountToken(tokenLeaf, req.signer, req.token, x, req.amount)
      /\ accountLeaf' = updateAccountNonce(req.signer)
      /\ WriteUnawaited(l, order)
      /\ orderIds' = [orderIds EXCEPT !.next = NextOrderId(@)]
      /\ logs' = logs + 1 /\ backing' = backing
      /\ fault' \in {"none", "run twice"} /\ (fault' = "none" => nonce = Nonces[req.signer])
  <2>1. fault' \in {"none", "run twice"} /\ (fault' = "none" => nonce = NextNonce(req.signer))
    BY DEF DoSecondLimitOrder, RunTwiceIfOld
  <2>2. NextNonce(req.signer) = Nonces[req.signer]
    BY RowsAre DEF Nonces
  <2>3. req.signer \in Accounts /\ req.token \in Tokens /\ req.amount \in Int /\ x \in Int
    BY RowsAre
  <2>4. /\ UserRow /\ accountLeaf[req.signer].registered
        /\ req.amount < tokenLeaf[req.signer][req.token].availableAmt
        /\ tokenLeaf' = updateAccountToken(tokenLeaf, req.signer, req.token, x, req.amount)
        /\ accountLeaf' = updateAccountNonce(req.signer)
        /\ WriteUnawaited(l, order)
        /\ orderIds' = [orderIds EXCEPT !.next = NextOrderId(@)]
        /\ logs' = logs + 1 /\ backing' = backing
    BY <1>1, Zenon DEF DoSecondLimitOrder, addTxLogs, Affords
  <2>5. NextRow
    BY <2>4 DEF UserRow
  <2>6. QED
    BY <2>1, <2>2, <2>3, <2>4, <2>5, Zenon
<1>3. TypeInv
  BY DEF SeqInv
<1>4. /\ fault = "none" /\ MatchTypes' /\ HeldInv' /\ RoomInv' /\ Outside
      /\ logs' \in Nat /\ rows' \in 0 .. MaxRows
      /\ apiNonces' = apiNonces /\ apiOrders' = apiOrders
  BY <1>2, UserFrame
<1>5. order \in OpenRows /\ LedgerOrder(order) = OrderOf(req, nonce)
  BY <1>2, Placed DEF SignedNonces
<1>6. obsOrderLeaf[l] = NoRow /\ unsaved[l] = NoRow /\ IsEmpty(l)
  BY <1>1, <1>4 DEF SeqInv, LeavesInv, IsEmpty, TypeInv
<1>7. /\ LeafTypes'
      /\ OrdersSaved' = [OrdersSaved EXCEPT ![l] = LedgerOrder(order)]
      /\ \A k \in Leaves : k # l => obsOrderLeaf'[k] = obsOrderLeaf[k] /\ unsaved'[k] = unsaved[k]
  <2>1. CASE obsOrderLeaf' = [obsOrderLeaf EXCEPT ![l] = order] /\ unsaved' = unsaved
    BY <1>2, <1>3, <1>5, <1>6, <2>1, LeafWritten
  <2>2. CASE unsaved' = [unsaved EXCEPT ![l] = order] /\ obsOrderLeaf' = obsOrderLeaf
    BY <1>2, <1>3, <1>5, <1>6, <2>2, LeafPending
  <2>3. QED
    BY <1>2, <2>1, <2>2 DEF WriteUnawaited
<1>8. /\ orderIds' \in [next : Nat, counted : BOOLEAN]
      /\ orderIds'.next = l + 1 /\ l \in Nat
  <2>1. orderIds \in [next : Nat, counted : BOOLEAN]
    BY <1>3 DEF TypeInv
  <2>2. orderIds' = [orderIds EXCEPT !.next = @ + 1]
    BY <1>2, Zenon DEF NextOrderId
  <2>3. QED
    BY <1>1, <2>1, <2>2
<1> HIDE DEF x, order
<1>9. LeavesInv'
  <2>1. ASSUME NEW k \in Leaves, k >= orderIds'.next \/ logs' = 0
        PROVE  obsOrderLeaf'[k] = NoRow /\ unsaved'[k] = NoRow
    <3>0. logs' # 0
      <4>1. logs' = logs + 1
        BY <1>2, Zenon
      <4>2. logs \in Nat
        BY <1>3, Zenon DEF TypeInv
      <4>3. QED
        BY <4>1, <4>2
    <3>1. k \in Int /\ k # l /\ k >= l
      BY <1>8, <2>1, <3>0 DEF Leaves
    <3>2. obsOrderLeaf[k] = NoRow /\ unsaved[k] = NoRow
      BY <1>4, <1>1, <3>1 DEF SeqInv, LeavesInv
    <3>3. QED
      BY <1>7, <3>1, <3>2
  <2>2. QED
    BY <2>1 DEF LeavesInv
<1>10. AccountTypes' /\ req.signer \in Registered /\ Registered' = Registered
      /\ Nonces' = [Nonces EXCEPT ![req.signer] = @ + 1]
  BY <1>2, <1>3, <1>4, OneNonce
<1>11. /\ TokenTypes'
       /\ Available' = [Available EXCEPT ![req.signer][req.token] = @ + x]
       /\ Locked' = [Locked EXCEPT ![req.signer][req.token] = @ + req.amount]
  <2>1. tokenLeaf \in [Accounts -> [Tokens -> TokenLeafNode]]
    BY <1>3 DEF TypeInv
  <2>2. TokenChanged(tokenLeaf, updateAccountToken(tokenLeaf, req.signer, req.token, x, req.amount),
                     req.signer, req.token, x, req.amount)
    BY <1>2, <2>1, OneTokenOf
  <2>3. TokenChanged(tokenLeaf, tokenLeaf', req.signer, req.token, x, req.amount)
    BY <1>2, <2>2, Zenon
  <2>4. QED
    BY <2>3, TokenState, Zenon DEF TokenChanged, TokenTypes
<1>12. CountTypes'
  BY <1>2, <1>3, <1>4, <1>8 DEF TypeInv, CountTypes, Faults
<1>13. SeqInv'
  BY <1>4, <1>7, <1>9, <1>10, <1>11, <1>12, TypeParts, PTL DEF SeqInv
<1>14. /\ Available[req.signer][req.token] = tokenLeaf[req.signer][req.token].availableAmt
       /\ Available[req.signer][req.token] \in Int
  BY <1>2, <1>3 DEF Available, TypeInv, TokenLeafNode
<1>15. Available[req.signer][req.token] + x = Available[req.signer][req.token] - req.amount
  BY <1>2, <1>14 DEF x
<1>16. Available' = [Available EXCEPT ![req.signer][req.token] = @ - req.amount]
  BY <1>11, <1>15, Zenon
<1>17. CASE fault' # "none"
  BY <1>13, <1>17 DEF LedgerSteps
<1>18. CASE nonce = Nonces[req.signer]
  <2> DEFINE placed == WithLeaf(req, l)
  <2>1. /\ placed.signer = req.signer /\ placed.token = req.token /\ placed.amount = req.amount
        /\ placed.leaf = l /\ OrderOf(placed, Nonces[req.signer]) = OrderOf(req, Nonces[req.signer])
    BY DEF WithLeaf, OrderOf
  <2>2. placed \in Ledger!OfType("SecondLimitOrder")
    BY RequestsAre
  <2>3. OrdersSaved[placed.leaf] = NoOrder
    BY <1>6, <2>1, NoLedgerOrder DEF OrdersSaved, LeafOnceSaved
  <2> HIDE DEF placed
  <2>4. /\ placed.signer \in Registered
        /\ placed.amount < Available[placed.signer][placed.token]
        /\ OrdersSaved' = [OrdersSaved EXCEPT ![placed.leaf] = OrderOf(placed, Nonces[placed.signer])]
        /\ Nonces' = [Nonces EXCEPT ![placed.signer] = @ + 1]
        /\ Available' = [Available EXCEPT ![placed.signer][placed.token] = @ - placed.amount]
        /\ Locked' = [Locked EXCEPT ![placed.signer][placed.token] = @ + placed.amount]
    BY <1>2, <1>5, <1>7, <1>10, <1>11, <1>14, <1>16, <1>18, <2>1, Zenon
  <2>5. Ledger!DoReqSecondLimitOrder(placed)
    BY <1>2, <1>4, <1>10, <2>3, <2>4, OrderIs
  <2>6. LedgerSteps
    BY <2>2, <2>5 DEF LedgerSteps, Ledger!Next
  <2>7. QED
    BY <1>13, <2>6
<1>19. QED
  BY <1>2, <1>17, <1>18

\* An order the API takes counts a nonce the ledger does not have.
LEMMA PlaceStep ==
    ASSUME SeqInv, NEW a \in Accounts, placeOrder(a)
    PROVE  SeqInv' /\ LedgerSteps
<1>1. PICK read \in 0 .. accountLeaf[a].nonce :
         /\ accountLeaf' = [accountLeaf EXCEPT ![a].nonce = read + 1]
         /\ apiNonces' = [apiNonces EXCEPT ![a] = @ + read + 1 - accountLeaf[a].nonce]
  BY DEF placeOrder
<1>2. /\ fault = "none" /\ apiOrders < MaxApiOrders /\ apiOrders' = apiOrders + 1
      /\ accountLeaf[a].registered
      /\ tokenLeaf' = tokenLeaf /\ obsOrderLeaf' = obsOrderLeaf /\ unsaved' = unsaved
      /\ orderIds' = orderIds /\ currentHoldTakerOrder' = currentHoldTakerOrder
      /\ logs' = logs /\ rows' = rows /\ match' = match /\ backing' = backing /\ fault' = fault
  BY DEF placeOrder
<1>3. TypeInv /\ AccountTypes
  BY TypeParts DEF SeqInv
<1>4. /\ accountLeaf[a].nonce \in Int /\ apiNonces[a] \in Int /\ read \in Nat
      /\ apiNonces[a] + read + 1 - accountLeaf[a].nonce \in Int
  BY <1>3 DEF AccountTypes, AccountLeafNode
<1>5. /\ accountLeaf' \in [Accounts -> AccountLeafNode] /\ apiNonces' \in [Accounts -> Int]
      /\ \A b \in Accounts : accountLeaf'[b].registered = accountLeaf[b].registered
      /\ \A b \in Accounts :
            b # a => accountLeaf'[b].nonce = accountLeaf[b].nonce /\ apiNonces'[b] = apiNonces[b]
      /\ accountLeaf'[a].nonce = read + 1
      /\ apiNonces'[a] = apiNonces[a] + read + 1 - accountLeaf[a].nonce
  BY <1>1, <1>3, <1>4 DEF AccountTypes, AccountLeafNode
<1>6. AccountTypes'
  BY <1>2, <1>3, <1>5 DEF AccountTypes
<1>7. AccountsKept
  <2>1. accountLeaf'[a].nonce - apiNonces'[a] = accountLeaf[a].nonce - apiNonces[a]
    BY <1>4, <1>5
  <2>2. \A b \in Accounts : accountLeaf'[b].nonce - apiNonces'[b] = accountLeaf[b].nonce - apiNonces[b]
    BY <1>5, <2>1
  <2>3. Nonces' = Nonces
    BY <2>2 DEF Nonces, NextNonce
  <2>4. Registered' = Registered
    BY <1>5 DEF Registered
  <2>5. QED
    BY <2>3, <2>4 DEF AccountsKept
<1>8. TokenTypes' /\ TokensKept /\ LeafTypes' /\ OrdersKept
  BY <1>2, <1>3, Untouched
<1>9. MatchTypes' /\ MatchKept
  BY <1>2, <1>3, TypeParts DEF MatchTypes, MatchKept, Channel, AtStart
<1>10. HeldInv' /\ LeavesInv' /\ RoomInv'
  BY <1>2 DEF SeqInv, HeldInv, SameOrder, LeavesInv, RoomInv, Padding, Ending
<1>11. CountTypes'
  BY <1>2, <1>3, SequencerLedgerAssumption DEF TypeInv, CountTypes
<1>12. SeqInv'
  BY <1>6, <1>8, <1>9, <1>10, <1>11, TypeParts, PTL DEF SeqInv
<1>13. QED
  BY <1>2, <1>7, <1>8, <1>9, <1>12, Stutters

\* A write that lands is no step of the ledger.
LEMMA SaveStep ==
    ASSUME SeqInv, NEW l \in Leaves, SaveOrderLeaf(l)
    PROVE  SeqInv' /\ LedgerSteps
<1>1. /\ fault = "none" /\ unsaved[l] # NoRow
      /\ obsOrderLeaf' = [obsOrderLeaf EXCEPT ![l] = unsaved[l]]
      /\ unsaved' = [unsaved EXCEPT ![l] = NoRow]
      /\ accountLeaf' = accountLeaf /\ tokenLeaf' = tokenLeaf /\ orderIds' = orderIds
      /\ currentHoldTakerOrder' = currentHoldTakerOrder /\ logs' = logs /\ rows' = rows
      /\ match' = match /\ backing' = backing /\ fault' = fault
      /\ apiNonces' = apiNonces /\ apiOrders' = apiOrders
  BY DEF SaveOrderLeaf, api
<1>2. TypeInv /\ LeafTypes
  BY TypeParts DEF SeqInv
<1>3. /\ obsOrderLeaf'[l] = unsaved[l] /\ unsaved'[l] = NoRow
      /\ \A k \in Leaves : k # l => obsOrderLeaf'[k] = obsOrderLeaf[k] /\ unsaved'[k] = unsaved[k]
  BY <1>1, <1>2 DEF LeafTypes
<1>4. LeafTypes'
  BY <1>1, <1>2, <1>3 DEF LeafTypes, IsEmpty
<1>5. \A k \in Leaves : LeafOnceSaved(k)' = LeafOnceSaved(k)
  BY <1>1, <1>3 DEF LeafOnceSaved
<1>6. OrdersKept
  <2>1. OrdersSaved' = [k \in Leaves |-> LedgerOrder(LeafOnceSaved(k)')]
    BY DEF OrdersSaved, LedgerOrder
  <2>2. QED
    BY <1>5, <2>1 DEF OrdersKept, OrdersSaved
<1>7. AccountTypes' /\ AccountsKept /\ TokenTypes' /\ TokensKept
  BY <1>1, <1>2, Untouched
<1>8. MatchTypes' /\ MatchKept
  BY <1>1, <1>2, TypeParts DEF MatchTypes, MatchKept, Channel, AtStart
<1>9. HeldInv'
  BY <1>1, <1>2, <1>3 DEF SeqInv, HeldInv, TypeInv, SameOrder
<1>10. LeavesInv'
  BY <1>1, <1>3 DEF SeqInv, LeavesInv
<1>11. RoomInv'
  BY <1>1 DEF SeqInv, RoomInv, Padding, Ending
<1>12. CountTypes'
  BY <1>1, <1>2 DEF TypeInv, CountTypes
<1>13. SeqInv'
  BY <1>4, <1>7, <1>8, <1>9, <1>10, <1>11, <1>12, TypeParts, PTL DEF SeqInv
<1>14. QED
  BY <1>1, <1>6, <1>7, <1>8, <1>13, Stutters

\* Nor is the late count of the leaves.
LEMMA CountStep ==
    ASSUME SeqInv, SetCurrentOrderId
    PROVE  SeqInv' /\ LedgerSteps
<1> DEFINE read == {l \in Leaves : obsOrderLeaf[l] # NoRow}
<1>1. /\ fault = "none" /\ accountLeaf' = accountLeaf /\ tokenLeaf' = tokenLeaf
      /\ obsOrderLeaf' = obsOrderLeaf /\ unsaved' = unsaved
      /\ orderIds' = [next |-> 2 + Cardinality(read), counted |-> TRUE]
      /\ fault' = (IF orderIds'.next < orderIds.next THEN "recounted" ELSE "none")
      /\ currentHoldTakerOrder' = currentHoldTakerOrder /\ logs' = logs /\ rows' = rows
      /\ match' = match /\ backing' = backing /\ apiNonces' = apiNonces /\ apiOrders' = apiOrders
  BY DEF SetCurrentOrderId, leaves, api
<1>2. TypeInv
  BY DEF SeqInv
<1>3. Cardinality(read) \in Nat
  <2>1. IsFiniteSet(1 .. NumOfLeaves)
    BY FS_Interval, SequencerLedgerAssumption
  <2>2. read \subseteq 1 .. NumOfLeaves
    BY DEF Leaves
  <2>3. QED
    BY <2>1, <2>2, FS_Subset, FS_CardinalityType
<1> HIDE DEF read
<1>4. /\ AccountTypes' /\ AccountsKept /\ TokenTypes' /\ TokensKept /\ LeafTypes' /\ OrdersKept
  BY <1>1, <1>2, Untouched
<1>5. MatchTypes' /\ MatchKept
  BY <1>1, <1>2, TypeParts DEF MatchTypes, MatchKept, Channel, AtStart
<1>6. HeldInv'
  BY <1>1 DEF SeqInv, HeldInv, SameOrder
<1>7. orderIds'.next \in Nat /\ orderIds' \in [next : Nat, counted : BOOLEAN] /\ orderIds.next \in Nat
  BY <1>1, <1>2, <1>3 DEF TypeInv
<1>8. LeavesInv'
  <2>1. ASSUME fault' = "none", NEW l \in Leaves, l >= orderIds'.next \/ logs' = 0
        PROVE  obsOrderLeaf'[l] = NoRow /\ unsaved'[l] = NoRow
    <3>1. ~(orderIds'.next < orderIds.next)
      BY <1>1, <2>1
    <3>2. l >= orderIds.next \/ logs = 0
      BY <1>1, <1>7, <2>1, <3>1 DEF Leaves
    <3>3. QED
      BY <1>1, <3>2 DEF SeqInv, LeavesInv
  <2>2. QED
    BY <2>1 DEF LeavesInv
<1>9. RoomInv'
  BY <1>1 DEF SeqInv, RoomInv, Padding, Ending
<1>10. CountTypes'
  BY <1>1, <1>2, <1>7 DEF TypeInv, CountTypes, Faults
<1>11. SeqInv'
  BY <1>4, <1>5, <1>6, <1>8, <1>9, <1>10, TypeParts, PTL DEF SeqInv
<1>12. QED
  BY <1>1, <1>4, <1>5, <1>11, Stutters

\* A NOOP is one of the ledger, unless an order is held.
LEMMA NoopStep ==
    ASSUME SeqInv, DoNoop
    PROVE  SeqInv' /\ LedgerSteps
<1>1. /\ Ending /\ logs' = logs + 1 /\ rows' = rows
      /\ accountLeaf' = accountLeaf /\ tokenLeaf' = tokenLeaf
      /\ obsOrderLeaf' = obsOrderLeaf /\ unsaved' = unsaved /\ orderIds' = orderIds
      /\ fault = "none"
      /\ fault' = (IF currentHoldTakerOrder # NoOrder THEN "split" ELSE "none")
      /\ currentHoldTakerOrder' = currentHoldTakerOrder /\ match' = match /\ backing' = backing
      /\ apiNonces' = apiNonces /\ apiOrders' = apiOrders
  BY DEF DoNoop, leaves, addTxLogs, api
<1>2. TypeInv /\ RoomInv
  BY DEF SeqInv
<1>3. /\ AccountTypes' /\ AccountsKept /\ TokenTypes' /\ TokensKept /\ LeafTypes' /\ OrdersKept
  BY <1>1, <1>2, Untouched
<1>4. MatchTypes' /\ MatchKept
  BY <1>1, <1>2, TypeParts DEF MatchTypes, MatchKept, Channel, AtStart
<1>5. HeldInv' /\ LeavesInv'
  BY <1>1 DEF SeqInv, HeldInv, LeavesInv, SameOrder, TypeInv
<1>6. RoomInv' /\ logs < MaxLogs
  BY <1>1, <1>2, NoopRoom
<1>7. CountTypes'
  BY <1>1, <1>2 DEF TypeInv, CountTypes, Faults
<1>8. SeqInv'
  BY <1>3, <1>4, <1>5, <1>6, <1>7, TypeParts, PTL DEF SeqInv
<1>9. CASE currentHoldTakerOrder # NoOrder
  BY <1>1, <1>8, <1>9 DEF LedgerSteps
<1>10. CASE currentHoldTakerOrder = NoOrder
  <2>1. Outside
    BY <1>1, <1>4, <1>6, <1>10 DEF Outside, Channel
  <2>2. Ledger!DoReqUnknow([reqType |-> "Unknow"])
    BY <1>1, <1>3, <2>1, UnknowIs
  <2>3. QED
    BY <1>8, <2>2, RequestsAre DEF LedgerSteps, Ledger!Next
<1>11. QED
  BY <1>9, <1>10

\* A row of a match.
LEMMA MatchFrame ==
    ASSUME SeqInv, MatchRow, logs' \in {logs, logs + 1}
    PROVE  /\ fault = "none" /\ RoomInv' /\ logs' \in Nat /\ rows' \in 0 .. MaxRows
           /\ apiNonces' = apiNonces /\ apiOrders' = apiOrders
           /\ logs' = logs + 1 => Inside
<1>1. fault = "none" /\ NextRow /\ apiNonces' = apiNonces /\ apiOrders' = apiOrders
  BY DEF MatchRow, NextRow, api
<1>2. /\ RoomInv' /\ logs' \in Nat /\ rows' \in 0 .. MaxRows /\ logs < MaxLogs
      /\ logs' = logs + 1 => logs' % NumOfReqs # 0
  BY <1>1, RowRoom DEF SeqInv
<1>3. QED
  BY <1>1, <1>2 DEF Inside

\* A leaf with an order has been given out.
LEMMA GivenOut ==
    ASSUME SeqInv, fault = "none", NEW l \in Leaves, obsOrderLeaf[l] # NoRow
    PROVE  ~(l >= orderIds.next) /\ logs # 0
BY DEF SeqInv, LeavesInv

LEMMA StartStep ==
    ASSUME SeqInv, NEW req \in RowTypes("SecondLimitStart"), DoSecondLimitStart(req)
    PROVE  SeqInv' /\ LedgerSteps
<1> DEFINE l == req.leaf
<1>1. PICK order : order = obsOrderLeaf[l]
  OBVIOUS
<1>2. /\ MatchRow /\ match = NoMatch /\ ~IsEmpty(l)
      /\ match' = [leaf |-> l, taker |-> LedgerOrder(LeafOnceSaved(l)), skipped |-> FALSE]
      /\ currentHoldTakerOrder' = order
      /\ obsOrderLeaf' = [obsOrderLeaf EXCEPT ![l] = NoOrder] /\ unsaved' = unsaved
      /\ orderIds' = orderIds /\ accountLeaf' = accountLeaf /\ tokenLeaf' = tokenLeaf
      /\ backing' = backing
      /\ \/ fault' = "threw late" /\ logs' = logs
         \/ fault' = fault /\ logs' = logs + 1
  BY <1>1, Zenon DEF DoSecondLimitStart, MatcherStarts, RemoveOrder, addTxLogs
<1>3. l \in Leaves /\ TypeInv
  BY RowsAre DEF SeqInv
<1> HIDE DEF l
<1>4. order \in OpenRows /\ unsaved[l] = NoRow /\ OrdersSaved[l] = LedgerOrder(order)
      /\ LeafOnceSaved(l) = order
  BY <1>1, <1>2, <1>3, LeafRead
<1>5. /\ fault = "none" /\ RoomInv' /\ logs' \in Nat /\ rows' \in 0 .. MaxRows
      /\ apiNonces' = apiNonces /\ apiOrders' = apiOrders
      /\ logs' = logs + 1 => Inside
  BY <1>2, MatchFrame
<1>6. /\ LeafTypes' /\ obsOrderLeaf'[l] = NoOrder
      /\ OrdersSaved' = [OrdersSaved EXCEPT ![l] = NoOrder]
      /\ \A k \in Leaves : k # l => obsOrderLeaf'[k] = obsOrderLeaf[k]
  <2>1. NoOrder \in OpenRows \cup {NoOrder}
    OBVIOUS
  <2>2. /\ LeafTypes' /\ obsOrderLeaf'[l] = NoOrder
        /\ OrdersSaved' = [OrdersSaved EXCEPT ![l] = LedgerOrder(NoOrder)]
        /\ \A k \in Leaves : k # l => obsOrderLeaf'[k] = obsOrderLeaf[k]
    BY <1>2, <1>3, <1>4, <2>1, LeafWritten
  <2>3. QED
    BY <2>2, NoLedgerOrder, Zenon
<1>7. /\ order # NoOrder /\ LedgerOrder(order) \in OpenTakers /\ SameOrder(order, LedgerOrder(order))
      /\ LedgerOrder(order).accumulatedSellAmt = order.accumulatedSellAmt
      /\ LedgerOrder(order).accumulatedBuyAmt = order.accumulatedBuyAmt
  BY <1>4, LedgerOrderOf DEF SameOrder
<1>8. /\ match'.leaf = l /\ match'.taker = LedgerOrder(order) /\ match' \in MatchType
      /\ match' # NoMatch
  <2>1. match' = [leaf |-> l, taker |-> LedgerOrder(order), skipped |-> FALSE]
    BY <1>2, <1>4, Zenon
  <2>2. l \in Nat /\ l # 0
    BY <1>3 DEF Leaves
  <2>3. QED
    BY <1>7, <2>1, <2>2 DEF MatchType, NoMatch
<1>9. MatchTypes'
  BY <1>2, <1>3, <1>4, <1>7, <1>8 DEF MatchTypes
<1>10. HeldInv'
  BY <1>2, <1>4, <1>6, <1>7, <1>8, Zenon DEF HeldInv, SameOrder
<1>11. LeavesInv'
  <2>1. obsOrderLeaf[l] # NoRow
    BY <1>2 DEF IsEmpty
  <2>2. ~(l >= orderIds.next) /\ logs # 0
    BY <1>3, <1>5, <2>1, GivenOut
  <2>3. QED
    BY <1>2, <1>5, <1>6, <2>2 DEF SeqInv, LeavesInv, TypeInv
<1>12. /\ AccountTypes' /\ AccountsKept /\ TokenTypes' /\ TokensKept
  BY <1>2, <1>3, <1>5, Untouched
<1>13. CountTypes'
  BY <1>2, <1>3, <1>5 DEF TypeInv, CountTypes, Faults
<1>14. SeqInv'
  BY <1>5, <1>6, <1>9, <1>10, <1>11, <1>12, <1>13, TypeParts, PTL DEF SeqInv
<1>15. CASE fault' = "threw late"
  BY <1>14, <1>15 DEF LedgerSteps
<1>16. CASE logs' = logs + 1
  <2>1. Inside /\ Channel = NoOrder
    BY <1>2, <1>5, <1>16 DEF Channel, SeqInv, HeldInv
  <2>2. OrdersSaved[l] # NoOrder
    BY <1>4, <1>7, NoOrderAssumption DEF OpenTakers
  <2>3. /\ Channel' = OrdersSaved[l]
        /\ AtStart' = [sell |-> OrdersSaved[l].accumulatedSellAmt,
                       buy |-> OrdersSaved[l].accumulatedBuyAmt]
    BY <1>2, <1>4, <1>7, <1>8 DEF Channel, AtStart
  <2>4. Ledger!DoReqSecondLimitStart(req)
    BY <1>2, <1>6, <1>12, <2>1, <2>2, <2>3, StartIs DEF l
  <2>5. LedgerSteps
    BY <2>4, RequestsAre DEF LedgerSteps, Ledger!Next
  <2>6. QED
    BY <1>14, <2>5
<1>17. QED
  BY <1>2, <1>15, <1>16

LEMMA StartSkipped ==
    ASSUME SeqInv, NEW req \in RowTypes("SecondLimitStart"), SkipStart(req)
    PROVE  SeqInv' /\ LedgerSteps
<1> DEFINE l == req.leaf
<1>1. /\ NextRow /\ SkipRow /\ match = NoMatch
      /\ LedgerOrder(LeafOnceSaved(l)) # NoOrder
      /\ match' = [leaf |-> l, taker |-> LedgerOrder(LeafOnceSaved(l)), skipped |-> FALSE]
      /\ currentHoldTakerOrder' = currentHoldTakerOrder
  BY DEF SkipStart, MatchRow, MatcherStarts, SkipRow
<1>2. l \in Leaves /\ TypeInv
  BY RowsAre DEF SeqInv
<1> HIDE DEF l
<1>3. currentHoldTakerOrder = NoOrder
  BY <1>1 DEF SeqInv, HeldInv
<1>4. LedgerOrder(LeafOnceSaved(l)) \in OpenTakers
  BY <1>1, <1>2, LeafRead
<1>5. /\ match'.leaf = l /\ match'.taker = LedgerOrder(LeafOnceSaved(l)) /\ match' \in MatchType
  BY <1>1, <1>2, <1>4 DEF MatchType, NoMatch, Leaves
<1>6. MatchTypes' /\ HeldInv' /\ MatchKept
  BY <1>1, <1>2, <1>3, <1>4, <1>5 DEF MatchTypes, HeldInv, MatchKept, Channel, AtStart
<1>7. QED
  BY <1>1, <1>6, Skipped

LEMMA ExchangeSkipped ==
    ASSUME SeqInv, NEW req, SkipExchange(req)
    PROVE  SeqInv' /\ LedgerSteps
<1>1. /\ NextRow /\ SkipRow /\ match # NoMatch
      /\ match' = [match EXCEPT !.skipped = TRUE]
      /\ currentHoldTakerOrder' = currentHoldTakerOrder
      /\ obsOrderLeaf' = obsOrderLeaf /\ unsaved' = unsaved
  BY DEF SkipExchange, MatchRow, MatcherExchanges, SkipRow, leaves
<1>2. MatchTypes
  BY TypeParts DEF SeqInv
<1>3. match'.leaf = match.leaf /\ match'.taker = match.taker /\ match' \in MatchType
  BY <1>1, <1>2 DEF MatchTypes, MatchType
<1>4. match' # NoMatch
  BY <1>1, <1>2, <1>3 DEF MatchTypes, NoMatch, Leaves
<1>5. MatchTypes'
  BY <1>1, <1>2, <1>3 DEF MatchTypes
<1>6. HeldInv'
  BY <1>1, <1>3, <1>4 DEF SeqInv, HeldInv, SameOrder
<1>7. MatchKept
  BY <1>1, <1>3 DEF MatchKept, Channel, AtStart
<1>8. QED
  BY <1>1, <1>5, <1>6, <1>7, Skipped

LEMMA EndSkipped ==
    ASSUME SeqInv, NEW req, SkipEnd(req)
    PROVE  SeqInv' /\ LedgerSteps
<1>1. /\ NextRow /\ SkipRow /\ currentHoldTakerOrder = NoOrder /\ match' = NoMatch
      /\ currentHoldTakerOrder' = currentHoldTakerOrder
  BY DEF SkipEnd, MatchRow, SkipRow
<1>2. NoMatch \in MatchType
  BY DEF NoMatch, MatchType
<1>3. MatchTypes' /\ HeldInv' /\ MatchKept
  BY <1>1, <1>2 DEF MatchTypes, HeldInv, MatchKept, Channel, AtStart
<1>4. QED
  BY <1>1, <1>3, Skipped

LEMMA FillIsFilled ==
    ASSUME NEW o, NEW sold, NEW bought
    PROVE  Ledger!Fill(o, sold, bought) = Filled(o, sold, bought)
BY DEF Ledger!Fill, Filled

\* What an exchange makes of the order row in the maker's leaf.
MakerLeft(row, sold, bought) ==
    IF Filled(row, sold, bought).accumulatedSellAmt = Filled(row, sold, bought).amount
      THEN NoOrder ELSE Filled(row, sold, bought)

LEMMA MakerIsLeft ==
    ASSUME NEW row \in OpenRows, NEW sold \in 0 .. row.amount - row.accumulatedSellAmt, NEW bought \in Nat
    PROVE  /\ MakerLeft(row, sold, bought) \in OpenRows \cup {NoOrder}
           /\ LedgerOrder(MakerLeft(row, sold, bought)) =
                 Ledger!Kept(Ledger!Fill(LedgerOrder(row), sold, bought))
<1> DEFINE f == Filled(row, sold, bought)
<1>1. /\ row.amount \in Nat /\ row.accumulatedSellAmt \in Nat /\ row.accumulatedBuyAmt \in Nat
  BY DEF OpenRows, OrderRows, Amounts
<1>2. /\ row.accumulatedSellAmt + sold \in 0 .. row.amount /\ row.accumulatedBuyAmt + bought \in Nat
      /\ sold \in Int /\ bought \in Int
  BY <1>1
<1>3. f \in OpenRows /\ LedgerOrder(f) = Filled(LedgerOrder(row), sold, bought)
  BY <1>2, FilledIs
<1>4. LedgerOrder(f) = Ledger!Fill(LedgerOrder(row), sold, bought)
  BY <1>3, FillIsFilled
<1> HIDE DEF f
<1>5. /\ LedgerOrder(f).accumulatedSellAmt = f.accumulatedSellAmt
      /\ LedgerOrder(f).amount = f.amount
  BY <1>3, LedgerOrderOf
<1>6. MakerLeft(row, sold, bought) = (IF f.accumulatedSellAmt = f.amount THEN NoOrder ELSE f)
  BY DEF MakerLeft, f
<1>7. Ledger!Kept(LedgerOrder(f)) =
         (IF f.accumulatedSellAmt = f.amount THEN NoOrder ELSE LedgerOrder(f))
  BY <1>5 DEF Ledger!Kept
<1>8. LedgerOrder(MakerLeft(row, sold, bought)) = Ledger!Kept(LedgerOrder(f))
  BY <1>6, <1>7, NoLedgerOrder
<1>9. QED
  BY <1>3, <1>4, <1>6, <1>8

LEMMA ExchangeStep ==
    ASSUME SeqInv, NEW req \in RowTypes("SecondLimitExchange"), DoSecondLimitExchange(req)
    PROVE  SeqInv' /\ LedgerSteps
<1> DEFINE l == req.leaf
<1>1. PICK row, maker, sold, bought, taker, between :
         /\ row = obsOrderLeaf[l] /\ maker = Maker(l) /\ sold = SoldBy(l) /\ bought = BoughtBy(l)
         /\ taker = match.taker
         /\ between = updateAccountToken(tokenLeaf, row.signer, row.buyToken, bought, 0)
  OBVIOUS
<1>2. /\ MatchRow /\ ~IsEmpty(l)
      /\ match # NoMatch /\ maker # NoOrder
      /\ taker.token = maker.buyToken /\ taker.buyToken = maker.token
      /\ Ledger!IsMatched(maker, taker)
      /\ Ledger!SupTakerBuyAmt(maker, taker) \in Ledger!SupTakerBuyAmts(maker, taker)
      /\ Ledger!SupMakerBuyAmt(maker) \in Ledger!SupMakerBuyAmts(maker, taker)
      /\ match' = [match EXCEPT !.taker = Ledger!Fill(@, bought, Ledger!TakerBought(maker))]
      /\ tokenLeaf' = updateAccountToken(between, row.signer, row.token, 0, -sold)
      /\ obsOrderLeaf' = [obsOrderLeaf EXCEPT ![l] = MakerLeft(row, sold, bought)]
      /\ unsaved' = unsaved /\ accountLeaf' = accountLeaf /\ orderIds' = orderIds
      /\ currentHoldTakerOrder' = currentHoldTakerOrder /\ backing' = backing
  BY <1>1, Zenon DEF DoSecondLimitExchange, MatcherExchanges, RemoveOrder, MakerLeft,
                     SupTakerBuyAmt, SupMakerBuyAmt
<1>3. /\ fault' = "threw late" \/ fault' = "orphan" \/ fault' = "skipped" \/ fault' = "none"
      /\ fault' = "none" => logs' = logs + 1 /\ currentHoldTakerOrder # NoOrder
      /\ logs' \in {logs, logs + 1}
  BY DEF DoSecondLimitExchange, addTxLogs
<1>4. l \in Leaves /\ TypeInv
  BY RowsAre DEF SeqInv
<1> HIDE DEF l
<1>5. row \in OpenRows /\ unsaved[l] = NoRow /\ maker = LedgerOrder(row) /\ OrdersSaved[l] = maker
  BY <1>1, <1>2, <1>4, LeafRead DEF Maker
<1>6. /\ maker \in OpenTakers /\ taker \in OpenTakers /\ match \in MatchType
      /\ match.leaf \in Leaves
  BY <1>1, <1>2, <1>4, <1>5, LedgerOrderOf DEF TypeInv
<1>7. /\ sold = Ledger!MatchedSellAmt(maker, Ledger!SupTakerBuyAmt(maker, taker))
      /\ bought = Ledger!MatchedBuyAmt(taker, Ledger!SupMakerBuyAmt(maker))
  BY <1>1, Zenon DEF SoldBy, BoughtBy, SupTakerBuyAmt, SupMakerBuyAmt
<1>8. /\ sold \in 0 .. maker.amount - maker.accumulatedSellAmt
      /\ bought \in 0 .. taker.amount - taker.accumulatedSellAmt
  BY <1>2, <1>6, <1>7, MatchedTypes
<1>9. /\ row.signer = maker.signer /\ row.token = maker.token /\ row.buyToken = maker.buyToken
      /\ row.amount = maker.amount /\ row.accumulatedSellAmt = maker.accumulatedSellAmt
  BY <1>5, LedgerOrderOf
<1>10. /\ maker.signer \in Accounts /\ maker.token \in Tokens /\ maker.buyToken \in Tokens
       /\ maker.amount \in Nat /\ taker.amount \in Nat /\ taker.accumulatedSellAmt \in Nat
       /\ maker.accumulatedSellAmt \in Nat
  BY <1>6 DEF OpenTakers, LedgerOrders, Amounts
<1>11. sold \in Nat /\ bought \in Nat /\ sold \in Int /\ bought \in Int
  BY <1>8, <1>10
<1>12. /\ fault = "none" /\ RoomInv' /\ logs' \in Nat /\ rows' \in 0 .. MaxRows
       /\ apiNonces' = apiNonces /\ apiOrders' = apiOrders
       /\ logs' = logs + 1 => Inside
  BY <1>2, <1>3, MatchFrame
<1>13. /\ MakerLeft(row, sold, bought) \in OpenRows \cup {NoOrder}
       /\ LedgerOrder(MakerLeft(row, sold, bought)) = Ledger!Kept(Ledger!Fill(maker, sold, bought))
  BY <1>5, <1>8, <1>9, <1>11, MakerIsLeft
<1> DEFINE left == MakerLeft(row, sold, bought)
<1> HIDE DEF left
<1>14. /\ LeafTypes' /\ obsOrderLeaf'[l] = left
       /\ OrdersSaved' = [OrdersSaved EXCEPT ![l] = LedgerOrder(left)]
       /\ \A k \in Leaves : k # l => obsOrderLeaf'[k] = obsOrderLeaf[k]
  BY <1>2, <1>4, <1>5, <1>13, LeafWritten DEF left
<1>15. /\ TokenTypes'
       /\ Available' = [Available EXCEPT ![maker.signer][maker.buyToken] = @ + bought]
       /\ Locked' = [Locked EXCEPT ![maker.signer][maker.token] = @ - sold]
  <2> DEFINE a == maker.signer
             t == maker.buyToken
             u == maker.token
  <2>1. /\ between = updateAccountToken(tokenLeaf, a, t, bought, 0)
        /\ tokenLeaf' = updateAccountToken(between, a, u, 0, -sold)
    BY <1>1, <1>2, <1>9, Zenon
  <2>2. a \in Accounts /\ t \in Tokens /\ u \in Tokens
    BY <1>10
  <2> HIDE DEF a, t, u
  <2>3. TwoTokensChanged(a, t, u, bought, sold)
    BY <1>4, <1>11, <2>1, <2>2, TwoTokens
  <2>4. QED
    BY <2>3, Zenon DEF a, t, u, TwoTokensChanged, TokenTypes
<1> DEFINE filled == Ledger!Fill(taker, bought, maker.amount)
<1>16. filled \in OpenTakers /\ SameOrder(taker, filled)
  BY <1>6, <1>8, <1>10, TakerFilled DEF SameOrder
<1> HIDE DEF filled
<1>17. match'.leaf = match.leaf /\ match'.taker = filled /\ match' \in MatchType
  <2>1. match' = [match EXCEPT !.taker = filled]
    BY <1>1, <1>2, Zenon DEF filled, Ledger!TakerBought
  <2>2. QED
    BY <1>6, <1>16, <2>1 DEF MatchType
<1>18. match' # NoMatch
  BY <1>6, <1>17 DEF NoMatch, Leaves
<1>19. MatchTypes'
  BY <1>2, <1>4, <1>6, <1>16, <1>17 DEF MatchTypes, TypeInv
<1>20. HeldInv'
  <2>1. ASSUME currentHoldTakerOrder' # NoOrder
        PROVE  /\ SameOrder(currentHoldTakerOrder', match'.taker)
               /\ obsOrderLeaf'[match'.leaf] = NoOrder /\ unsaved'[match'.leaf] = NoRow
    <3>1. /\ SameOrder(currentHoldTakerOrder, taker)
          /\ obsOrderLeaf[match.leaf] = NoOrder /\ unsaved[match.leaf] = NoRow
      BY <1>1, <1>2, <2>1 DEF SeqInv, HeldInv
    <3>2. match.leaf # l
      BY <1>2, <3>1 DEF IsEmpty
    <3>3. SameOrder(currentHoldTakerOrder, filled)
      BY <1>16, <3>1 DEF SameOrder
    <3>4. QED
      BY <1>2, <1>6, <1>14, <1>17, <3>1, <3>2, <3>3
  <2>2. QED
    BY <1>18, <2>1 DEF HeldInv, SameOrder
<1>21. LeavesInv'
  <2>1. obsOrderLeaf[l] # NoRow
    BY <1>2 DEF IsEmpty
  <2>2. ~(l >= orderIds.next) /\ logs # 0
    BY <1>4, <1>12, <2>1, GivenOut
  <2>3. QED
    BY <1>2, <1>3, <1>12, <1>14, <2>2 DEF SeqInv, LeavesInv, TypeInv
<1>22. AccountTypes' /\ AccountsKept
  BY <1>2, <1>4, <1>12, Untouched
<1>23. CountTypes'
  BY <1>2, <1>3, <1>4, <1>12 DEF TypeInv, CountTypes, Faults
<1>24. SeqInv'
  BY <1>12, <1>14, <1>15, <1>19, <1>20, <1>21, <1>22, <1>23, TypeParts, PTL DEF SeqInv
<1>25. CASE fault' # "none"
  BY <1>24, <1>25 DEF LedgerSteps
<1>26. CASE fault' = "none"
  <2>1. Inside /\ Channel = taker /\ Channel' = filled /\ AtStart' = AtStart
    BY <1>1, <1>2, <1>3, <1>12, <1>17, <1>26 DEF Channel, AtStart
  <2>2. taker # NoOrder
    BY <1>6, NoOrderAssumption DEF OpenTakers
  <2>3. maker = OrdersSaved[req.leaf] /\ Channel # NoOrder
        /\ sold = Ledger!MatchedSellAmt(maker, Ledger!SupTakerBuyAmt(maker, Channel))
        /\ bought = Ledger!MatchedBuyAmt(Channel, Ledger!SupMakerBuyAmt(maker))
        /\ Ledger!SupTakerBuyAmt(maker, Channel) \in Ledger!SupTakerBuyAmts(maker, Channel)
        /\ Ledger!SupMakerBuyAmt(maker) \in Ledger!SupMakerBuyAmts(maker, Channel)
        /\ Channel.token = maker.buyToken /\ Channel.buyToken = maker.token
        /\ Ledger!IsMatched(maker, Channel)
    BY <1>2, <1>5, <1>7, <2>1, <2>2, Zenon DEF l
  <2>4. /\ OrdersSaved' = [OrdersSaved EXCEPT ![req.leaf] = Ledger!Kept(Ledger!Fill(maker, sold, bought))]
        /\ Channel' = Ledger!Fill(Channel, bought, Ledger!TakerBought(maker))
    BY <1>13, <1>14, <2>1, Zenon DEF l, left, filled, Ledger!TakerBought
  <2>5. Ledger!DoReqSecondLimitExchange(req)
    BY <1>2, <1>15, <1>22, <2>1, <2>3, <2>4, ExchangeIs
  <2>6. LedgerSteps
    BY <2>5, RequestsAre DEF LedgerSteps, Ledger!Next
  <2>7. QED
    BY <1>24, <2>6
<1>27. QED
  BY <1>25, <1>26

\* What is held, filled by what the matcher's row has on top, is the matcher's.
LEMMA HeldFilled ==
    ASSUME NEW held \in OpenRows, NEW taker \in OpenTakers, NEW sold, NEW bought, SameOrder(held, taker),
           sold = taker.accumulatedSellAmt - held.accumulatedSellAmt,
           bought = taker.accumulatedBuyAmt - held.accumulatedBuyAmt
    PROVE  /\ Filled(held, sold, bought) \in OpenRows
           /\ LedgerOrder(Filled(held, sold, bought)) = taker
           /\ sold \in Int /\ bought \in Int
<1> DEFINE f == Filled(held, sold, bought)
<1>1. /\ held.amount \in Nat /\ held.accumulatedSellAmt \in Nat /\ held.accumulatedBuyAmt \in Nat
      /\ taker.accumulatedSellAmt \in Nat /\ taker.accumulatedBuyAmt \in Nat
      /\ taker.accumulatedSellAmt <= taker.amount /\ taker.amount = held.amount
      /\ taker \in LedgerOrders
  BY DEF OpenRows, OrderRows, OpenTakers, LedgerOrders, SameOrder, Amounts
<1>2. /\ sold \in Int /\ bought \in Int
      /\ held.accumulatedSellAmt + sold = taker.accumulatedSellAmt
      /\ held.accumulatedBuyAmt + bought = taker.accumulatedBuyAmt
  BY <1>1
<1>3. f \in OpenRows /\ LedgerOrder(f) = Filled(LedgerOrder(held), sold, bought)
  BY <1>1, <1>2, FilledIs
<1> DEFINE o == LedgerOrder(held)
<1>4. /\ o \in LedgerOrders
      /\ o.signer = taker.signer /\ o.token = taker.token /\ o.amount = taker.amount
      /\ o.nonce = taker.nonce /\ o.buyToken = taker.buyToken /\ o.buyAmt = taker.buyAmt
      /\ o.accumulatedSellAmt + sold = taker.accumulatedSellAmt
      /\ o.accumulatedBuyAmt + bought = taker.accumulatedBuyAmt
  BY <1>2, LedgerOrderOf DEF SameOrder, OpenTakers
<1> HIDE DEF o, f
<1>5. Filled(o, sold, bought) = [o EXCEPT !.accumulatedSellAmt = taker.accumulatedSellAmt,
                                          !.accumulatedBuyAmt = taker.accumulatedBuyAmt]
  BY <1>4, Zenon DEF Filled
<1>6. [o EXCEPT !.accumulatedSellAmt = taker.accumulatedSellAmt,
                !.accumulatedBuyAmt = taker.accumulatedBuyAmt] = taker
  BY <1>1, <1>4 DEF LedgerOrders
<1>7. LedgerOrder(f) = taker
  BY <1>3, <1>5, <1>6 DEF o
<1>8. QED
  BY <1>2, <1>3, <1>7 DEF f

LEMMA EndStep ==
    ASSUME SeqInv, NEW req \in RowTypes("SecondLimitEnd"), DoSecondLimitEnd(req)
    PROVE  SeqInv' /\ LedgerSteps
<1> DEFINE l == req.leaf
<1>1. PICK held, taker, sold, bought, between, filled :
         /\ held = currentHoldTakerOrder /\ taker = match.taker
         /\ sold = TakerSold /\ bought = TakerBought
         /\ filled = Filled(held, sold, bought)
         /\ between = updateAccountToken(tokenLeaf, held.signer, held.buyToken, bought, 0)
  OBVIOUS
<1>2. /\ MatchRow /\ held # NoOrder /\ l = match.leaf
      /\ match' = NoMatch /\ currentHoldTakerOrder' = NoOrder
      /\ tokenLeaf' = updateAccountToken(between, held.signer, held.token, 0, -sold)
      /\ accountLeaf' = accountLeaf /\ orderIds' = orderIds /\ backing' = backing
      /\ \/ fault' = "crashed" /\ obsOrderLeaf' = obsOrderLeaf /\ unsaved' = unsaved /\ logs' = logs
         \/ /\ filled.accumulatedSellAmt # filled.amount
            /\ WriteUnawaited(l, filled) /\ fault' \in {"skipped", "none"} /\ logs' = logs + 1
  <2>1. /\ MatchRow /\ held # NoOrder /\ l = match.leaf
        /\ match' = NoMatch /\ currentHoldTakerOrder' = NoOrder
        /\ tokenLeaf' = updateAccountToken(between, held.signer, held.token, 0, -sold)
        /\ accountLeaf' = accountLeaf /\ orderIds' = orderIds /\ backing' = backing
    BY <1>1, Zenon DEF DoSecondLimitEnd
  <2>2. /\ filled.accumulatedSellAmt = filled.amount =>
             fault' = "crashed" /\ obsOrderLeaf' = obsOrderLeaf /\ unsaved' = unsaved /\ logs' = logs
        /\ filled.accumulatedSellAmt # filled.amount =>
             /\ WriteUnawaited(l, filled) /\ logs' = logs + 1
             /\ fault' = IF match.skipped THEN "skipped" ELSE "none"
    BY <1>1, Zenon DEF DoSecondLimitEnd, addTxLogs
  <2>3. QED
    BY <2>1, <2>2
<1>3. l \in Leaves /\ TypeInv
  BY RowsAre DEF SeqInv
<1> HIDE DEF l
<1>4. /\ match # NoMatch /\ held \in OpenRows /\ taker \in OpenTakers /\ SameOrder(held, taker)
      /\ obsOrderLeaf[l] = NoOrder /\ unsaved[l] = NoRow
  BY <1>1, <1>2, <1>3 DEF SeqInv, HeldInv, TypeInv
<1>5. /\ sold = taker.accumulatedSellAmt - held.accumulatedSellAmt
      /\ bought = taker.accumulatedBuyAmt - held.accumulatedBuyAmt
  BY <1>1 DEF TakerSold, TakerBought
<1>6. /\ filled \in OpenRows /\ LedgerOrder(filled) = taker
      /\ sold \in Int /\ bought \in Int
  <2>1. /\ Filled(held, sold, bought) \in OpenRows
        /\ LedgerOrder(Filled(held, sold, bought)) = taker
        /\ sold \in Int /\ bought \in Int
    BY <1>4, <1>5, HeldFilled
  <2>2. QED
    BY <1>1, <2>1, Zenon
<1>7. /\ held.signer = taker.signer /\ held.token = taker.token /\ held.buyToken = taker.buyToken
      /\ taker.signer \in Accounts /\ taker.token \in Tokens /\ taker.buyToken \in Tokens
  BY <1>4 DEF SameOrder, OpenTakers, LedgerOrders
<1>8. /\ fault = "none" /\ RoomInv' /\ logs' \in Nat /\ rows' \in 0 .. MaxRows
      /\ apiNonces' = apiNonces /\ apiOrders' = apiOrders
      /\ logs' = logs + 1 => Inside
  BY <1>2, MatchFrame
<1>9. /\ TokenTypes'
      /\ Available' = [Available EXCEPT ![taker.signer][taker.buyToken] = @ + bought]
      /\ Locked' = [Locked EXCEPT ![taker.signer][taker.token] = @ - sold]
  <2> DEFINE a == taker.signer
             t == taker.buyToken
             u == taker.token
  <2>1. /\ between = updateAccountToken(tokenLeaf, a, t, bought, 0)
        /\ tokenLeaf' = updateAccountToken(between, a, u, 0, -sold)
    BY <1>1, <1>2, <1>7, Zenon
  <2>2. a \in Accounts /\ t \in Tokens /\ u \in Tokens
    BY <1>7
  <2> HIDE DEF a, t, u
  <2>3. TwoTokensChanged(a, t, u, bought, sold)
    BY <1>3, <1>6, <2>1, <2>2, TwoTokens
  <2>4. QED
    BY <2>3, Zenon DEF a, t, u, TwoTokensChanged, TokenTypes
<1>10. /\ LeafTypes'
       /\ \A k \in Leaves : k # l => obsOrderLeaf'[k] = obsOrderLeaf[k] /\ unsaved'[k] = unsaved[k]
       /\ fault' = "none" => OrdersSaved' = [OrdersSaved EXCEPT ![l] = taker]
  <2>1. CASE fault' = "crashed" /\ obsOrderLeaf' = obsOrderLeaf /\ unsaved' = unsaved
    BY <1>3, <2>1, Untouched
  <2>2. CASE obsOrderLeaf' = [obsOrderLeaf EXCEPT ![l] = filled] /\ unsaved' = unsaved
    <3>1. /\ LeafTypes'
          /\ OrdersSaved' = [OrdersSaved EXCEPT ![l] = LedgerOrder(filled)]
          /\ \A k \in Leaves : k # l => obsOrderLeaf'[k] = obsOrderLeaf[k]
      BY <1>3, <1>4, <1>6, <2>2, LeafWritten
    <3>2. QED
      BY <1>6, <2>2, <3>1, Zenon
  <2>3. CASE unsaved' = [unsaved EXCEPT ![l] = filled] /\ obsOrderLeaf' = obsOrderLeaf
    <3>1. IsEmpty(l)
      BY <1>4 DEF IsEmpty
    <3>2. /\ LeafTypes'
          /\ OrdersSaved' = [OrdersSaved EXCEPT ![l] = LedgerOrder(filled)]
          /\ \A k \in Leaves : k # l => unsaved'[k] = unsaved[k]
      BY <1>3, <1>6, <2>3, <3>1, LeafPending
    <3>3. QED
      BY <1>6, <2>3, <3>2, Zenon
  <2>4. QED
    BY <1>2, <2>1, <2>2, <2>3 DEF WriteUnawaited
<1>11. MatchTypes' /\ HeldInv'
  <2>1. NoMatch \in MatchType
    BY DEF NoMatch, MatchType
  <2>2. QED
    BY <1>2, <2>1 DEF MatchTypes, HeldInv
<1>12. LeavesInv'
  <2>1. obsOrderLeaf[l] # NoRow
    BY <1>4, NoOrderAssumption
  <2>2. ~(l >= orderIds.next) /\ logs # 0
    BY <1>3, <1>8, <2>1, GivenOut
  <2>3. QED
    BY <1>2, <1>8, <1>10, <2>2 DEF SeqInv, LeavesInv, TypeInv
<1>13. AccountTypes' /\ AccountsKept
  BY <1>2, <1>3, <1>8, Untouched
<1>14. CountTypes'
  BY <1>2, <1>3, <1>8 DEF TypeInv, CountTypes, Faults
<1>15. SeqInv'
  BY <1>8, <1>9, <1>10, <1>11, <1>12, <1>13, <1>14, TypeParts, PTL DEF SeqInv
<1>16. CASE fault' # "none"
  BY <1>15, <1>16 DEF LedgerSteps
<1>17. CASE fault' = "none"
  <2>1. /\ Inside /\ filled.accumulatedSellAmt # filled.amount
    BY <1>2, <1>8, <1>17
  <2>2. /\ Channel = taker /\ Channel' = NoOrder /\ AtStart' = [sell |-> 0, buy |-> 0]
        /\ AtStart.sell = held.accumulatedSellAmt /\ AtStart.buy = held.accumulatedBuyAmt
    BY <1>1, <1>2 DEF Channel, AtStart
  <2>3. taker # NoOrder
    BY <1>4, NoOrderAssumption DEF OpenTakers
  <2>4. taker.accumulatedSellAmt # taker.amount
    BY <1>6, <2>1, LedgerOrderOf
  <2>5. Ledger!Kept(taker) = taker
    BY <2>4 DEF Ledger!Kept
  <2>6. OrdersSaved[l] = NoOrder
    BY <1>3, <1>4, NoLedgerOrder DEF OrdersSaved, LeafOnceSaved
  <2>7. /\ Channel # NoOrder /\ OrdersSaved[req.leaf] = NoOrder
        /\ OrdersSaved' = [OrdersSaved EXCEPT ![req.leaf] = Ledger!Kept(Channel)]
        /\ Available' = [Available EXCEPT ![Channel.signer][Channel.buyToken] =
                                              @ + (Channel.accumulatedBuyAmt - AtStart.buy)]
        /\ Locked' = [Locked EXCEPT ![Channel.signer][Channel.token] =
                                        @ - (Channel.accumulatedSellAmt - AtStart.sell)]
    BY <1>5, <1>9, <1>10, <1>17, <2>2, <2>3, <2>5, <2>6, Zenon DEF l
  <2>8. Ledger!DoReqSecondLimitEnd(req)
    BY <1>2, <1>13, <2>1, <2>2, <2>7, EndIs
  <2>9. LedgerSteps
    BY <2>8, RequestsAre DEF LedgerSteps, Ledger!Next
  <2>10. QED
    BY <1>15, <2>9
<1>18. QED
  BY <1>16, <1>17

LEMMA TwiceStep ==
    ASSUME SeqInv, RunMatchRowTwice
    PROVE  SeqInv' /\ LedgerSteps
<1>1. /\ MatchRow /\ logs' = logs /\ accountLeaf' = accountLeaf /\ tokenLeaf' = tokenLeaf
      /\ obsOrderLeaf' = obsOrderLeaf /\ unsaved' = unsaved /\ orderIds' = orderIds
      /\ currentHoldTakerOrder' = currentHoldTakerOrder /\ match' = match /\ backing' = backing
      /\ fault' = "run twice" /\ TypeInv
  BY DEF RunMatchRowTwice, leaves, SeqInv
<1>2. /\ RoomInv' /\ rows' \in 0 .. MaxRows /\ apiNonces' = apiNonces /\ apiOrders' = apiOrders
  BY <1>1, MatchFrame
<1>3. AccountTypes' /\ TokenTypes' /\ LeafTypes'
  BY <1>1, <1>2, Untouched
<1>4. MatchTypes' /\ HeldInv'
  BY <1>1, TypeParts DEF SeqInv, MatchTypes, HeldInv, SameOrder
<1>5. LeavesInv' /\ CountTypes'
  BY <1>1, <1>2 DEF LeavesInv, TypeInv, CountTypes, Faults
<1>6. QED
  <2>1. SeqInv'
    BY <1>2, <1>3, <1>4, <1>5, TypeParts, PTL DEF SeqInv
  <2>2. QED
    BY <1>1, <2>1 DEF LedgerSteps

\* A restart before the first log finds every leaf free and no order held.
LEMMA RestartStep ==
    ASSUME SeqInv, NEW midRow \in BOOLEAN, Restart(midRow)
    PROVE  SeqInv' /\ LedgerSteps
<1>1. /\ fault = "none" /\ accountLeaf' = accountLeaf /\ tokenLeaf' = tokenLeaf
      /\ obsOrderLeaf' = obsOrderLeaf /\ unsaved' = unsaved
      /\ orderIds' = [next |-> 1, counted |-> FALSE] /\ currentHoldTakerOrder' = NoOrder
      /\ logs' = 0 /\ fault' = (IF midRow \/ logs > 0 THEN "restarted" ELSE "none")
      /\ rows' = rows /\ match' = match /\ backing' = backing
      /\ apiNonces' = apiNonces /\ apiOrders' = apiOrders /\ TypeInv
  BY DEF Restart, leaves, api, SeqInv
<1>2. AccountTypes' /\ AccountsKept /\ TokenTypes' /\ TokensKept /\ LeafTypes' /\ OrdersKept
  BY <1>1, Untouched
<1>3. MatchTypes' /\ HeldInv'
  BY <1>1, TypeParts DEF MatchTypes, HeldInv
<1>4. RoomInv'
  <2>1. /\ NumOfReqs \in Nat /\ NumOfReqs > 3 /\ rows \in Nat
    BY <1>1, SequencerLedgerAssumption DEF TypeInv
  <2>2. 0 % NumOfReqs = 0
    BY <2>1
  <2>3. Padding' = 0
    BY <1>1, <2>1, <2>2 DEF Padding, Ending
  <2>4. QED
    BY <1>1, <2>1, <2>3 DEF RoomInv
<1>5. CountTypes'
  BY <1>1 DEF TypeInv, CountTypes, Faults
<1>6. CASE fault' # "none"
  <2>1. LeavesInv'
    BY <1>6 DEF LeavesInv
  <2>2. QED
    BY <1>2, <1>3, <1>4, <1>5, <1>6, <2>1, TypeParts, PTL DEF SeqInv, LedgerSteps
<1>7. CASE fault' = "none"
  <2>1. logs = 0
    BY <1>1, <1>7 DEF TypeInv
  <2>2. \A l \in Leaves : obsOrderLeaf[l] = NoRow /\ unsaved[l] = NoRow
    BY <1>1, <2>1 DEF SeqInv, LeavesInv
  <2>3. LeavesInv'
    BY <1>1, <2>2 DEF LeavesInv
  <2>4. currentHoldTakerOrder = NoOrder
    BY <1>1, <2>2, NoOrderAssumption DEF SeqInv, HeldInv, TypeInv
  <2>5. MatchKept
    BY <1>1, <2>4 DEF MatchKept, Channel, AtStart
  <2>6. SeqInv'
    BY <1>2, <1>3, <1>4, <1>5, <2>3, TypeParts, PTL DEF SeqInv
  <2>7. QED
    BY <1>1, <1>2, <2>1, <2>5, <2>6, Stutters
<1>8. QED
  BY <1>6, <1>7

(***************************************************************************)
(* The invariant, and the refinement of the circuits' ledger.              *)
(***************************************************************************)
LEMMA SeqStep ==
    ASSUME SeqInv, Next
    PROVE  SeqInv' /\ LedgerSteps
<1>1. ASSUME NEW req \in RowTypes("Register"), DoRegister(req) PROVE SeqInv' /\ LedgerSteps
  BY <1>1, RegisterStep
<1>2. ASSUME NEW req \in RowTypes("Deposit"), DoDeposit(req) \/ SkipDeposit(req)
      PROVE  SeqInv' /\ LedgerSteps
  BY <1>2, DepositStep, DepositSkipped
<1>3. ASSUME NEW req \in RowTypes("Withdraw"), NEW nonce \in SignedNonces(req.signer),
             DoWithdraw(req, nonce)
      PROVE  SeqInv' /\ LedgerSteps
  BY <1>3, WithdrawStep
<1>4. ASSUME NEW req \in RowTypes("SecondLimitOrder"), NEW nonce \in SignedNonces(req.signer),
             DoSecondLimitOrder(req, nonce)
      PROVE  SeqInv' /\ LedgerSteps
  BY <1>4, OrderStep
<1>5. ASSUME NEW req \in RowTypes("SecondLimitStart"), DoSecondLimitStart(req) \/ SkipStart(req)
      PROVE  SeqInv' /\ LedgerSteps
  BY <1>5, StartStep, StartSkipped
<1>6. ASSUME NEW req \in RowTypes("SecondLimitExchange"), DoSecondLimitExchange(req) \/ SkipExchange(req)
      PROVE  SeqInv' /\ LedgerSteps
  BY <1>6, ExchangeStep, ExchangeSkipped
<1>7. ASSUME NEW req \in RowTypes("SecondLimitEnd"), DoSecondLimitEnd(req) \/ SkipEnd(req)
      PROVE  SeqInv' /\ LedgerSteps
  BY <1>7, EndStep, EndSkipped
<1>8. ASSUME NEW l \in Leaves, SaveOrderLeaf(l) PROVE SeqInv' /\ LedgerSteps
  BY <1>8, SaveStep
<1>9. CASE SetCurrentOrderId
  BY <1>9, CountStep
<1>10. CASE DoNoop
  BY <1>10, NoopStep
<1>11. ASSUME NEW a \in Accounts, placeOrder(a) PROVE SeqInv' /\ LedgerSteps
  BY <1>11, PlaceStep
<1>12. CASE RunMatchRowTwice
  BY <1>12, TwiceStep
<1>13. ASSUME NEW midRow \in BOOLEAN, Restart(midRow) PROVE SeqInv' /\ LedgerSteps
  BY <1>13, RestartStep
<1>14. QED
  BY <1>1, <1>2, <1>3, <1>4, <1>5, <1>6, <1>7, <1>8, <1>9, <1>10, <1>11, <1>12, <1>13 DEF Next

LEMMA SeqStutter ==
    ASSUME SeqInv, UNCHANGED vars
    PROVE  SeqInv' /\ LedgerSteps
<1>1. /\ accountLeaf' = accountLeaf /\ tokenLeaf' = tokenLeaf
      /\ obsOrderLeaf' = obsOrderLeaf /\ unsaved' = unsaved /\ orderIds' = orderIds
      /\ currentHoldTakerOrder' = currentHoldTakerOrder /\ logs' = logs /\ rows' = rows
      /\ match' = match /\ backing' = backing /\ fault' = fault
      /\ apiNonces' = apiNonces /\ apiOrders' = apiOrders
  BY DEF vars, leaves, api
<1>2. /\ AccountTypes' /\ AccountsKept /\ TokenTypes' /\ TokensKept /\ LeafTypes' /\ OrdersKept
      /\ TypeInv
  BY <1>1, Untouched DEF SeqInv
<1>3. MatchTypes' /\ MatchKept
  BY <1>1, <1>2, TypeParts DEF MatchTypes, MatchKept, Channel, AtStart
<1>4. HeldInv' /\ LeavesInv' /\ RoomInv'
  BY <1>1 DEF SeqInv, HeldInv, SameOrder, LeavesInv, RoomInv, Padding, Ending
<1>5. CountTypes'
  BY <1>1, <1>2 DEF TypeInv, CountTypes
<1>6. SeqInv'
  BY <1>2, <1>3, <1>4, <1>5, TypeParts, PTL DEF SeqInv
<1>7. QED
  BY <1>1, <1>2, <1>3, <1>6, Stutters

\* The inductive invariant: the types, the order that the match holds, the leaves
\* not given out yet and the room for the NOOPs still to come.
THEOREM SeqCorrect == Spec => []SeqInv
<1>1. SeqInv /\ [Next]_vars => SeqInv'
  BY SeqStep, SeqStutter
<1>2. QED
  BY <1>1, InitSeq, PTL DEF Spec

LEMMA SeqTypes == SeqInv => TypeOK
<1> SUFFICES ASSUME SeqInv PROVE TypeOK
  OBVIOUS
<1>1. TypeInv /\ RoomInv /\ HeldInv
  BY DEF SeqInv
<1>2. OpenRows \subseteq OrderRows
  BY DEF OpenRows
<1>3. /\ obsOrderLeaf \in [Leaves -> ObsOrderLeafEntity]
      /\ unsaved \in [Leaves -> ObsOrderLeafEntity]
      /\ \A l \in Leaves : unsaved[l] # NoOrder
  BY <1>1, <1>2, NoOrderAssumption DEF TypeInv, ObsOrderLeafEntity
<1>4. logs \in 0 .. MaxLogs
  <2>1. /\ NumOfReqs \in Nat /\ NumOfReqs > 3 /\ MaxRows \in Nat
        /\ logs \in Nat /\ rows \in 0 .. MaxRows
    BY <1>1, SequencerLedgerAssumption DEF TypeInv
  <2>2. logs % NumOfReqs \in 0 .. NumOfReqs - 1
    BY <2>1, NextInBlock
  <2>3. Padding \in Nat
    BY <2>1, <2>2 DEF Padding
  <2>4. logs <= 3 * rows
    BY <1>1, <2>1, <2>3 DEF RoomInv
  <2>5. QED
    BY <2>1, <2>4 DEF MaxLogs
<1>5. QED
  BY <1>1, <1>3, <1>4 DEF TypeOK, TypeInv, HeldInv

\* Every leaf, every write that has not landed and every count keeps its type,
\* whatever throws or lands late; the logs stay within what the rows leave room for.
THEOREM TypeCorrect == Spec => []TypeOK
BY SeqCorrect, SeqTypes, PTL

LEMMA InitLedger == Init => Ledger!Init
<1> SUFFICES ASSUME Init PROVE Ledger!Init
  OBVIOUS
<1>1. \A l \in Leaves : LedgerOrder(LeafOnceSaved(l)) = NoOrder
  BY NoLedgerOrder DEF Init, LeafOnceSaved
<1>2. QED
  BY <1>1 DEF Init, Ledger!Init, Ledger!None, Ledger!Accounts, Ledger!Leaves, Accounts, Leaves,
              NextNonce

\* Every row the sequencer executes moves the leaves as the circuits' request moves
\* the ledger, or leaves them alone, unless the step says that the two part.
THEOREM LedgerImplemented == Spec => ImplementsLedger
<1>1. SeqInv /\ [Next]_vars => [Ledger!Next \/ fault' # "none"]_(Ledger!vars)
  BY SeqStep, SeqStutter DEF LedgerSteps
<1>2. QED
  BY <1>1, InitLedger, SeqCorrect, PTL DEF Spec, ImplementsLedger

(***************************************************************************)
(* What is recorded of a step.                                             *)
(***************************************************************************)
TokensTold ==
    \A a \in Accounts, t \in Tokens :
        Chain(witness'.tokens, TokenUnits(witness'.tokens, a, t), tokenLeaf[a][t], tokenLeaf'[a][t])
AccountsTold ==
    \A a \in Accounts :
        Chain(witness'.accounts, AccountUnits(witness'.accounts, a), accountLeaf[a], accountLeaf'[a])
OrderTold ==
    \A l \in Leaves :
        \/ unsaved'[l] # unsaved[l]
        \/ Chain(witness'.order, OrderUnits(witness'.order, l),
                 LedgerOrder(LeafOnceSaved(l)), LedgerOrder(LeafOnceSaved(l))')

LEMMA ChainEmpty ==
    ASSUME NEW units, NEW touching, touching = {}, NEW before
    PROVE  Chain(units, touching, before, before)
BY DEF Chain

LEMMA ChainOne ==
    ASSUME NEW units, NEW touching, NEW i \in Nat, touching = {i},
           NEW before, NEW after, units[i].ori = before, units[i].new = after
    PROVE  Chain(units, touching, before, after)
BY DEF Chain

LEMMA ChainTwo ==
    ASSUME NEW units, NEW touching, touching = {1, 2}, NEW before, NEW after,
           units[1].ori = before, units[1].new = units[2].ori, units[2].new = after
    PROVE  Chain(units, touching, before, after)
BY DEF Chain

LEMMA TokensIdle ==
    ASSUME witness'.tokens = <<>>, tokenLeaf' = tokenLeaf
    PROVE  TokensTold
<1>1. \A a \in Accounts, t \in Tokens : TokenUnits(<<>>, a, t) = {}
  BY DEF TokenUnits
<1>2. QED
  BY <1>1, ChainEmpty DEF TokensTold

LEMMA TokensOne ==
    ASSUME NEW a \in Accounts, NEW t \in Tokens, witness'.tokens = OneTokenUnits(a, t, tokenLeaf'),
           \A b \in Accounts, v \in Tokens : b # a \/ v # t => tokenLeaf'[b][v] = tokenLeaf[b][v]
    PROVE  TokensTold
<1> DEFINE units == witness'.tokens
<1>1. units = <<[account |-> a, token |-> t, ori |-> tokenLeaf[a][t], new |-> tokenLeaf'[a][t]],
                [account |-> a, token |-> t, ori |-> tokenLeaf'[a][t], new |-> tokenLeaf'[a][t]]>>
  BY Zenon DEF OneTokenUnits, TokenUnit
<1> HIDE DEF units
<1>2. ASSUME NEW b \in Accounts, NEW v \in Tokens
      PROVE  Chain(units, TokenUnits(units, b, v), tokenLeaf[b][v], tokenLeaf'[b][v])
  <2>1. CASE b = a /\ v = t
    <3>1. TokenUnits(units, b, v) = {1, 2}
      BY <1>1, <2>1 DEF TokenUnits
    <3>2. /\ units[1].ori = tokenLeaf[b][v] /\ units[1].new = units[2].ori
          /\ units[2].new = tokenLeaf'[b][v]
      BY <1>1, <2>1
    <3>3. QED
      BY <3>1, <3>2, ChainTwo
  <2>2. CASE b # a \/ v # t
    <3>1. TokenUnits(units, b, v) = {}
      BY <1>1, <2>2 DEF TokenUnits
    <3>2. tokenLeaf'[b][v] = tokenLeaf[b][v]
      BY <2>2
    <3>3. QED
      BY <3>1, <3>2, ChainEmpty
  <2>3. QED
    BY <2>1, <2>2
<1>3. QED
  BY <1>2 DEF units, TokensTold

LEMMA TokensTwo ==
    ASSUME TypeInv, NEW between, NEW a \in Accounts, NEW t \in Tokens, NEW u \in Tokens,
           NEW x \in Int, NEW y \in Int,
           between = updateAccountToken(tokenLeaf, a, t, x, 0),
           tokenLeaf' = updateAccountToken(between, a, u, 0, -y),
           witness'.tokens = TwoTokenUnits(a, t, u, between, tokenLeaf')
    PROVE  TokensTold
<1> DEFINE units == witness'.tokens
<1>1. units = <<[account |-> a, token |-> t, ori |-> tokenLeaf[a][t], new |-> between[a][t]],
                [account |-> a, token |-> u, ori |-> between[a][u], new |-> tokenLeaf'[a][u]]>>
  BY Zenon DEF TwoTokenUnits, TokenUnit
<1>2. /\ between \in [Accounts -> [Tokens -> TokenLeafNode]]
      /\ \A b \in Accounts, v \in Tokens : b # a \/ v # t => between[b][v] = tokenLeaf[b][v]
  BY TokenUpdated DEF TypeInv
<1>3. \A b \in Accounts, v \in Tokens : b # a \/ v # u => tokenLeaf'[b][v] = between[b][v]
  <2>1. -y \in Int
    OBVIOUS
  <2>2. QED
    BY <1>2, <2>1, TokenUpdated
<1> HIDE DEF units
<1>4. ASSUME NEW b \in Accounts, NEW v \in Tokens
      PROVE  Chain(units, TokenUnits(units, b, v), tokenLeaf[b][v], tokenLeaf'[b][v])
  <2>1. CASE b = a /\ v = t /\ v = u
    <3>1. TokenUnits(units, b, v) = {1, 2}
      BY <1>1, <2>1 DEF TokenUnits
    <3>2. /\ units[1].ori = tokenLeaf[b][v] /\ units[1].new = units[2].ori
          /\ units[2].new = tokenLeaf'[b][v]
      BY <1>1, <2>1
    <3>3. QED
      BY <3>1, <3>2, ChainTwo
  <2>2. CASE b = a /\ v = t /\ v # u
    <3>1. TokenUnits(units, b, v) = {1}
      BY <1>1, <2>2 DEF TokenUnits
    <3>2. units[1].ori = tokenLeaf[b][v] /\ units[1].new = tokenLeaf'[b][v]
      BY <1>1, <1>3, <2>2
    <3>3. QED
      BY <3>1, <3>2, ChainOne
  <2>3. CASE b = a /\ v # t /\ v = u
    <3>1. TokenUnits(units, b, v) = {2}
      BY <1>1, <2>3 DEF TokenUnits
    <3>2. units[2].ori = tokenLeaf[b][v] /\ units[2].new = tokenLeaf'[b][v]
      BY <1>1, <1>2, <2>3
    <3>3. QED
      BY <3>1, <3>2, ChainOne
  <2>4. CASE b # a \/ (v # t /\ v # u)
    <3>1. TokenUnits(units, b, v) = {}
      BY <1>1, <2>4 DEF TokenUnits
    <3>2. tokenLeaf'[b][v] = tokenLeaf[b][v]
      BY <1>2, <1>3, <2>4
    <3>3. QED
      BY <3>1, <3>2, ChainEmpty
  <2>5. QED
    BY <2>1, <2>2, <2>3, <2>4
<1>5. QED
  BY <1>4 DEF units, TokensTold

LEMMA AccountsIdle ==
    ASSUME witness'.accounts = <<>>, accountLeaf' = accountLeaf
    PROVE  AccountsTold
<1>1. \A a \in Accounts : AccountUnits(<<>>, a) = {}
  BY DEF AccountUnits
<1>2. QED
  BY <1>1, ChainEmpty DEF AccountsTold

LEMMA AccountsOne ==
    ASSUME NEW a \in Accounts, witness'.accounts = OneAccountUnits(a, accountLeaf'),
           \A b \in Accounts : b # a => accountLeaf'[b] = accountLeaf[b]
    PROVE  AccountsTold
<1> DEFINE units == witness'.accounts
<1>1. units = <<[account |-> a, ori |-> accountLeaf[a], new |-> accountLeaf'[a]],
                [account |-> a, ori |-> accountLeaf'[a], new |-> accountLeaf'[a]]>>
  BY Zenon DEF OneAccountUnits, AccountUnit
<1> HIDE DEF units
<1>2. ASSUME NEW b \in Accounts
      PROVE  Chain(units, AccountUnits(units, b), accountLeaf[b], accountLeaf'[b])
  <2>1. CASE b = a
    <3>1. AccountUnits(units, b) = {1, 2}
      BY <1>1, <2>1 DEF AccountUnits
    <3>2. /\ units[1].ori = accountLeaf[b] /\ units[1].new = units[2].ori
          /\ units[2].new = accountLeaf'[b]
      BY <1>1, <2>1
    <3>3. QED
      BY <3>1, <3>2, ChainTwo
  <2>2. CASE b # a
    <3>1. AccountUnits(units, b) = {}
      BY <1>1, <2>2 DEF AccountUnits
    <3>2. QED
      BY <2>2, <3>1, ChainEmpty
  <2>3. QED
    BY <2>1, <2>2
<1>3. QED
  BY <1>2 DEF units, AccountsTold

LEMMA OrderIdle ==
    ASSUME witness'.order = <<>>, obsOrderLeaf' = obsOrderLeaf, unsaved' = unsaved
    PROVE  OrderTold
<1>1. \A l \in Leaves : OrderUnits(<<>>, l) = {}
  BY DEF OrderUnits
<1>2. \A l \in Leaves : LedgerOrder(LeafOnceSaved(l))' = LedgerOrder(LeafOnceSaved(l))
  BY DEF LedgerOrder, LeafOnceSaved
<1>3. QED
  BY <1>1, <1>2, ChainEmpty DEF OrderTold

LEMMA OrderOne ==
    ASSUME NEW l \in Leaves, unsaved[l] = NoRow,
           witness'.order = <<OrderUnit(l, obsOrderLeaf[l], obsOrderLeaf'[l])>>,
           \A k \in Leaves : k # l => obsOrderLeaf'[k] = obsOrderLeaf[k] /\ unsaved'[k] = unsaved[k]
    PROVE  OrderTold
<1> DEFINE units == witness'.order
<1>1. units = <<[leaf |-> l, ori |-> LedgerOrder(obsOrderLeaf[l]), new |-> LedgerOrder(obsOrderLeaf'[l])]>>
  BY Zenon DEF OrderUnit
<1> HIDE DEF units
<1>2. ASSUME NEW k \in Leaves, unsaved'[k] = unsaved[k]
      PROVE  Chain(units, OrderUnits(units, k),
                   LedgerOrder(LeafOnceSaved(k)), LedgerOrder(LeafOnceSaved(k))')
  <2>1. LedgerOrder(LeafOnceSaved(k))' = LedgerOrder(LeafOnceSaved(k)')
    BY DEF LedgerOrder
  <2>2. CASE k = l
    <3>1. OrderUnits(units, k) = {1}
      BY <1>1, <2>2 DEF OrderUnits
    <3>2. LeafOnceSaved(k) = obsOrderLeaf[l] /\ LeafOnceSaved(k)' = obsOrderLeaf'[l]
      BY <1>2, <2>2 DEF LeafOnceSaved
    <3>3. /\ units[1].ori = LedgerOrder(LeafOnceSaved(k))
          /\ units[1].new = LedgerOrder(LeafOnceSaved(k))'
      BY <1>1, <2>1, <3>2
    <3>4. QED
      BY <3>1, <3>3, ChainOne
  <2>3. CASE k # l
    <3>1. OrderUnits(units, k) = {}
      BY <1>1, <2>3 DEF OrderUnits
    <3>2. LeafOnceSaved(k)' = LeafOnceSaved(k)
      BY <2>3 DEF LeafOnceSaved
    <3>3. QED
      BY <2>1, <3>1, <3>2, ChainEmpty
  <2>4. QED
    BY <2>2, <2>3
<1>3. QED
  BY <1>2 DEF units, OrderTold

Told == TokensTold /\ AccountsTold /\ OrderTold

\* The account of a row that leaves the accounts alone.
LEMMA AccountsSame ==
    ASSUME NEW a \in Accounts, accountLeaf' = accountLeaf,
           witness'.accounts = OneAccountUnits(a, accountLeaf)
    PROVE  AccountsTold
<1>1. witness'.accounts = OneAccountUnits(a, accountLeaf')
  BY Zenon
<1>2. \A b \in Accounts : b # a => accountLeaf'[b] = accountLeaf[b]
  BY Zenon
<1>3. QED
  BY <1>1, <1>2, AccountsOne

LEMMA TokensUpdated ==
    ASSUME TypeInv, NEW a \in Accounts, NEW t \in Tokens, NEW x \in Int, NEW y \in Int,
           tokenLeaf' = updateAccountToken(tokenLeaf, a, t, x, y),
           witness'.tokens = OneTokenUnits(a, t, tokenLeaf')
    PROVE  TokensTold
<1>1. tokenLeaf \in [Accounts -> [Tokens -> TokenLeafNode]]
  BY DEF TypeInv
<1>2. \A b \in Accounts, v \in Tokens : b # a \/ v # t => tokenLeaf'[b][v] = tokenLeaf[b][v]
  BY <1>1, TokenUpdated
<1>3. QED
  BY <1>2, TokensOne

LEMMA AccountsUpdated ==
    ASSUME TypeInv, NEW a \in Accounts, accountLeaf' = updateAccountNonce(a),
           witness'.accounts = OneAccountUnits(a, accountLeaf')
    PROVE  AccountsTold
<1>1. \A b \in Accounts : b # a => accountLeaf'[b] = accountLeaf[b]
  BY DEF TypeInv, updateAccountNonce
<1>2. QED
  BY <1>1, AccountsOne

LEMMA RegisterTold ==
    ASSUME SeqInv, NEW req \in RowTypes("Register"), DoRegister(req)
    PROVE  Told
<1>1. /\ req.account \in Accounts
      /\ accountLeaf' = [accountLeaf EXCEPT ![req.account] = [registered |-> TRUE, nonce |-> 0]]
      /\ witness'.accounts = OneAccountUnits(req.account, accountLeaf')
      /\ witness'.tokens = <<>> /\ witness'.order = <<>>
      /\ tokenLeaf' = tokenLeaf /\ obsOrderLeaf' = obsOrderLeaf /\ unsaved' = unsaved
  BY RowsAre DEF DoRegister, addTxLogs, NoUnit, NoOrderWritten
<1>2. \A b \in Accounts : b # req.account => accountLeaf'[b] = accountLeaf[b]
  BY <1>1 DEF SeqInv, TypeInv
<1>3. QED
  BY <1>1, <1>2, AccountsOne, TokensIdle, OrderIdle DEF Told

LEMMA DepositTold ==
    ASSUME SeqInv, NEW req \in RowTypes("Deposit"), DoDeposit(req)
    PROVE  Told
<1>1. /\ req.account \in Accounts /\ req.token \in Tokens /\ req.amount \in Int /\ 0 \in Int
      /\ accountLeaf' = accountLeaf /\ obsOrderLeaf' = obsOrderLeaf /\ unsaved' = unsaved
      /\ TypeInv
  BY RowsAre DEF DoDeposit, NoOrderWritten, SeqInv
<1>2. /\ tokenLeaf' = updateAccountToken(tokenLeaf, req.account, req.token, req.amount, 0)
      /\ witness'.accounts = OneAccountUnits(req.account, accountLeaf)
      /\ witness'.tokens = OneTokenUnits(req.account, req.token, tokenLeaf')
      /\ witness'.order = <<>>
  BY DEF DoDeposit, addTxLogs, NoUnit
<1>3. TokensTold
  BY <1>1, <1>2, TokensUpdated
<1>4. QED
  BY <1>1, <1>2, <1>3, AccountsSame, OrderIdle DEF Told

LEMMA WithdrawTold ==
    ASSUME SeqInv, NEW req \in RowTypes("Withdraw"), NEW nonce, DoWithdraw(req, nonce)
    PROVE  Told
<1>1. /\ req.signer \in Accounts /\ req.token \in Tokens /\ -req.amount \in Int /\ 0 \in Int
      /\ obsOrderLeaf' = obsOrderLeaf /\ unsaved' = unsaved /\ TypeInv
  BY RowsAre DEF DoWithdraw, NoOrderWritten, SeqInv
<1>2. /\ tokenLeaf' = updateAccountToken(tokenLeaf, req.signer, req.token, -req.amount, 0)
      /\ accountLeaf' = updateAccountNonce(req.signer)
      /\ witness'.accounts = OneAccountUnits(req.signer, accountLeaf')
      /\ witness'.tokens = OneTokenUnits(req.signer, req.token, tokenLeaf')
      /\ witness'.order = <<>>
  BY DEF DoWithdraw, addTxLogs, NoUnit
<1>3. TokensTold
  BY <1>1, <1>2, TokensUpdated
<1>4. AccountsTold
  BY <1>1, <1>2, AccountsUpdated
<1>5. QED
  BY <1>1, <1>2, <1>3, <1>4, OrderIdle DEF Told

LEMMA OrderIsTold ==
    ASSUME SeqInv, NEW req \in RowTypes("SecondLimitOrder"), NEW nonce, DoSecondLimitOrder(req, nonce)
    PROVE  Told
<1>1. PICK l \in Leaves : l = orderIds.next
  BY DEF DoSecondLimitOrder
<1>2. /\ req.signer \in Accounts /\ req.token \in Tokens /\ req.amount \in Int /\ -req.amount \in Int
      /\ TypeInv /\ fault = "none" /\ WriteUnawaited(l, PlacedOrder(req, nonce))
  BY <1>1, RowsAre DEF DoSecondLimitOrder, SeqInv, UserRow, NextRow
<1>3. /\ tokenLeaf' = updateAccountToken(tokenLeaf, req.signer, req.token, -req.amount, req.amount)
      /\ accountLeaf' = updateAccountNonce(req.signer)
      /\ witness'.accounts = OneAccountUnits(req.signer, accountLeaf')
      /\ witness'.tokens = OneTokenUnits(req.signer, req.token, tokenLeaf')
      /\ witness'.order = <<OrderUnit(l, obsOrderLeaf[l], obsOrderLeaf'[l])>>
  BY <1>1 DEF DoSecondLimitOrder, addTxLogs
<1>4. unsaved[l] = NoRow
  BY <1>1, <1>2 DEF SeqInv, LeavesInv, TypeInv
<1>5. \A k \in Leaves : k # l => obsOrderLeaf'[k] = obsOrderLeaf[k] /\ unsaved'[k] = unsaved[k]
  BY <1>2 DEF WriteUnawaited, TypeInv
<1>6. TokensTold
  BY <1>2, <1>3, TokensUpdated
<1>7. AccountsTold
  BY <1>2, <1>3, AccountsUpdated
<1>8. QED
  BY <1>3, <1>4, <1>5, <1>6, <1>7, OrderOne DEF Told

LEMMA StartTold ==
    ASSUME SeqInv, NEW req \in RowTypes("SecondLimitStart"), DoSecondLimitStart(req), fault' = "none"
    PROVE  Told
<1>1. PICK l, order : l \in Leaves /\ l = req.leaf /\ order = obsOrderLeaf[l]
  BY RowsAre
<1>2. /\ ~IsEmpty(l) /\ TypeInv
      /\ obsOrderLeaf' = [obsOrderLeaf EXCEPT ![l] = NoOrder] /\ unsaved' = unsaved
      /\ accountLeaf' = accountLeaf /\ tokenLeaf' = tokenLeaf
  BY <1>1 DEF DoSecondLimitStart, RemoveOrder, SeqInv
<1>3. /\ witness'.accounts = OneAccountUnits(order.signer, accountLeaf)
      /\ witness'.tokens = OneTokenUnits(order.signer, order.token, tokenLeaf)
      /\ witness'.order = <<OrderUnit(l, order, NoOrder)>>
  BY <1>1 DEF DoSecondLimitStart, addTxLogs
<1>4. order \in OpenRows /\ unsaved[l] = NoRow
  BY <1>1, <1>2, LeafRead
<1>5. order.signer \in Accounts /\ order.token \in Tokens
  BY <1>4 DEF OpenRows, OrderRows
<1>6. AccountsTold
  BY <1>2, <1>3, <1>5, AccountsSame
<1>7. TokensTold
  <2>1. witness'.tokens = OneTokenUnits(order.signer, order.token, tokenLeaf')
    BY <1>2, <1>3, Zenon
  <2>2. QED
    BY <1>2, <1>5, <2>1, TokensOne
<1>8. /\ obsOrderLeaf'[l] = NoOrder
      /\ \A k \in Leaves : k # l => obsOrderLeaf'[k] = obsOrderLeaf[k] /\ unsaved'[k] = unsaved[k]
  BY <1>1, <1>2 DEF TypeInv
<1>9. witness'.order = <<OrderUnit(l, obsOrderLeaf[l], obsOrderLeaf'[l])>>
  BY <1>1, <1>3, <1>8, Zenon
<1>10. OrderTold
  BY <1>1, <1>4, <1>8, <1>9, OrderOne
<1>11. QED
  BY <1>6, <1>7, <1>10 DEF Told

LEMMA ExchangeTold ==
    ASSUME SeqInv, NEW req \in RowTypes("SecondLimitExchange"), DoSecondLimitExchange(req),
           fault' = "none"
    PROVE  Told
<1>1. PICK l, row, maker, sold, bought, taker, between :
         /\ l \in Leaves /\ l = req.leaf
         /\ row = obsOrderLeaf[l] /\ maker = Maker(l) /\ sold = SoldBy(l) /\ bought = BoughtBy(l)
         /\ taker = match.taker
         /\ between = updateAccountToken(tokenLeaf, row.signer, row.buyToken, bought, 0)
  BY RowsAre
<1>2. /\ ~IsEmpty(l) /\ match # NoMatch /\ Ledger!IsMatched(maker, taker)
      /\ obsOrderLeaf' = [obsOrderLeaf EXCEPT ![l] = MakerLeft(row, sold, bought)]
      /\ tokenLeaf' = updateAccountToken(between, row.signer, row.token, 0, -sold)
      /\ unsaved' = unsaved /\ accountLeaf' = accountLeaf
  BY <1>1, Zenon DEF DoSecondLimitExchange, MatcherExchanges, RemoveOrder, MakerLeft
<1>3. /\ ~HasNoOffset(row)
      /\ addTxLogs(OneAccountUnits(row.signer, accountLeaf),
                   TwoTokenUnits(row.signer, row.buyToken, row.token, between, tokenLeaf'),
                   <<OrderUnit(l, row, obsOrderLeaf'[l])>>)
  <2>1. ~HasNoOffset(row)
    BY <1>1 DEF DoSecondLimitExchange
  <2>2. QED
    BY <1>1, <2>1, Zenon DEF DoSecondLimitExchange
<1>4. /\ witness'.accounts = OneAccountUnits(row.signer, accountLeaf)
      /\ witness'.tokens = TwoTokenUnits(row.signer, row.buyToken, row.token, between, tokenLeaf')
      /\ witness'.order = <<OrderUnit(l, row, obsOrderLeaf'[l])>>
  BY <1>3 DEF addTxLogs
<1>5. TypeInv
  BY DEF SeqInv
<1>6. row \in OpenRows /\ unsaved[l] = NoRow /\ maker = LedgerOrder(row)
  BY <1>1, <1>2, <1>5, LeafRead DEF Maker
<1>7. maker \in OpenTakers /\ taker \in OpenTakers
  BY <1>1, <1>2, <1>5, <1>6, LedgerOrderOf DEF TypeInv
<1>8. sold \in Int /\ bought \in Int
  <2>1. /\ sold \in 0 .. maker.amount - maker.accumulatedSellAmt
        /\ bought \in 0 .. taker.amount - taker.accumulatedSellAmt
    BY <1>1, <1>2, <1>7, MatchedTypes DEF SoldBy, BoughtBy, SupTakerBuyAmt, SupMakerBuyAmt
  <2>2. QED
    BY <2>1
<1>9. row.signer \in Accounts /\ row.token \in Tokens /\ row.buyToken \in Tokens
  BY <1>6 DEF OpenRows, OrderRows
<1>10. TokensTold
  BY <1>1, <1>2, <1>4, <1>5, <1>8, <1>9, TokensTwo
<1>11. AccountsTold
  BY <1>2, <1>4, <1>9, AccountsSame
<1>12. \A k \in Leaves : k # l => obsOrderLeaf'[k] = obsOrderLeaf[k] /\ unsaved'[k] = unsaved[k]
  BY <1>2, <1>5 DEF TypeInv
<1>13. OrderTold
  BY <1>1, <1>4, <1>6, <1>12, OrderOne
<1>14. QED
  BY <1>10, <1>11, <1>13 DEF Told

LEMMA EndTold ==
    ASSUME SeqInv, NEW req \in RowTypes("SecondLimitEnd"), DoSecondLimitEnd(req), fault' = "none"
    PROVE  Told
<1>1. PICK l, held, taker, sold, bought, between, filled :
         /\ l \in Leaves /\ l = req.leaf
         /\ held = currentHoldTakerOrder /\ taker = match.taker
         /\ sold = TakerSold /\ bought = TakerBought
         /\ filled = Filled(held, sold, bought)
         /\ between = updateAccountToken(tokenLeaf, held.signer, held.buyToken, bought, 0)
  BY RowsAre
<1>2. /\ held # NoOrder /\ l = match.leaf
      /\ tokenLeaf' = updateAccountToken(between, held.signer, held.token, 0, -sold)
      /\ accountLeaf' = accountLeaf
  BY <1>1, Zenon DEF DoSecondLimitEnd
<1>3. /\ WriteUnawaited(l, filled)
      /\ addTxLogs(OneAccountUnits(held.signer, accountLeaf),
                   TwoTokenUnits(held.signer, held.buyToken, held.token, between, tokenLeaf'),
                   <<OrderUnit(l, obsOrderLeaf[l], obsOrderLeaf'[l])>>)
  <2>1. filled.accumulatedSellAmt # filled.amount
    BY <1>1 DEF DoSecondLimitEnd
  <2>2. QED
    BY <1>1, <2>1, Zenon DEF DoSecondLimitEnd
<1>4. /\ witness'.accounts = OneAccountUnits(held.signer, accountLeaf)
      /\ witness'.tokens = TwoTokenUnits(held.signer, held.buyToken, held.token, between, tokenLeaf')
      /\ witness'.order = <<OrderUnit(l, obsOrderLeaf[l], obsOrderLeaf'[l])>>
  BY <1>3 DEF addTxLogs
<1>5. TypeInv
  BY DEF SeqInv
<1>6. /\ held \in OpenRows /\ taker \in OpenTakers /\ SameOrder(held, taker)
      /\ unsaved[l] = NoRow
  BY <1>1, <1>2, <1>5 DEF SeqInv, HeldInv, TypeInv
<1>7. sold \in Int /\ bought \in Int
  BY <1>1, <1>6, HeldFilled DEF TakerSold, TakerBought
<1>8. held.signer \in Accounts /\ held.token \in Tokens /\ held.buyToken \in Tokens
  BY <1>6 DEF OpenRows, OrderRows
<1>9. TokensTold
  BY <1>1, <1>2, <1>4, <1>5, <1>7, <1>8, TokensTwo
<1>10. AccountsTold
  BY <1>2, <1>4, <1>8, AccountsSame
<1>11. \A k \in Leaves : k # l => obsOrderLeaf'[k] = obsOrderLeaf[k] /\ unsaved'[k] = unsaved[k]
  BY <1>3, <1>5 DEF WriteUnawaited, TypeInv
<1>12. OrderTold
  BY <1>1, <1>4, <1>6, <1>11, OrderOne
<1>13. QED
  BY <1>9, <1>10, <1>12 DEF Told

LEMMA NoopTold == DoNoop => Told
<1> SUFFICES ASSUME DoNoop PROVE Told
  OBVIOUS
<1>1. /\ witness'.accounts = <<>> /\ witness'.tokens = <<>> /\ witness'.order = <<>>
      /\ accountLeaf' = accountLeaf /\ tokenLeaf' = tokenLeaf
      /\ obsOrderLeaf' = obsOrderLeaf /\ unsaved' = unsaved
  BY DEF DoNoop, addTxLogs, NoUnit, leaves
<1>2. QED
  BY <1>1, TokensIdle, AccountsIdle, OrderIdle DEF Told

\* What is recorded of every log is the step, unless a step says that the two part.
THEOREM WitnessCorrect == Spec => WitnessIsStep
<1>1. ASSUME SeqInv, [Next]_vars, logs' # logs, fault' = "none" PROVE Told
  <2>1. Next
    BY <1>1 DEF vars
  <2>2. ASSUME NEW req \in RowTypes("Register"), DoRegister(req) PROVE Told
    BY <1>1, <2>2, RegisterTold
  <2>3. ASSUME NEW req \in RowTypes("Deposit"), DoDeposit(req) PROVE Told
    BY <1>1, <2>3, DepositTold
  <2>4. ASSUME NEW req \in RowTypes("Withdraw"), NEW nonce, DoWithdraw(req, nonce) PROVE Told
    BY <1>1, <2>4, WithdrawTold
  <2>5. ASSUME NEW req \in RowTypes("SecondLimitOrder"), NEW nonce, DoSecondLimitOrder(req, nonce)
        PROVE  Told
    BY <1>1, <2>5, OrderIsTold
  <2>6. ASSUME NEW req \in RowTypes("SecondLimitStart"), DoSecondLimitStart(req) PROVE Told
    BY <1>1, <2>6, StartTold
  <2>7. ASSUME NEW req \in RowTypes("SecondLimitExchange"), DoSecondLimitExchange(req) PROVE Told
    BY <1>1, <2>7, ExchangeTold
  <2>8. ASSUME NEW req \in RowTypes("SecondLimitEnd"), DoSecondLimitEnd(req) PROVE Told
    BY <1>1, <2>8, EndTold
  <2>9. CASE DoNoop
    BY <2>9, NoopTold
  <2>10. ASSUME NEW req, SkipDeposit(req) \/ SkipStart(req) \/ SkipExchange(req) \/ SkipEnd(req)
         PROVE  logs' = logs
    BY <2>10 DEF SkipDeposit, SkipStart, SkipExchange, SkipEnd, SkipRow
  <2>11. ASSUME NEW l \in Leaves, SaveOrderLeaf(l) PROVE logs' = logs
    BY <2>11 DEF SaveOrderLeaf
  <2>12. SetCurrentOrderId => logs' = logs
    BY DEF SetCurrentOrderId
  <2>13. ASSUME NEW a \in Accounts, placeOrder(a) PROVE logs' = logs
    BY <2>13 DEF placeOrder
  <2>14. RunMatchRowTwice => fault' # "none"
    BY DEF RunMatchRowTwice
  <2>15. ASSUME NEW midRow \in BOOLEAN, Restart(midRow) PROVE logs' = logs \/ fault' # "none"
    BY <1>1, <2>15 DEF Restart, SeqInv, TypeInv
  <2>16. QED
    BY <1>1, <2>1, <2>2, <2>3, <2>4, <2>5, <2>6, <2>7, <2>8, <2>9, <2>10, <2>11, <2>12, <2>13,
       <2>14, <2>15 DEF Next
<1>2. SeqInv /\ [Next]_vars =>
        [logs' # logs /\ fault' = "none" =>
            /\ \A a \in Accounts, t \in Tokens :
                   Chain(witness'.tokens, TokenUnits(witness'.tokens, a, t),
                         tokenLeaf[a][t], tokenLeaf'[a][t])
            /\ \A a \in Accounts :
                   Chain(witness'.accounts, AccountUnits(witness'.accounts, a),
                         accountLeaf[a], accountLeaf'[a])
            /\ \A l \in Leaves :
                   \/ unsaved'[l] # unsaved[l]
                   \/ Chain(witness'.order, OrderUnits(witness'.order, l),
                            LedgerOrder(LeafOnceSaved(l)), LedgerOrder(LeafOnceSaved(l))')]_vars
  BY <1>1 DEF Told, TokensTold, AccountsTold, OrderTold
<1>3. QED
  BY <1>2, SeqCorrect, PTL DEF Spec, WitnessIsStep

=============================================================================
